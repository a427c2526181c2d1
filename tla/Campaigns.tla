----------------------------- MODULE Campaigns ------------------------------
(***************************************************************************)
(* One newsletter campaign, from draft to sent                             *)
(* (backend/src/campaigns/campaigns.service.ts, campaign-scheduler.ts).    *)
(*                                                                         *)
(* Administrators' requests and the schedulers' ticks read the campaign,   *)
(* await, and write; only start, pause, resume and completeFinished ask    *)
(* for its status again in the statement that changes it.  The enqueue     *)
(* goes through the subscribers by id, a chunk at a time.                  *)
(*                                                                         *)
(* A definition whose name starts with M_ is a mutated form of the one     *)
(* below it, used only to show that a property fails of that bug.          *)
(***************************************************************************)
EXTENDS Integers, FiniteSets

CONSTANTS
  N,           \* subscribers, named by the order of their ids
  Chunk,       \* ENQUEUE_CHUNK
  Admin,       \* administrators' requests in flight
  Scheduler,   \* processes whose scheduler ticks
  Alone,       \* bound: of these, the ones that never overlap another
  MaxEdits,    \* bound: edits of the content
  MaxRetries,  \* bound: copies an administrator puts back in the queue
  MaxCrashes,  \* bound: requests and ticks that end half way
  MaxMoves     \* bound: subscribers who join, leave or are erased

Process == Admin \cup Scheduler

ASSUME SizesAssumption == N \in Nat /\ Chunk \in Nat \ {0}
ASSUME ProcessAssumption == Admin \cap Scheduler = {} /\ Alone \subseteq Process
ASSUME BoundsAssumption ==
  {MaxEdits, MaxRetries, MaxCrashes, MaxMoves} \subseteq Nat

Subscriber == 1..N

VARIABLES
  \* The Campaign row.
  status,     \* "absent" once it is deleted
  due,        \* scheduledAt is in the past
  content,    \* version of its blocks, subject and audience
  counted,    \* recipientCount is not null
  \* The other tables.
  copy,       \* status of each subscriber's EmailMessage, "none" without one
  text,       \* the version of the content a copy was rendered from
  sub,        \* each NewsletterSubscriber
  \* The requests and ticks.
  pc,         \* what a process does next
  loaded,     \* the version of the content it has read
  cursor,     \* the last subscriber of the chunk it wrote, 0 before the first
  batch,      \* the chunk it has read
  \* History variables.
  confirmed,  \* the version an administrator last confirmed
  begun,      \* the campaign has started once
  steady,     \* subscribers ACTIVE ever since it first started
  reached,    \* subscribers ACTIVE at some time since then
  departures, \* somebody left or was erased since then
  notices,    \* emails that told the team of the completion: 0, 1, 2 for more
  retries, crashes, moves,
  overtaken,  \* processes whose reading somebody else's write has made untrue
  crossed     \* an edit, a removal, a date or a start that was overtaken was written

campaign == <<status, due, content, counted>>
copies   == <<copy, text>>
process  == <<pc, loaded, cursor, batch>>
audience == <<begun, steady, reached, departures>>
bounds   == <<retries, crashes, moves>>
crossing == <<overtaken, crossed>>
vars == <<campaign, copies, sub, process, confirmed, audience, notices, bounds, crossing>>

Status == {"DRAFT", "SCHEDULED", "SENDING", "PAUSED", "SENT", "CANCELLED", "absent"}
CopyStatus == {"none", "PENDING", "SENDING", "SENT", "FAILED", "CANCELLED"}
PC == {"idle", "update", "remove", "schedule", "recall", "cancel", "start",
       "restart", "load", "read", "write", "count", "tally", "close"}

-----------------------------------------------------------------------------
(* State functions *)

Before  == {"DRAFT", "SCHEDULED"}          \* start has not claimed it
Over    == {"SENT", "CANCELLED"}
Active  == {s \in Subscriber : sub[s] = "ACTIVE"}
Queued  == {s \in Subscriber : copy[s] # "none"}
Waiting == {s \in Subscriber : copy[s] \in {"PENDING", "SENDING"}}

\* audienceWhere.
M_Everybody == {s \in Subscriber : sub[s] \in {"ACTIVE", "left"}}
Audience == Active

\* The rows from the cursor on: Prisma compares with the id of the cursor's
\* row, so none when that row is gone, and skip: 1 drops the first row found.
M_AlwaysSkips(c) == {s \in Audience : \E t \in Audience : c <= t /\ t < s}
After(c) ==
  {s \in Audience :
     \/ c = 0
     \/ sub[c] # "gone" /\ \E t \in Audience : c <= t /\ t < s}

\* take: ENQUEUE_CHUNK.
Take(S) == {s \in S : Cardinality({t \in S : t <= s}) <= Chunk}

Last(S) == CHOOSE s \in S : \A t \in S : t <= s

\* createMany with skipDuplicates on (campaignId, subscriberId).
M_Upsert(B, s) == s \in B
Missing(B, s) == s \in B /\ copy[s] = "none"

\* What may be changed, removed, recalled or cancelled, closed and started.
M_EditsScheduled == status \in Before
Editable == status = "DRAFT"
M_RemovesPaused == status \in {"DRAFT", "PAUSED"}
Removable == status = "DRAFT"
M_RecallsSending == status \in {"SCHEDULED", "SENDING"}
Recallable == status = "SCHEDULED"
M_CancelsSent == status \in {"SENDING", "PAUSED", "SENT"}
Cancellable == status \in {"SENDING", "PAUSED"}
M_ClosesAgain == status \in {"SENDING", "SENT"}
Closable == status = "SENDING"
Startable == status \in Before

\* completeFinished's count of what is left.
M_ForgetsClaimed == \A s \in Subscriber : copy[s] # "PENDING"
Drained == Waiting = {}

\* What a cancellation leaves of a copy.
CopyAfterCancel(s) == IF copy[s] = "PENDING" THEN "CANCELLED" ELSE copy[s]

\* What resumeEnqueues looks for.
M_NeverResumes == FALSE
M_ResumesCancelled == status \in {"SENDING", "CANCELLED"} /\ ~counted
Interrupted == status = "SENDING" /\ ~counted

Idle(p) == pc[p] = "idle"
Free(p) ==
  Idle(p) /\ \A q \in Process \ {p} : Idle(q) \/ {p, q} \cap Alone = {}

\* Whose reading a write of p makes untrue: a change of status, that of all who
\* are on their way; of content, that of a confirmation; a copy that waits,
\* that of a count of what is left.  (Nobody tells SENDING from PAUSED by what
\* it has read.)
ByStatus(p)  == {q \in Process \ {p} : ~Idle(q)}
ByContent(p) == {q \in Process \ {p} : pc[q] \in {"schedule", "start"}}
ByCopies(p)  == {q \in Process \ {p} : pc[q] = "close"}
Crosses(p)   == crossed \/ p \in overtaken

Goto(p, l) == pc' = [pc EXCEPT ![p] = l] /\ UNCHANGED <<loaded, cursor, batch>>

Done(p) ==
  /\ pc' = [pc EXCEPT ![p] = "idle"]
  /\ loaded' = [loaded EXCEPT ![p] = 0]
  /\ cursor' = [cursor EXCEPT ![p] = 0]
  /\ batch' = [batch EXCEPT ![p] = {}]

Load(p, l) ==
  /\ pc' = [pc EXCEPT ![p] = l]
  /\ loaded' = [loaded EXCEPT ![p] = content]
  /\ UNCHANGED <<cursor, batch>>

-----------------------------------------------------------------------------
Init ==
  /\ status = "DRAFT" /\ due = FALSE /\ content = 1 /\ counted = FALSE
  /\ copy = [s \in Subscriber |-> "none"]
  /\ text = [s \in Subscriber |-> 0]
  /\ sub \in [Subscriber -> {"ACTIVE", "left"}]
  /\ pc = [p \in Process |-> "idle"]
  /\ loaded = [p \in Process |-> 0]
  /\ cursor = [p \in Process |-> 0]
  /\ batch = [p \in Process |-> {}]
  /\ confirmed = 0
  /\ begun = FALSE /\ steady = {} /\ reached = {} /\ departures = FALSE
  /\ notices = 0 /\ retries = 0 /\ crashes = 0 /\ moves = 0
  /\ overtaken = {} /\ crossed = FALSE

(* Administrators *)

\* update, remove, schedule and cancel first read the campaign.
UpdateRead(a) ==
  /\ Free(a) /\ Editable /\ content <= MaxEdits
  /\ Goto(a, "update")
  /\ UNCHANGED <<campaign, copies, sub, confirmed, audience, notices, bounds, crossing>>

UpdateWrite(a) ==
  /\ pc[a] = "update" /\ status # "absent"
  /\ content' = content + 1
  /\ Done(a)
  /\ overtaken' = (overtaken \cup ByContent(a)) \ {a} /\ crossed' = Crosses(a)
  /\ UNCHANGED <<status, due, counted, copies, sub, confirmed, audience,
                 notices, bounds>>

RemoveRead(a) ==
  /\ Free(a) /\ Removable
  /\ Goto(a, "remove")
  /\ UNCHANGED <<campaign, copies, sub, confirmed, audience, notices, bounds, crossing>>

RemoveWrite(a) ==
  /\ pc[a] = "remove" /\ status # "absent"
  /\ status' = "absent"
  /\ Done(a)
  /\ overtaken' = (overtaken \cup ByStatus(a)) \ {a} /\ crossed' = Crosses(a)
  /\ UNCHANGED <<due, content, counted, copies, sub, confirmed, audience,
                 notices, bounds>>

\* schedule: the administrator has confirmed this content for as many
\* recipients as there are now.
ScheduleRead(a) ==
  /\ Free(a) /\ status = "DRAFT" /\ Audience # {}
  /\ Load(a, "schedule")
  /\ UNCHANGED <<campaign, copies, sub, confirmed, audience, notices, bounds, crossing>>

\* A date more than a minute away: the row is written by its id.
ScheduleLater(a) ==
  /\ pc[a] = "schedule" /\ status # "absent"
  /\ status' = "SCHEDULED" /\ due' = FALSE
  /\ confirmed' = loaded[a]
  /\ Done(a)
  /\ overtaken' = (overtaken \cup ByStatus(a)) \ {a} /\ crossed' = Crosses(a)
  /\ UNCHANGED <<content, counted, copies, sub, audience, notices, bounds>>

\* Now: siteUrl is written, then start is called.
ScheduleNow(a) ==
  /\ pc[a] = "schedule" /\ status # "absent"
  /\ confirmed' = loaded[a]
  /\ Goto(a, "start")
  /\ crossed' = Crosses(a)
  /\ UNCHANGED <<campaign, copies, sub, audience, notices, bounds, overtaken>>

\* cancel: a scheduled campaign goes back to being a draft...
RecallRead(a) ==
  /\ Free(a) /\ Recallable
  /\ Goto(a, "recall")
  /\ UNCHANGED <<campaign, copies, sub, confirmed, audience, notices, bounds, crossing>>

RecallWrite(a) ==
  /\ pc[a] = "recall" /\ status # "absent"
  /\ status' = "DRAFT" /\ due' = FALSE
  /\ Done(a)
  /\ overtaken' = (overtaken \cup ByStatus(a)) \ {a} /\ crossed' = Crosses(a)
  /\ UNCHANGED <<content, counted, copies, sub, confirmed, audience, notices,
                 bounds>>

\* ... and one that is sending is cancelled with its waiting copies.
CancelRead(a) ==
  /\ Free(a) /\ Cancellable
  /\ Goto(a, "cancel")
  /\ UNCHANGED <<campaign, copies, sub, confirmed, audience, notices, bounds, crossing>>

CancelWrite(a) ==
  /\ pc[a] = "cancel" /\ status # "absent"
  /\ status' = "CANCELLED"
  /\ copy' = [s \in Subscriber |-> CopyAfterCancel(s)]
  /\ Done(a)
  /\ overtaken' = (overtaken \cup ByStatus(a)) \ {a}
  /\ UNCHANGED <<due, content, counted, text, sub, confirmed, audience,
                 notices, bounds, crossed>>

\* pause and resume are each one conditional statement.
Pause(a) ==
  /\ Free(a) /\ status = "SENDING" /\ status' = "PAUSED"
  /\ UNCHANGED <<due, content, counted, copies, sub, process, confirmed,
                 audience, notices, bounds, crossing>>

Resume(a) ==
  /\ Free(a) /\ status = "PAUSED" /\ status' = "SENDING"
  /\ UNCHANGED <<due, content, counted, copies, sub, process, confirmed,
                 audience, notices, bounds, crossing>>

\* The queue's own buttons, on one copy (EmailQueue has their steps).
Retry(a, s) ==
  /\ Free(a) /\ copy[s] \in {"FAILED", "CANCELLED"}
  /\ retries < MaxRetries /\ retries' = retries + 1
  /\ copy' = [copy EXCEPT ![s] = "PENDING"]
  /\ overtaken' = overtaken \cup ByCopies(a)
  /\ UNCHANGED <<campaign, text, sub, process, confirmed, audience, notices,
                 crashes, moves, crossed>>

Withdraw(a, s) ==
  /\ Free(a) /\ copy[s] = "PENDING"
  /\ copy' = [copy EXCEPT ![s] = "CANCELLED"]
  /\ UNCHANGED <<campaign, text, sub, process, confirmed, audience, notices,
                 bounds, crossing>>

-----------------------------------------------------------------------------
(* start and enqueue, run by a request or by a tick *)

\* The status changes first, atomically.
Start(p) ==
  /\ pc[p] = "start" /\ Startable
  /\ status' = "SENDING"
  /\ begun' = TRUE
  /\ IF begun THEN UNCHANGED <<steady, reached>>
              ELSE steady' = Active /\ reached' = Active
  /\ Goto(p, "load")
  /\ overtaken' = overtaken \cup ByStatus(p) /\ crossed' = Crosses(p)
  /\ UNCHANGED <<due, content, counted, copies, sub, confirmed, departures,
                 notices, bounds>>

\* Somebody else has claimed it: the row is read again.
StartLost(p) ==
  /\ pc[p] = "start" /\ ~Startable
  /\ Goto(p, "restart")
  /\ UNCHANGED <<campaign, copies, sub, confirmed, audience, notices, bounds, crossing>>

Restart(p) ==
  /\ pc[p] = "restart"
  /\ IF Interrupted THEN Goto(p, "load") ELSE Done(p)
  /\ overtaken' = overtaken \ {p}
  /\ UNCHANGED <<campaign, copies, sub, confirmed, audience, notices, bounds, crossed>>

\* enqueue reads the campaign and prepares its rendering.
LoadContent(p) ==
  /\ pc[p] = "load" /\ status # "absent"
  /\ Load(p, "read")
  /\ UNCHANGED <<campaign, copies, sub, confirmed, audience, notices, bounds, crossing>>

ReadChunk(p) ==
  LET B == Take(After(cursor[p])) IN
  /\ pc[p] = "read"
  /\ pc' = [pc EXCEPT ![p] = IF B = {} THEN "count" ELSE "write"]
  /\ batch' = [batch EXCEPT ![p] = B]
  /\ UNCHANGED <<campaign, copies, sub, loaded, cursor, confirmed, audience,
                 notices, bounds, crossing>>

WriteChunk(p) ==
  /\ pc[p] = "write"
  /\ copy' = [s \in Subscriber |-> IF Missing(batch[p], s) THEN "PENDING" ELSE copy[s]]
  /\ text' = [s \in Subscriber |-> IF Missing(batch[p], s) THEN loaded[p] ELSE text[s]]
  /\ cursor' = [cursor EXCEPT ![p] = Last(batch[p])]
  /\ pc' = [pc EXCEPT ![p] = "read"]
  /\ batch' = [batch EXCEPT ![p] = {}]
  /\ overtaken' = overtaken \cup ByCopies(p)
  /\ UNCHANGED <<campaign, sub, loaded, confirmed, audience, notices, bounds, crossed>>

\* recipientCount is set last.
SetCount(p) ==
  /\ pc[p] = "count" /\ status # "absent"
  /\ counted' = TRUE
  /\ Done(p)
  /\ overtaken' = overtaken \ {p}
  /\ UNCHANGED <<status, due, content, copies, sub, confirmed, audience,
                 notices, bounds, crossed>>

-----------------------------------------------------------------------------
(* The scheduler's tick: startDue, resumeEnqueues, completeFinished *)

StartDue(k) ==
  /\ Free(k) /\ status = "SCHEDULED" /\ due
  /\ Goto(k, "start")
  /\ UNCHANGED <<campaign, copies, sub, confirmed, audience, notices, bounds, crossing>>

ResumeEnqueue(k) ==
  /\ Free(k) /\ Interrupted
  /\ Goto(k, "load")
  /\ UNCHANGED <<campaign, copies, sub, confirmed, audience, notices, bounds, crossing>>

FindSending(k) ==
  /\ Free(k) /\ status = "SENDING" /\ counted
  /\ Goto(k, "tally")
  /\ UNCHANGED <<campaign, copies, sub, confirmed, audience, notices, bounds, crossing>>

Tally(k) ==
  /\ pc[k] = "tally"
  /\ IF Drained THEN Goto(k, "close") ELSE Done(k)
  /\ overtaken' = overtaken \ {k}
  /\ UNCHANGED <<campaign, copies, sub, confirmed, audience, notices, bounds, crossed>>

\* SENDING to SENT in one conditional statement, and the team is told when its
\* template is active.
Close(k) ==
  /\ pc[k] = "close" /\ Closable
  /\ status' = "SENT"
  /\ notices' \in {notices, IF notices = 0 THEN 1 ELSE 2}
  /\ Done(k)
  /\ overtaken' = (overtaken \cup ByStatus(k)) \ {k}
  /\ UNCHANGED <<due, content, counted, copies, sub, confirmed, audience, bounds, crossed>>

\* A process ends where it stands: it finds the campaign gone or closed by
\* another, ...
GiveUp(p) ==
  /\ \/ pc[p] \in {"update", "remove", "schedule", "recall", "cancel", "load", "count"}
        /\ status = "absent"
     \/ pc[p] = "close" /\ ~Closable
  /\ Done(p)
  /\ overtaken' = overtaken \ {p}
  /\ UNCHANGED <<campaign, copies, sub, confirmed, audience, notices, bounds, crossed>>

\* ... a statement fails, or it dies.
Crash(p) ==
  /\ ~Idle(p) /\ crashes < MaxCrashes /\ crashes' = crashes + 1
  /\ Done(p)
  /\ overtaken' = overtaken \ {p}
  /\ UNCHANGED <<campaign, copies, sub, confirmed, audience, notices, retries, moves, crossed>>

-----------------------------------------------------------------------------
(* What happens meanwhile *)

\* The worker's claim leaves the copies of a paused campaign.
Claim(s) ==
  /\ copy[s] = "PENDING" /\ status # "PAUSED"
  /\ copy' = [copy EXCEPT ![s] = "SENDING"]
  /\ UNCHANGED <<campaign, text, sub, process, confirmed, audience, notices, bounds, crossing>>

\* deliver: sent, given up or due for another attempt; dropped when the
\* subscriber is no longer active.
Deliver(s) ==
  /\ copy[s] = "SENDING"
  /\ \E o \in IF s \in Active THEN {"SENT", "FAILED", "PENDING"} ELSE {"CANCELLED"} :
       copy' = [copy EXCEPT ![s] = o]
  /\ UNCHANGED <<campaign, text, sub, process, confirmed, audience, notices, bounds, crossing>>

DateComes ==
  /\ status = "SCHEDULED" /\ ~due /\ due' = TRUE
  /\ UNCHANGED <<status, content, counted, copies, sub, process, confirmed,
                 audience, notices, bounds, crossing>>

Move(s, now) ==
  /\ moves < MaxMoves /\ moves' = moves + 1
  /\ sub' = [sub EXCEPT ![s] = now]
  /\ UNCHANGED <<campaign, text, process, confirmed, notices, retries, crashes, crossing>>

Join(s) ==
  /\ sub[s] = "left" /\ Move(s, "ACTIVE")
  /\ reached' = IF begun THEN reached \cup {s} ELSE {}
  /\ UNCHANGED <<copy, begun, steady, departures>>

\* leave cancels the copy that waits, erase deletes the row.
Depart(s, now) ==
  /\ Move(s, now)
  /\ steady' = steady \ {s}
  /\ departures' = (departures \/ (begun /\ sub[s] = "ACTIVE"))
  /\ UNCHANGED <<begun, reached>>

Leave(s) ==
  /\ sub[s] = "ACTIVE" /\ Depart(s, "left")
  /\ copy' = [copy EXCEPT ![s] = CopyAfterCancel(s)]

Erase(s) ==
  /\ sub[s] # "gone" /\ Depart(s, "gone")
  /\ UNCHANGED copy

-----------------------------------------------------------------------------
Office(a) ==
  \/ UpdateRead(a) \/ UpdateWrite(a) \/ RemoveRead(a) \/ RemoveWrite(a)
  \/ ScheduleRead(a) \/ ScheduleLater(a) \/ ScheduleNow(a)
  \/ RecallRead(a) \/ RecallWrite(a) \/ CancelRead(a) \/ CancelWrite(a)
  \/ Pause(a) \/ Resume(a)
  \/ \E s \in Subscriber : Retry(a, s) \/ Withdraw(a, s)

Sending(p) ==
  \/ Start(p) \/ StartLost(p) \/ Restart(p) \/ LoadContent(p)
  \/ ReadChunk(p) \/ WriteChunk(p) \/ SetCount(p)

Tick(k) ==
  \/ StartDue(k) \/ ResumeEnqueue(k) \/ FindSending(k) \/ Tally(k) \/ Close(k)

Next ==
  \/ \E a \in Admin : Office(a)
  \/ \E k \in Scheduler : Tick(k)
  \/ \E p \in Process : Sending(p) \/ GiveUp(p) \/ Crash(p)
  \/ DateComes
  \/ \E s \in Subscriber : Claim(s) \/ Deliver(s) \/ Join(s) \/ Leave(s) \/ Erase(s)

Spec == Init /\ [][Next]_vars

\* The timers of the schedulers and of the email worker go on, and a process
\* that has begun goes on until it ends or crashes.  Nothing is asked of
\* administrators or visitors, nor that the date or a subscriber come.
Settles(s) == Deliver(s) /\ copy'[s] # "PENDING"
FairSpec ==
  /\ Spec
  /\ \A k \in Scheduler : WF_vars(Tick(k) \/ Sending(k) \/ GiveUp(k))
  /\ \A s \in Subscriber : WF_vars(Claim(s)) /\ SF_vars(Settles(s))

-----------------------------------------------------------------------------
(* Properties, however requests, ticks, workers and visitors overlap *)

TypeOK ==
  /\ status \in Status /\ due \in BOOLEAN /\ counted \in BOOLEAN
  /\ content \in Nat
  /\ copy \in [Subscriber -> CopyStatus] /\ text \in [Subscriber -> Nat]
  /\ sub \in [Subscriber -> {"ACTIVE", "left", "gone"}]
  /\ pc \in [Process -> PC] /\ loaded \in [Process -> Nat]
  /\ cursor \in [Process -> 0..N] /\ batch \in [Process -> SUBSET Subscriber]
  /\ confirmed \in Nat /\ begun \in BOOLEAN /\ departures \in BOOLEAN
  /\ steady \subseteq Subscriber /\ reached \subseteq Subscriber
  /\ notices \in 0..2 /\ retries \in Nat /\ crashes \in Nat /\ moves \in Nat

\* "recipientCount is set last, and is what says the enqueue finished": whoever
\* was on the list from the start then has a copy, whatever crashed and was
\* resumed on the way, as long as nobody left the list in between (enqueue).
EnqueueComplete == counted /\ ~departures => steady \subseteq Queued

\* "ACTIVE, always and before anything else": a copy is only made for somebody
\* who was on the list at some time since the campaign started (audienceWhere).
AudienceRespected == Queued \subseteq reached

\* What makes EnqueueComplete inductive.  Nothing is queued before the campaign
\* has begun; nobody is steady who is not active; ...
BegunOK ==
  /\ status \in {"SENDING", "PAUSED"} \/ counted => begun
  /\ ~begun => steady = {} /\ reached = {}
  /\ begun => Active \subseteq reached
  /\ steady \subseteq Active

\* ... an enqueue has its memory to itself, ...
MemoryOK ==
  \A p \in Process :
    /\ pc[p] \in {"load", "read", "write", "count"} => begun
    /\ pc[p] \notin {"read", "write", "count"} => cursor[p] = 0
    /\ pc[p] # "write" => batch[p] = {}
    /\ pc[p] = "write" => batch[p] # {} /\ batch[p] \subseteq reached

\* ... and what is below its cursor is queued, as long as nobody has left.
Progress(p) ==
  /\ pc[p] \in {"read", "write"} =>
       /\ cursor[p] # 0 => cursor[p] \in Active
       /\ \A s \in steady : s <= cursor[p] => s \in Queued
  /\ pc[p] = "write" =>
       /\ batch[p] \subseteq Active
       /\ \A b \in batch[p], s \in steady : s <= b => s \in Queued \cup batch[p]
  /\ pc[p] = "count" => steady \subseteq Queued

IInv == /\ TypeOK /\ BegunOK /\ MemoryOK /\ AudienceRespected /\ EnqueueComplete
        /\ ~departures => \A p \in Process : Progress(p)

\* "only the missing rows are added": a copy that has left the queue returns to
\* it by an administrator's retry only (enqueue, skipDuplicates).
OnlyMissingAdded ==
  [][\A s \in Subscriber :
       copy[s] \in {"SENT", "FAILED", "CANCELLED"} /\ copy'[s] = "PENDING"
         => \E a \in Admin : Retry(a, s)]_vars

\* A campaign does not stay in SENDING for ever: an interrupted enqueue is
\* resumed and a finished one is closed (resumeEnqueues, completeFinished).
SendingEnds == []<>(status # "SENDING")

-----------------------------------------------------------------------------
(* What overlapping requests and ticks break, and only they *)

\* The process that takes the step, from one of the places of l, is one whose
\* reading somebody else's write had made untrue.
Crossing(l) == \E p \in overtaken : pc[p] \in l /\ pc'[p] # pc[p]

\* What start has claimed is never a draft or a date again (schedule, cancel), ...
StartedStays ==
  [][status \notin Before /\ status' \in Before => Crossing({"schedule", "recall"})]_vars

\* ... "Cette campagne ne peut plus être annulée.": what is over stays as it
\* ended, ...
OverStays ==
  [][status' # status /\ status \in Over =>
       Crossing({"remove", "schedule", "recall", "cancel"})]_vars

\* ... a cancelled campaign makes no more copies (cancel, enqueue), ...
CancelledMakesNone ==
  [][status = "CANCELLED" /\ Queued' # Queued => Crossing({"write"})]_vars

\* ... and "campaigns with nothing left waiting become SENT" (completeFinished).
SentWhenDrained ==
  [][status # "SENT" /\ status' = "SENT" /\ Waiting # {} => Crossing({"close"})]_vars

\* All four: a campaign goes one way, and stops where it says it stopped, except
\* by a process that was overtaken between what it read and what it writes.
Lifecycle == StartedStays /\ OverStays /\ CancelledMakesNone /\ SentWhenDrained

\* A campaign that has copies is kept (remove): until an edit, a removal, a date
\* or a start that was overtaken is written, whatever else overlaps.
RecordKept == ~crossed /\ status = "absent" => Queued = {}

\* "what was confirmed is what is sent": a copy is rendered from the content
\* that was confirmed (schedule, update, enqueue), until the same.
ConfirmedIsSent == ~crossed => \A s \in Queued : text[s] = confirmed

\* The team is told once, however many schedulers see the campaign finished
\* (completeFinished), until the same.
ToldOnce == ~crossed => notices <= 1

\* What a process that nobody has overtaken has read is still so, ...
ReadOK(p) ==
  /\ pc[p] \in {"update", "remove", "schedule"} => status = "DRAFT"
  /\ pc[p] = "schedule" => loaded[p] = content
  /\ pc[p] = "recall" => status = "SCHEDULED"
  /\ pc[p] = "cancel" => status \in {"SENDING", "PAUSED"}
  /\ pc[p] \in {"load", "read", "write", "count"} => status \in {"SENDING", "PAUSED"}
  /\ pc[p] = "close" => Waiting = {}
  /\ pc[p] = "start" /\ ~crossed => confirmed = content

MarksOK == /\ crossed \in BOOLEAN
           /\ overtaken \subseteq {p \in Process : ~Idle(p)}
           /\ \A p \in Process :
                /\ pc[p] \in {"update", "remove", "schedule", "recall", "cancel"} => p \in Admin
                /\ pc[p] = "cancel" => begun

ReadsCurrent == \A p \in Process \ overtaken : ReadOK(p)

\* ... and until one of the others writes, before the start there are no copies,
\* from the confirmation on the content stays, and the team is told at the end.
RowOK ==
  ~crossed =>
    /\ status \in Before \cup {"absent"} => ~begun
    /\ status \notin {"DRAFT", "absent"} => confirmed = content
    /\ \A s \in Queued : text[s] = content
    /\ \A p \in Process : pc[p] \in {"read", "write", "count"} => loaded[p] = content
    /\ notices # 0 => notices = 1 /\ status \in Over

\* The inductive invariant of what a process relies on.
CurrentInv == IInv /\ MarksOK /\ ReadsCurrent /\ RowOK

-----------------------------------------------------------------------------
(* What the code's comments say, and overlapping requests refute. *)

\* EnqueueComplete, whoever leaves the list in between.
EveryRecipientQueued == counted => steady \subseteq Queued

\* The properties above, whatever overlaps.
RecordStays       == status = "absent" => Queued = {}
NotRecalled       == [][status' \in Before => status \in Before]_vars
EndsOnce          == [][status' # status => status \notin Over]_vars
SentAsConfirmed   == \A s \in Queued : text[s] = confirmed
CancelStops       == [][status = "CANCELLED" => Queued' = Queued]_vars
ClosedWhenDrained == [][status # "SENT" /\ status' = "SENT" => Waiting = {}]_vars

\* "its waiting copies with it": a cancelled campaign has no copy in the queue.
NoneLeftWaiting == status = "CANCELLED" /\ retries = 0 =>
                     \A s \in Subscriber : copy[s] # "PENDING"
=============================================================================
