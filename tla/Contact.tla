------------------------------- MODULE Contact -------------------------------
(***************************************************************************)
(* Contact requests: the form (frontend ContactPage), what the API stores  *)
(* (backend/src/contact/contact.service.ts), the two emails each request   *)
(* queues (email/contact-mail.service.ts) and the inbox of the team        *)
(* (MessagesAdmin).                                                        *)
(*                                                                         *)
(* A request is stored first.  Its acknowledgement and the team's notice   *)
(* are then two jobs side by side, each of which may find a reason not to  *)
(* be queued, or fail, without the other.  A visitor whose answer is lost  *)
(* sends the form again, and that is another request.                      *)
(*                                                                         *)
(* A definition whose name starts with M_ is a mutated form of the one     *)
(* below it, used only to show that a property fails of that bug.          *)
(***************************************************************************)
EXTENDS Naturals

CONSTANTS
  Visitor,   \* visitors, each with one thing to say
  MaxPosts,  \* bound: times one sends it
  Clerk,     \* people of the team, each with one request at a time
  NoRequest, \* "no request"
  MaxToggles \* bound: changes of the templates and of the settings

ASSUME PostsAssumption == MaxPosts \in Nat \ {0} /\ MaxToggles \in Nat
ASSUME RequestAssumption == NoRequest \notin Visitor \X (1..MaxPosts)

VARIABLES
  page,      \* the form of a visitor
  posts,     \* times it was sent
  stored,    \* requests in the database
  isRead,    \* those marked read
  outbox,    \* emails queued, by request and kind
  work,      \* what each of the two jobs of a request does next
  ready,     \* what the administration has set up
  toggles,   \* times it changed that
  asking,    \* the request a clerk's call has found
  wish,      \* and what is to become of it
  \* History variables.
  answered,  \* requests whose answer left
  excused,   \* emails whose own job found a reason not to queue them
  removed    \* requests that were deleted

visits      == <<page, posts>>
mail        == <<outbox, work, excused>>
inbox       == <<asking, wish>>
setup      == <<ready, toggles>>
contactVars == <<visits, stored, isRead, mail, setup, inbox, answered, removed>>

Mail    == {"contact_ack", "contact_notify"}
Request == Visitor \X (1..MaxPosts)
Wish    == {"none", "read", "unread", "delete"}

\* What the administration sets up: the two templates, the team's inbox and a
\* sender.  A job asks for its part first, and the queue for the sender.
Switch   == Mail \cup {"inbox", "sender"}
Needs(k) == IF k = "contact_notify" THEN {"inbox", k} ELSE {k}

-----------------------------------------------------------------------------
(* State functions *)

Resting == [k \in Mail |-> "none"]

\* The jobs of a request once one of them is over (Promise.allSettled).
M_FirstFailureEnds(m, k, failed) ==
  IF failed THEN [h \in Mail |-> "over"] ELSE [work[m] EXCEPT ![k] = "over"]
JobsAfter(m, k, failed) == [work[m] EXCEPT ![k] = "over"]

\* Requests in the database once one has arrived.
M_StoresLater(m) == stored
StoredOnArrival(m) == stored \cup {m}

\* And once one that a clerk's call found is marked.
M_Upserts(m) == stored \cup {m}
StoredOnMark(m) == stored

JobOver(m, k, failed, why) ==
  /\ work' = [work EXCEPT ![m] = JobsAfter(m, k, failed)]
  /\ excused' = excused \cup why

-----------------------------------------------------------------------------
ContactInit ==
  /\ page = [v \in Visitor |-> "editing"]
  /\ posts = [v \in Visitor |-> 0]
  /\ stored = {} /\ isRead = {} /\ outbox = {}
  /\ work = [m \in Request |-> Resting]
  /\ ready \in {{}, Switch} /\ toggles = 0
  /\ asking = [c \in Clerk |-> NoRequest] /\ wish = [c \in Clerk |-> "none"]
  /\ answered = {} /\ excused = {} /\ removed = {}

\* The form is sent, or sent again after a failure; while it waits it cannot
\* be sent twice.
Post(v) ==
  /\ page[v] \in {"editing", "failed"} /\ posts[v] < MaxPosts
  /\ page' = [page EXCEPT ![v] = "pending"]
  /\ posts' = [posts EXCEPT ![v] = @ + 1]
  /\ UNCHANGED <<stored, isRead, mail, setup, inbox, answered, removed>>

\* The visitor waits no longer, whether the request arrived or not.
GiveUp(v) ==
  /\ page[v] = "pending" /\ page' = [page EXCEPT ![v] = "failed"]
  /\ UNCHANGED <<posts, stored, isRead, mail, setup, inbox, answered, removed>>

\* create: the request is stored, under an id of its own.
Store(m) ==
  /\ posts[m[1]] >= m[2] /\ m \notin stored \cup removed \cup answered
  /\ work[m] = Resting
  /\ stored' = StoredOnArrival(m)
  /\ work' = [work EXCEPT ![m] = [k \in Mail |-> "check"]]
  /\ UNCHANGED <<visits, isRead, outbox, excused, setup, inbox, answered, removed>>

\* acknowledge and notifyTeam: nothing to do without what they need.
Check(m, k) ==
  /\ work[m][k] = "check"
  /\ IF Needs(k) \subseteq ready
     THEN work' = [work EXCEPT ![m][k] = "enqueue"] /\ UNCHANGED excused
     ELSE JobOver(m, k, FALSE, {<<m, k>>})
  /\ UNCHANGED <<visits, stored, isRead, outbox, setup, inbox, answered, removed>>

\* A template that does not render, a site without an address.
JobFails(m, k) ==
  /\ work[m][k] \in {"check", "enqueue"}
  /\ JobOver(m, k, TRUE, {<<m, k>>})
  /\ UNCHANGED <<visits, stored, isRead, outbox, setup, inbox, answered, removed>>

\* enqueue, which needs a sender.
QueueMail(m, k) ==
  /\ work[m][k] = "enqueue"
  /\ IF "sender" \in ready
     THEN outbox' = outbox \cup {<<m, k>>} /\ JobOver(m, k, FALSE, {})
     ELSE JobOver(m, k, FALSE, {<<m, k>>}) /\ UNCHANGED outbox
  /\ UNCHANGED <<visits, stored, isRead, setup, inbox, answered, removed>>

\* Both jobs are over: the answer leaves, and reaches a page that still waits
\* for it.
Answer(m) ==
  /\ \A k \in Mail : work[m][k] = "over"
  /\ work' = [work EXCEPT ![m] = Resting]
  /\ answered' = answered \cup {m}
  /\ IF page[m[1]] = "pending" /\ posts[m[1]] = m[2]
     THEN page' = [page EXCEPT ![m[1]] = "sent"] ELSE UNCHANGED page
  /\ UNCHANGED <<posts, stored, isRead, outbox, excused, setup, inbox, removed>>

\* The process stops; nothing takes the emails of a stored request up again.
Stop(m) ==
  /\ work[m] # Resting /\ m \in stored
  /\ work' = [work EXCEPT ![m] = Resting]
  /\ UNCHANGED <<visits, stored, isRead, outbox, excused, setup, inbox, answered, removed>>

\* setRead and remove find the request first; opening a message that is unread
\* marks it read.
Find(c, m, w) ==
  /\ asking[c] = NoRequest /\ m \in stored
  /\ w = "read" => m \notin isRead
  /\ asking' = [asking EXCEPT ![c] = m] /\ wish' = [wish EXCEPT ![c] = w]
  /\ UNCHANGED <<visits, stored, isRead, mail, setup, answered, removed>>

\* And then change it, which fails when it is gone.
Mark(c) ==
  /\ wish[c] \in {"read", "unread"}
  /\ stored' = StoredOnMark(asking[c])
  /\ isRead' = IF asking[c] \notin stored' THEN isRead
               ELSE IF wish[c] = "read" THEN isRead \cup {asking[c]} ELSE isRead \ {asking[c]}
  /\ asking' = [asking EXCEPT ![c] = NoRequest] /\ wish' = [wish EXCEPT ![c] = "none"]
  /\ UNCHANGED <<visits, mail, setup, answered, removed>>

Delete(c) ==
  /\ wish[c] = "delete"
  /\ stored' = stored \ {asking[c]} /\ isRead' = isRead \ {asking[c]}
  /\ removed' = removed \cup {asking[c]}
  /\ asking' = [asking EXCEPT ![c] = NoRequest] /\ wish' = [wish EXCEPT ![c] = "none"]
  /\ UNCHANGED <<visits, mail, setup, answered>>

\* The administration sets something up, or takes it away.
SetUp(s) ==
  /\ toggles < MaxToggles /\ toggles' = toggles + 1
  /\ ready' = IF s \in ready THEN ready \ {s} ELSE ready \cup {s}
  /\ UNCHANGED <<visits, stored, isRead, mail, inbox, answered, removed>>

ContactNext ==
  \/ \E v \in Visitor : Post(v) \/ GiveUp(v)
  \/ \E m \in Request :
       \/ Store(m) \/ Answer(m) \/ Stop(m)
       \/ \E k \in Mail : Check(m, k) \/ JobFails(m, k) \/ QueueMail(m, k)
  \/ \E c \in Clerk :
       \/ \E m \in Request, w \in Wish \ {"none"} : Find(c, m, w)
       \/ Mark(c) \/ Delete(c)
  \/ \E s \in Switch : SetUp(s)

ContactSpec == ContactInit /\ [][ContactNext]_contactVars

-----------------------------------------------------------------------------
(* Properties *)

ContactTypeOK ==
  /\ page \in [Visitor -> {"editing", "pending", "sent", "failed"}]
  /\ posts \in [Visitor -> 0..MaxPosts]
  /\ stored \subseteq Request /\ isRead \subseteq stored
  /\ outbox \subseteq Request \X Mail
  /\ work \in [Request -> [Mail -> {"none", "check", "enqueue", "over"}]]
  /\ ready \subseteq Switch /\ toggles \in 0..MaxToggles
  /\ asking \in [Clerk -> Request \cup {NoRequest}]
  /\ wish \in [Clerk -> Wish]
  /\ answered \subseteq Request /\ excused \subseteq Request \X Mail
  /\ removed \subseteq Request

\* "A broken notification template must not cost the visitor their
\* acknowledgement, or the other way round": of a request that was answered,
\* each email is queued, or its own job had its own reason.
EachEmailOnItsOwn ==
  \A m \in answered, k \in Mail : <<m, k>> \in outbox \cup excused

\* "An acknowledgement for a message we then failed to store would be a
\* promise nobody can keep": what a visitor was told of, and what an email is
\* about, was stored.
StoredFirst ==
  /\ \A v \in Visitor : page[v] = "sent" =>
       \E m \in stored \cup removed : m[1] = v
  /\ \A e \in outbox : e[1] \in stored \cup removed

\* A request the team deleted stays deleted, whatever call had found it.
DeletedStays == stored \cap removed = {}

\* All three: what the team and the visitor are told of a request is so.
ContactKept == EachEmailOnItsOwn /\ StoredFirst /\ DeletedStays

\* "A retried POST [...] stores nothing new": one acknowledgement for what one
\* visitor had to say.
OneAcknowledgement ==
  \A v \in Visitor : \A m, n \in Request :
    m[1] = v /\ n[1] = v /\ {<<m, "contact_ack">>, <<n, "contact_ack">>} \subseteq outbox
      => m = n
=============================================================================
