----------------------------- MODULE Newsletter -----------------------------
(***************************************************************************)
(* The newsletter's list: double opt-in, departure, erasure and import     *)
(* (backend/src/newsletter/newsletter.service.ts, tokens.ts).              *)
(*                                                                         *)
(* Each request reads the row of an address, awaits, and then writes it by *)
(* its id, without asking again what it has become.  A request is          *)
(* therefore two or three actions here, and the requests in flight are     *)
(* part of the state.                                                      *)
(*                                                                         *)
(* A definition whose name starts with M_ is a mutated form of the one     *)
(* below it, used only to show that a property fails of that bug.          *)
(***************************************************************************)
EXTENDS Naturals, FiniteSets

CONSTANTS
  Address,    \* email addresses
  Request,    \* HTTP requests that can be in flight at once
  NoAddress,  \* "no request here"
  MaxRows,    \* bound: rows ever created
  MaxTokens   \* bound: confirmation tokens ever drawn

ASSUME AddressAssumption == NoAddress \notin Address
ASSUME BoundsAssumption == MaxRows \in Nat /\ MaxTokens \in Nat

VARIABLES
  \* NewsletterSubscriber, one row per address at most.
  status,     \* its status, "absent" when there is no row
  id,         \* its id, 0 when there is no row
  hash,       \* the token behind confirmTokenHash, 0 for null
  recent,     \* rows whose confirmSentAt is less than RESEND_INTERVAL_MS ago
  rows,       \* ids given so far
  tokens,     \* tokens drawn so far
  expired,    \* tokens past CONFIRM_TTL_MS
  mailed,     \* tokens sent in a confirmation email
  history,    \* EmailMessage rows addressed to the address
  notices,    \* emails to the team whose body names the address
  \* The requests.
  step,       \* what a request will do next
  target,     \* the address it is about
  rowRead,    \* the id it has read, 0 when it found no row
  drawn,      \* the token it has drawn or was given
  \* History variables.
  consented,  \* ids somebody confirmed by a valid link, or an import attested
  confirms,   \* confirmations each token has brought about
  erased,     \* addresses erased, and not asked for since
  burst,      \* confirmation emails to an address within one interval
  overtaken,  \* requests whose row somebody else has written since they read it
  late        \* addresses one of them wrote about since they were last erased

table   == <<status, id, hash, recent, rows>>
request == <<step, target, rowRead, drawn>>
ghost   == <<consented, confirms, erased, burst>>
crossed == <<overtaken, late>>
vars    == <<table, tokens, expired, mailed, history, notices, request, ghost, crossed>>

Status == {"absent", "PENDING", "ACTIVE", "UNSUBSCRIBED"}
Step   == {"none", "subscribe", "mail", "confirm", "welcome", "leave", "erase"}
Token  == 1..MaxTokens

-----------------------------------------------------------------------------
(* State functions *)

\* The row a request has read is still there.
Found(r) == rowRead[r] # 0 /\ id[target[r]] = rowRead[r]

\* subscribe returns at once: nothing to confirm, or confirmed a moment ago.
M_ForgetsActive(a) == status[a] = "PENDING" /\ a \in recent
AnsweredAlready(a) ==
  status[a] = "ACTIVE" \/ (status[a] = "PENDING" /\ a \in recent)

\* The status a new request gives a row, and what confirm and leave leave of
\* the token's hash, and erase of the address in the history.
M_TrustsFormerSubscriber(a) ==
  IF status[a] = "UNSUBSCRIBED" THEN "ACTIVE" ELSE "PENDING"
StatusOnRequest(a) == "PENDING"

M_LinkStaysValid(a) == hash[a]
HashAfterConfirm(a) == 0

M_LeaveKeepsLink(a) == hash[a]
HashAfterLeave(a) == 0

M_HistoryKept(a) == history[a]
HistoryAfterErase(a) == 0

Idle(r) == step[r] = "none"

Begin(r, s, a, i, t) ==
  /\ step' = [step EXCEPT ![r] = s]
  /\ target' = [target EXCEPT ![r] = a]
  /\ rowRead' = [rowRead EXCEPT ![r] = i]
  /\ drawn' = [drawn EXCEPT ![r] = t]

Continue(r, s) ==
  /\ step' = [step EXCEPT ![r] = s]
  /\ UNCHANGED <<target, rowRead, drawn>>

End(r) == Begin(r, "none", NoAddress, 0, 0)

\* The requests in flight about an address; and what r, if it is one whose
\* reading was overtaken, leaves late.
About(a) == {q \in Request : ~Idle(q) /\ target[q] = a}
LateBy(r) == IF r \in overtaken THEN late \cup {target[r]} ELSE late

-----------------------------------------------------------------------------
Init ==
  /\ status = [a \in Address |-> "absent"]
  /\ id = [a \in Address |-> 0]
  /\ hash = [a \in Address |-> 0]
  /\ recent = {} /\ rows = 0 /\ tokens = 0 /\ expired = {} /\ mailed = {}
  /\ history = [a \in Address |-> 0] /\ notices = [a \in Address |-> 0]
  /\ step = [r \in Request |-> "none"]
  /\ target = [r \in Request |-> NoAddress]
  /\ rowRead = [r \in Request |-> 0]
  /\ drawn = [r \in Request |-> 0]
  /\ consented = {} /\ erased = {}
  /\ confirms = [t \in Token |-> 0]
  /\ burst = [a \in Address |-> 0]
  /\ overtaken = {} /\ late = {}

\* subscribe: the row is read, and a token drawn unless the request has been
\* answered already (a bot, an implausible address and an unavailable
\* newsletter change nothing either).
SubscribeRead(r, a) ==
  /\ Idle(r) /\ ~AnsweredAlready(a)
  /\ tokens < MaxTokens /\ tokens' = tokens + 1
  /\ Begin(r, "subscribe", a, id[a], tokens + 1)
  /\ erased' = erased \ {a}
  /\ UNCHANGED <<table, expired, mailed, history, notices, consented, confirms, burst, crossed>>

\* The row that was read is updated by its id, back to PENDING.
SubscribeUpdate(r) ==
  LET a == target[r] IN
  /\ step[r] = "subscribe" /\ Found(r)
  /\ status' = [status EXCEPT ![a] = StatusOnRequest(a)]
  /\ hash' = [hash EXCEPT ![a] = drawn[r]]
  /\ recent' = recent \cup {a}
  /\ Continue(r, "mail")
  /\ overtaken' = overtaken \cup (About(a) \ {r})
  /\ UNCHANGED <<id, rows, tokens, expired, mailed, history, notices, ghost, late>>

\* No row was read and there is none: it is created.
SubscribeCreate(r) ==
  LET a == target[r] IN
  /\ step[r] = "subscribe" /\ rowRead[r] = 0 /\ id[a] = 0
  /\ rows < MaxRows /\ rows' = rows + 1
  /\ status' = [status EXCEPT ![a] = "PENDING"]
  /\ id' = [id EXCEPT ![a] = rows + 1]
  /\ hash' = [hash EXCEPT ![a] = drawn[r]]
  /\ recent' = recent \cup {a}
  /\ Continue(r, "mail")
  /\ overtaken' = overtaken \cup (About(a) \ {r})
  /\ late' = LateBy(r)
  /\ UNCHANGED <<tokens, expired, mailed, history, notices, ghost>>

\* The row read is gone (the update throws), or another request has created
\* it (P2002, answered as a resend): nothing is written.
SubscribeTooLate(r) ==
  /\ step[r] = "subscribe" /\ id[target[r]] # rowRead[r]
  /\ End(r)
  /\ overtaken' = overtaken \ {r}
  /\ UNCHANGED <<table, tokens, expired, mailed, history, notices, ghost, late>>

\* sendConfirmation: the link is queued for the address.
SubscribeMail(r) ==
  LET a == target[r] IN
  /\ step[r] = "mail"
  /\ mailed' = mailed \cup {drawn[r]}
  /\ history' = [history EXCEPT ![a] = @ + 1]
  /\ burst' = [burst EXCEPT ![a] = @ + 1]
  /\ End(r)
  /\ overtaken' = overtaken \ {r}
  /\ late' = LateBy(r)
  /\ UNCHANGED <<table, tokens, expired, notices, consented, confirms, erased>>

-----------------------------------------------------------------------------
\* confirm: the link's token is looked up; unknown or expired, it stops there.
ConfirmRead(r, a, t) ==
  /\ Idle(r)
  /\ t \in mailed /\ hash[a] = t /\ t \notin expired
  /\ Begin(r, "confirm", a, id[a], t)
  /\ consented' = consented \cup {id[a]}
  /\ UNCHANGED <<table, tokens, expired, mailed, history, notices, confirms, erased, burst, crossed>>

\* The row that was read becomes ACTIVE and its hash is cleared.
ConfirmWrite(r) ==
  LET a == target[r] IN
  /\ step[r] = "confirm" /\ Found(r)
  /\ status' = [status EXCEPT ![a] = "ACTIVE"]
  /\ hash' = [hash EXCEPT ![a] = HashAfterConfirm(a)]
  /\ confirms' = [confirms EXCEPT ![drawn[r]] = @ + 1]
  /\ Continue(r, "welcome")
  /\ overtaken' = overtaken \cup (About(a) \ {r})
  /\ UNCHANGED <<id, recent, rows, tokens, expired, mailed, history, notices, consented,
                 erased, burst, late>>

\* welcome and notifyTeam, each when its template is active: one more email to
\* the address, one to the team that names it.
Welcome(r) ==
  /\ step[r] = "welcome"
  /\ \E w, n \in 0..1 :
       /\ history' = [history EXCEPT ![target[r]] = @ + w]
       /\ notices' = [notices EXCEPT ![target[r]] = @ + n]
  /\ End(r)
  /\ overtaken' = overtaken \ {r}
  /\ late' = LateBy(r)
  /\ UNCHANGED <<table, tokens, expired, mailed, ghost>>

-----------------------------------------------------------------------------
\* unsubscribe and adminUnsubscribe: nothing to do without a row to leave.
LeaveRead(r, a) ==
  /\ Idle(r) /\ status[a] \in {"PENDING", "ACTIVE"}
  /\ Begin(r, "leave", a, id[a], 0)
  /\ UNCHANGED <<table, tokens, expired, mailed, history, notices, ghost, crossed>>

\* leave's transaction (the copies that wait for the address are EmailQueue's).
LeaveWrite(r) ==
  LET a == target[r] IN
  /\ step[r] = "leave" /\ Found(r)
  /\ status' = [status EXCEPT ![a] = "UNSUBSCRIBED"]
  /\ hash' = [hash EXCEPT ![a] = HashAfterLeave(a)]
  /\ End(r)
  /\ overtaken' = (overtaken \cup About(a)) \ {r}
  /\ UNCHANGED <<id, recent, rows, tokens, expired, mailed, history, notices, ghost, late>>

EraseRead(r, a) ==
  /\ Idle(r) /\ status[a] # "absent"
  /\ Begin(r, "erase", a, id[a], 0)
  /\ UNCHANGED <<table, tokens, expired, mailed, history, notices, ghost, crossed>>

\* erase's transaction: the history forgets the address, the row is deleted.
EraseWrite(r) ==
  LET a == target[r] IN
  /\ step[r] = "erase" /\ Found(r)
  /\ history' = [history EXCEPT ![a] = HistoryAfterErase(a)]
  /\ status' = [status EXCEPT ![a] = "absent"]
  /\ id' = [id EXCEPT ![a] = 0]
  /\ hash' = [hash EXCEPT ![a] = 0]
  /\ recent' = recent \ {a}
  /\ erased' = erased \cup {a}
  /\ End(r)
  /\ overtaken' = (overtaken \cup About(a)) \ {r}
  /\ late' = late \ {a}
  /\ UNCHANGED <<rows, tokens, expired, mailed, notices, consented, confirms, burst>>

\* import creates the addresses that have no row when it writes
\* (skipDuplicates), as ACTIVE, and leaves the others alone.
Import(a) ==
  /\ status[a] = "absent"
  /\ rows < MaxRows /\ rows' = rows + 1
  /\ status' = [status EXCEPT ![a] = "ACTIVE"]
  /\ id' = [id EXCEPT ![a] = rows + 1]
  /\ consented' = consented \cup {rows + 1}
  /\ erased' = erased \ {a}
  /\ overtaken' = overtaken \cup About(a)
  /\ UNCHANGED <<hash, recent, tokens, expired, mailed, history, notices, request,
                 confirms, burst, late>>

\* A request ends where it stands: its update finds no row and throws, an
\* email template is off or cannot be rendered, or its process dies.
Abort(r) ==
  /\ ~Idle(r)
  /\ End(r)
  /\ overtaken' = overtaken \ {r}
  /\ UNCHANGED <<table, tokens, expired, mailed, history, notices, ghost, late>>

\* Ten minutes in which no confirmation email was on its way to the address.
IntervalElapses(a) ==
  /\ \A r \in Request : step[r] = "mail" => target[r] # a
  /\ a \in recent \/ burst[a] > 0
  /\ recent' = recent \ {a}
  /\ burst' = [burst EXCEPT ![a] = 0]
  /\ UNCHANGED <<status, id, hash, rows, tokens, expired, mailed, history, notices,
                 request, consented, confirms, erased, crossed>>

\* Forty-eight hours.
TokenExpires(t) ==
  /\ t \in 1..tokens \ expired
  /\ expired' = expired \cup {t}
  /\ UNCHANGED <<table, tokens, mailed, history, notices, request, ghost, crossed>>

-----------------------------------------------------------------------------
Serve(r) ==
  \/ \E a \in Address :
       \/ SubscribeRead(r, a) \/ LeaveRead(r, a) \/ EraseRead(r, a)
       \/ \E t \in Token : ConfirmRead(r, a, t)
  \/ SubscribeUpdate(r) \/ SubscribeCreate(r) \/ SubscribeTooLate(r)
  \/ SubscribeMail(r) \/ ConfirmWrite(r) \/ Welcome(r)
  \/ LeaveWrite(r) \/ EraseWrite(r) \/ Abort(r)

Next ==
  \/ \E r \in Request : Serve(r)
  \/ \E a \in Address : Import(a) \/ IntervalElapses(a)
  \/ \E t \in Token : TokenExpires(t)

Spec == Init /\ [][Next]_vars

-----------------------------------------------------------------------------
(* Properties *)

TableType ==
  /\ status \in [Address -> Status] /\ id \in [Address -> Nat]
  /\ hash \in [Address -> 0..MaxTokens] /\ recent \subseteq Address
  /\ rows \in 0..MaxRows /\ tokens \in 0..MaxTokens
  /\ expired \subseteq Token /\ mailed \subseteq Token

RequestType ==
  /\ step \in [Request -> Step]
  /\ target \in [Request -> Address \cup {NoAddress}]
  /\ rowRead \in [Request -> Nat] /\ drawn \in [Request -> 0..MaxTokens]

RecordType ==
  /\ history \in [Address -> Nat] /\ notices \in [Address -> Nat]
  /\ consented \subseteq Nat /\ confirms \in [Token -> Nat]
  /\ erased \subseteq Address /\ burst \in [Address -> Nat]

CrossedType == overtaken \subseteq Request /\ late \subseteq Address

BaseType == TableType /\ RequestType /\ RecordType
TypeOK   == BaseType /\ CrossedType

\* A confirmation link works exactly while its row is PENDING: whatever
\* requests overlap, no link survives a confirmation or a departure, and no
\* pending row is without one (subscribe, confirm, leave).
LinkOnlyWhilePending ==
  \A a \in Address : hash[a] # 0 <=> status[a] = "PENDING"

\* Nobody receives the newsletter whose address did not confirm by a link sent
\* to it, or was not attested by an import: a row of the same address that was
\* erased since does not count (the schema's comment on ACTIVE).
ActiveConsented ==
  \A a \in Address : status[a] = "ACTIVE" => id[a] \in consented

\* What the next request may rely on: ids are given once, a row has a status,
\* and a request in flight holds a token and a row it was entitled to.
RowsOK ==
  \A a \in Address : /\ id[a] \in 0..rows /\ hash[a] \in 0..tokens
                     /\ id[a] = 0 <=> status[a] = "absent"

RequestsOK ==
  \A r \in Request :
    /\ ~Idle(r) => target[r] \in Address
    /\ rowRead[r] \in 0..rows
    /\ step[r] \in {"subscribe", "mail", "confirm"} => drawn[r] \in 1..tokens
    /\ step[r] = "confirm" => rowRead[r] \in consented

\* The inductive invariant, for any number of requests at once.
IInv == /\ TypeOK /\ RowsOK /\ RequestsOK
        /\ LinkOnlyWhilePending /\ ActiveConsented

-----------------------------------------------------------------------------
(* What overlapping requests break, and only they. *)

\* The request that takes the step, whose row was written since it read it.
WroteOver(s, a) == \E r \in overtaken : step[r] = s /\ target[r] = a /\ step'[r] # s

\* Who left comes back only through a new request, and who is active is never
\* put back to pending, unless the request that writes had read the row before
\* somebody else wrote it: a row that is read and written with nothing between
\* follows the order of the list (subscribe, confirm, leave, import).
StatusOrder ==
  [][\A a \in Address :
       /\ status[a] = "UNSUBSCRIBED" /\ status'[a] = "ACTIVE" => WroteOver("confirm", a)
       /\ status[a] = "ACTIVE" /\ status'[a] = "PENDING" => WroteOver("subscribe", a)]_vars

\* confirm: "Single use: the hash is cleared the moment it confirms": a link
\* that has confirmed confirms again only in a request that had read the row
\* before that, and was overtaken.
SingleUse ==
  [][\A t \in Token :
       confirms[t] > 0 /\ confirms'[t] > confirms[t] =>
         \E r \in overtaken : step[r] = "confirm" /\ drawn[r] = t /\ step'[r] # "confirm"]_vars

\* erase: "their address is scrubbed from the send history too": no email row
\* is addressed to it any more, until somebody asks for it again or a request
\* that the erasure overtook goes on.
ErasedForgotten == \A a \in erased \ late : history[a] = 0

\* What a request has read is still so when it writes, if nobody overtook it.
ReadsCurrent ==
  \A r \in Request \ overtaken :
    /\ step[r] = "confirm" =>
         status[target[r]] = "PENDING" /\ hash[target[r]] = drawn[r]
    /\ step[r] = "subscribe" /\ Found(r) => status[target[r]] # "ACTIVE"
    /\ step[r] \in {"subscribe", "mail", "welcome"} => target[r] \notin erased \ late

\* A token is behind one row at most, until it has been used; it is nobody
\* else's before it is written, and a link is mailed after that.
Unused    == \A a \in Address : hash[a] # 0 => confirms[hash[a]] = 0
SingleRow == \A a, b \in Address : hash[a] = hash[b] /\ hash[a] # 0 => a = b
Undrawn   == /\ mailed \subseteq 1..tokens
             /\ \A t \in Token : t > tokens => confirms[t] = 0

Fresh == \A r \in Request : step[r] = "subscribe" =>
           /\ drawn[r] \notin mailed /\ confirms[drawn[r]] = 0
           /\ \A a \in Address : hash[a] # drawn[r]
           /\ \A q \in Request :
                q # r /\ step[q] \in {"subscribe", "mail"} => drawn[q] # drawn[r]

Followed == \A r \in Request : step[r] = "confirm" =>
              /\ drawn[r] \in mailed
              /\ \A a \in Address : hash[a] = drawn[r] => a = target[r]

TokensOK == Unused /\ SingleRow /\ Undrawn /\ Fresh /\ Followed

\* An erased address has no row.
ErasedAbsent == \A a \in erased \ late : status[a] = "absent"

\* The inductive invariant of what a request relies on.
CurrentInv == IInv /\ ReadsCurrent /\ TokensOK /\ ErasedAbsent /\ ErasedForgotten

-----------------------------------------------------------------------------
(* What the code's comments say, and overlapping requests refute. *)

\* "Nothing ever moves an UNSUBSCRIBED address straight back to ACTIVE."
NoDirectReturn ==
  [][\A a \in Address : status[a] = "UNSUBSCRIBED" => status'[a] # "ACTIVE"]_vars

\* subscribe: "Already confirmed: nothing to do, and nothing to send."
ActiveNotDemoted ==
  [][\A a \in Address : status[a] = "ACTIVE" => status'[a] # "PENDING"]_vars

\* SingleUse and ErasedForgotten, whatever overlaps.
UsedOnce   == \A t \in Token : confirms[t] <= 1
ErasedGone == \A a \in erased : history[a] = 0

\* The erasure, of the emails to the team whose body names the new subscriber.
ErasedUnnamed == \A a \in erased : notices[a] = 0

\* "A confirmation email is sent at most this often to one address."
ResendLimited == \A a \in Address : burst[a] <= 1
=============================================================================
