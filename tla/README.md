# Formal model of the LDS website CMS

TLA+ modules, TLC configurations and TLAPS proofs for the website and back
office of Louga Développement Solidaire: a NestJS API over PostgreSQL (Prisma)
and MinIO in `src/backend`, a React site and back office in `src/frontend`.

Every definition is translated from the source. `PROJECT.json` names, under
`map`, the lines each definition stands for; under `hazards`, what can go wrong
in the code and which property watches it; under `runs`, what TLC checks; under
`theorems`, what TLAPS proves.

Contents: [the system](#the-system), [the modules](#the-modules),
[the runs](#the-runs), [refuted statements](#refuted-statements),
[what else the model shows](#what-else-the-model-shows),
[proofs](#proofs), [what is not modelled](#what-is-not-modelled),
[plan](#plan).

## The system

One Docker stack: the API (it may run as several containers, each with its own
timers), PostgreSQL, MinIO and the front end behind nginx. All state that lasts
on the server is in PostgreSQL and MinIO; a process only holds the request it is
serving, the batch its email worker has claimed, the tick its scheduler is in and
the shell of the site for a minute. Nothing takes a lock across two statements
except `claim` (`FOR UPDATE SKIP LOCKED`) and the few `$transaction` blocks, so
two requests that read a row, await and write it by its id may overlap anywhere
between the two. A screen of the back office shows a copy of what it fetched and
mostly sends every field of it; the browser keeps the session, the language and
what a visitor answered or closed in `localStorage`, which tabs share.

### Components

Paths are below `src/backend/src` unless they begin with `frontend`. The module
of each is in the next section.

| Component | State it keeps | Operations that change it | What is hard | What makes it correct |
|---|---|---|---|---|
| Email queue and worker `email/email-queue.service.ts`, `email-worker.ts`, `transport.service.ts` | `EmailMessage` rows; each worker's claimed batch in memory | enqueue, claim, releaseStale, deliver, retry, cancel, purgeBodies | several workers; death between the SMTP answer and the update; claims that go stale; retries; people who leave meanwhile | one owner per claimed row; no copy nobody asked for; at most one copy after a departure; the retry schedule; every row settles |
| Newsletter list `newsletter/` | `NewsletterSubscriber` rows with the hash of a confirmation token | subscribe, confirm, unsubscribe, adminUnsubscribe, leave, erase, import | handlers that read, await and write by id; links opened twice or late; erasure during a request | nobody active without consent; links live exactly while pending; an erased address is gone |
| Campaigns `campaigns/` | `Campaign` row, one `EmailMessage` per recipient | update, remove, schedule, start, enqueue in chunks, pause, resume, cancel; the scheduler's startDue, resumeEnqueues, completeFinished | a scheduler per container and administrators on one campaign; a crash between two chunks; a list that changes under the cursor | every recipient queued once; what was confirmed is sent; what is over stays so; a campaign does not stay in sending |
| Campaign editor `frontend/src/pages/admin/communication/CampaignsAdmin.tsx`, `BlockEditor.tsx` | the query, the draft in the fields, the send dialog and its number, per window | typing, saving, deleting, counting, confirming, sending | a number, a tick and a content of an earlier fetch | a campaign starts by a confirmed request only, for as many people as the dialog said |
| Email settings `email/email-settings.service.ts`, `secret-box.ts`, `dns-check.service.ts`, `EmailSettingsAdmin.tsx` | one `EmailSettings` row; a draft per screen | update, recordTest, switch, password | the row is read, merged and written whole; a test outlives the configuration it tested; a screen sends every field | sending is never on without a server; a test result belongs to the configuration stored |
| Email templates `email/templates.service.ts`, `render.ts`, `default-templates.ts` and two screens | `EmailTemplate` rows over the shipped texts | update, toggle, reset, test | a read that fails answers with the shipped text; two screens on one row | no email without words; the association's wording stays |
| Email history `email/email.controller.ts`, `email-history.service.ts` | none | none (reads; routes to the queue) | | |
| Contact requests `contact/`, `email/contact-mail.service.ts`, `ContactPage.tsx`, `MessagesAdmin.tsx` | `ContactMessage` rows | create, setRead, remove | a request must survive the failure of its two emails; an answer may be lost | a request stored is never lost; each email has its own fate |
| Accounts `users/`, `auth/`, `UsersAdmin.tsx` | `User` rows | create, update, remove (a deactivation), changePassword | the last super administrator is counted in one statement and changed in another; forms go stale | one active super administrator remains; a password nobody asks to change is its owner's |
| Permissions and screens `auth/permissions.guard.ts`, every controller, `audit/`, `App.tsx`, `navigation.ts` | the role an account has and the role a browser believes in; the journal | any call | a role is lowered while screens still offer the old calls; the journal fails after the work | screens and API agree; a right taken is taken at once; a failure is told of unfinished work only |
| Front end session `frontend/src/lib/api/axios.ts`, `context/AuthContext.tsx` | three keys of storage, one user, one shared refresh promise | sign-in, sign-out, calls, refresh, reload | 401 answers at once; a refresh that answers after a sign-out | one identity; a session that was left stays left |
| Site settings `settings/`, `SettingsAdmin.tsx` | per section: published and draft values | update (the draft), publish, discard, publishAll | publish reads the draft, awaits, writes and clears it; publishAll goes section by section | no edit is lost; what is published was a draft, whole |
| Media library `media/`, `common/minio.service.ts` | the object in MinIO and its `Media` row; references from content and settings | upload, remove, purgeOrphans | two stores, no transaction; purging from a snapshot; crashes | nothing in use is deleted; a row has its file |
| News and announcements `news/`, `NewsAdmin.tsx` | `News` rows with a publication and a display window | create, update, remove | what is shown is a function of several fields and the clock; the date is worked out from a row read earlier | each article is in exactly one state of the editor; its date says when it went live |
| Navigation `navigation/` | `NavigationItem` rows, a parent each | create, update, remove, reorder | legal moves in sequence; a parent deleted meanwhile | items leave the menu for a cause |
| Missions, partners, impact, donations, gallery | rows with a position, texts in two languages, an image | create, update, toggle, reorder, remove | positions by read-then-write; languages merged into the row that was read; the upload before the save | a save changes what its author touched; positions order the rows |
| Sitemap, page shell and heads `seo/`, `public/`, `frontend/src/components/seo/Seo.tsx`, nginx | a one-minute cache of the shell; the head of a page | answers, navigation, deployments | two programs write one head; tags outlive their page; a shell older than the assets | what is listed is indexed; the two heads agree; a private page is never indexed |
| Language `frontend/src/context/LocaleContext.tsx` | the address, the router's location, React's state, storage | switch, links, bookmarks | effects that see two renders | the address decides; the choice lasts; renders end |
| Newsletter offer `NewsletterPopup.tsx`, `NewsletterSignup.tsx` | a timer and a card per tab, answers in storage | scrolling, waiting, subscribing, declining | a timer armed before the answer | an answer is respected |
| Announcement banner `AnnouncementBanner.tsx` | what was closed, a position per tab | turn, arrows, close | the list shrinks under the position; tabs write back what each knew | no line is skipped, repeated or stuck |
| Scroll lock `Modal.tsx`, `PublicLayout.tsx`, `Lightbox.tsx` | a counter and three remembered values | open, close, unmount in any order | each restores what it found | the page scrolls exactly when nothing is open |
| Public API, dashboard, audit listings, common helpers, dictionaries, pages, schema, seeds, scripts | none that a step depends on | none | | |

### How they interact

* `NewsletterService`, `ContactMailService` and `CampaignsService` put rows in
  the queue through `EmailQueueService.enqueue` or, for a campaign,
  `createMany`; the worker reads them back, and asks `Campaign.status` (in
  claim's `WHERE`) and `NewsletterSubscriber.status` (in deliver) at that time.
* `leave` and `cancel` of a campaign withdraw rows that wait with a plain
  `updateMany`; they do not talk to the workers.
* `CampaignScheduler` ticks every 30 seconds and `EmailWorker` every 15 seconds in
  each container. Each refuses to overlap itself and nothing else.
* `EmailMessage` has no foreign key to `Campaign` or `NewsletterSubscriber`, so
  a write about a deleted campaign or subscriber succeeds.
* Sections of the settings refer to images by an id inside JSON, which no foreign
  key knows: `MediaLibrary` is `Sections` with that reference. The seo section
  is what the page shell and the browser's head are made of.
* A screen talks to its service over HTTP: an answer may be lost after the work
  is done, a failure may come before it. The session sends a call again once
  after a 401.

## The modules

| Module | What it is |
|---|---|
| `EmailQueue` | the table, the workers' passes, retries and withdrawals |
| `Outbox` | what the queue promises, without workers, claims or attempts; `EmailQueue` implements it |
| `Newsletter` | the list and its requests in flight |
| `Campaigns` | one campaign, its copies, the requests and ticks about it |
| `Accounts` | the rows of the accounts, and windows that read, show, wait and write |
| `Sections`, `MediaLibrary` | the settings' drafts and publication; the library, which extends them |
| `Access` | every handler's permission, every screen's calls, a call from button to answer |
| `CampaignEditor` | the editor and the send dialog, in several windows |
| `Indexing` | sitemap, shell, the server's and the browser's head |
| `EmailSettings`, `Templates`, `Contact` | the email settings, the templates, the contact requests, each with its screens |
| `News`, `Announcements` | publication by several editors; the filters over the clock |
| `Navigation`, `Ordered`, `Catalogue` | parents of the menu; positions of any list; the forms of the five kinds of rows |
| `Session`, `Language`, `Popup`, `Banner`, `ScrollLock` | the browser |
| `MCEmailQueue`, `MCNewsletter`, `MCCampaigns` | instances for TLC: model values and symmetry |
| `MCOffice`, `MCAdministration`, `MCBrowser` | several components side by side, for TLC |
| `EmailQueueProofs`, `NewsletterProofs`, `CampaignsProofs`, `SectionsProofs`, `MediaLibraryProofs` | theorems about one component each |
| `OfficeProofs`, `AdministrationProofs`, `BrowserProofs` | theorems about the components side by side |

Operators named `M_…` are mutated forms of the definition that follows them, a
plausible bug each. No specification uses them; each was put in the place of the
original, and TLC then finds one of the properties broken. `PROJECT.json` names
one for each property of each run.

**Side by side.** `MCOffice`, `MCAdministration` and `MCBrowser` check several
components that share no state. The variable `part` picks one in the initial
state, the others rest: what TLC explores is the union of the components' state
spaces and not their product, and a property of one component cannot tell the
difference. Two people, the same model values for every component, work in each.

### The queue, the list and the campaigns

**`EmailQueue`.** A row is durable (`status`, `attempts`, `due` for
`nextAttemptAt`, `stale` for the age of `lockedAt`, `bodies`). A worker's pass is
a program counter with the batch in memory; a `deliver` is split at each await:
`Check` (age of an acknowledgement, status of the subscriber), then `Drop`, or
the SMTP exchange (`SendAccepted`, `SendRefused`), then the record
(`RecordSent`, `RecordFailure`). Between the exchange and the record stands
`LoseRecord`: the server has the message and `deliver` does not know, because
its answer never came or because the update to `SENT`, which is inside the
`try`, failed. `AbandonPass` is the death of a process or a database error
outside that `try`. The order of `claim` (priority, age) is any order;
`purgeBodies` clears any subset of the finished rows; the age of a claim is one
bit, and `ClaimGoesStale` may set it on a row a live worker holds only when
`SlowBatches`: ten minutes against a batch of 200 messages at most, paced by the
rate limit. What `transport.send` refuses for good, header checks and a missing
server included, is `"rejected"`.

**`Newsletter`.** Each handler is one action up to its first await (`…Read`) and
one from there (`…Write`, `SubscribeMail`, `Welcome`); `rowRead` is the id it
will write by, `Found` whether an update by that id finds a row. A row's id is
fresh whenever it is created, so an erased and recreated address is a different
row. `hash` is the token drawn, not its digest; `recent` is the ten minutes of
`RESEND_INTERVAL_MS`, `expired` the 48 hours of `CONFIRM_TTL_MS`. `consented`,
`confirms`, `erased` and `burst` are history variables no action reads, and so
are the two the promises of the comments need: `overtaken`, the requests whose
row somebody else has written since they read it, and `late`, the addresses one
of these has written about since they were erased. The copies that `leave`
withdraws are `EmailQueue`'s `Leave`.

**`Campaigns`.** One campaign; `create` and `duplicate` give its initial state.
Subscribers are numbered by the order of their ids, which is what `enqueue` goes
by. A process is a request in flight or a scheduler's tick; `start` and `enqueue`
are run by both. `Start`, `Pause`, `Resume` and `Close` ask for the status in the
statement that writes; the others write by id. `After(cursor)` is what Prisma's
cursor and `skip: 1` find: the rows from the cursor's row on that are still in
the audience, less the first; none when the cursor's row is gone. `WriteChunk` is
`createMany` with `skipDuplicates`. The worker is reduced to `Claim` and
`Deliver` of one copy, which is `EmailQueue` seen from here. The segment is one
audience of the active subscribers, the content a version number, the count an
administrator confirms agrees with the count made next (`CampaignEditor` is about
when it does not). `overtaken` are the processes whose reading another's write
has made untrue: a status that changed under an edit, a removal, a date, a recall
or a cancellation, a content under a date, copies under a closing. `crossed` says
that one of them, an edit, a removal, a date or a start, was written all the same:
it is the end of what can be said of the copies. Both are history variables. `Alone`, a
bound, names processes that overlap no other.

### The office

**`Accounts`.** A window opens a form with the row as the list shows it
(`AsListed`), waits for a person, and sends every field; the service then reads,
asks the guard, hashes and writes by id, each an action. `behind` remembers that
the row was written since the form was opened, `late` that some row was written
since the guard counted; the properties say exactly what each of the two can
break. `chosenBy` is who knows a password.

**`Sections` and `MediaLibrary`.** A part of a section holds the number of the
edit that wrote it. `update` merges into what it read, `publish` writes the
draft it read and clears the column, `publishAll` walks its list and stops at a
missing draft. The library adds objects, rows, references from content, and
`picture`, which maps an edit to the image it refers to; `Crash` ends every
request at once, and `halfway` are the images a failure left between the two
stores. `countUsage` does not look at the settings; `usageFor` does; neither looks
at `mailed`, the images in the blocks of a campaign.

**`Access`.** Tables: `Required` of every handler, `Offers` of every screen under
every role, `MinRole` and `Links` of the routes and the sidebar. The journal is
written after the work and may fail; the answer may be lost. A call whose service
fails has done nothing, or a part (`did`) where its handler writes more than once
(`MayFailHalfway`): `publishAll` after some of the sections, `remove` after the
object, the test of the settings after its email. A single statement that fails is
taken not to have been carried out.

**`CampaignEditor`.** A content is whoever wrote it last. `count` is the number
the dialog holds, which react-query keeps when the dialog is closed; one waits
for the answer of a request to send, since closing the dialog before it changes
nothing in that request, and one save is under way in a window.

**`Indexing`.** A text is the set of languages it is written in; a head is what
of it decides: canonical, robots, names, picture. `build` counts deployments and
`kept` is the shell the API holds; `outlived` is how long ago the build that was
served had been replaced. A picture is what it shows and the file it is given as:
the upload in the browser, its render of 1280 pixels where the server writes of an
article. Time is counted in ticks as short as one likes; a shell is kept for `Ttl`
of them and nginx waits for a view for `MaxWait`. The clock and the deployments move only while no page
of the tab is on screen, since nothing there depends on them.

**`EmailSettings`.** The fields fall into host, sender, switch, address of the site
and password. The row, the copy and the draft of each screen, and each request
(`saving`, `testing`) are separate; a draft opens with the address its
administrator uses (`Origin`) where none is stored, nobody having typed it; `crossed`, `outdated`, `surpassed` and `shaken` remember
who wrote between whose read and write.

**`Templates`.** `View` puts the shipped text where there is no row, and `Got` is
that a failing read answers like a missing row. **`Contact`.** The two emails of a
request are two jobs side by side; `JobsAfter` is what the end of one does to the
other. **`News`**, **`Announcements`.** `update`
in its two awaits, the form giving a date to the minute (`ToMinute`); the `where` clauses of the API and the badge of the editor as
predicates of an article and an instant, over every article the API would store.
**`Navigation`**, **`Ordered`.** The tree of the menu with the foreign key's
`SetNull`; positions given by reading the last one, and a reordering that sends
the whole list. What a screen is shown is the one list of the rows in which
position and then age only grow; no two rows have the same `createdAt`.
**`Catalogue`.** One row of one kind; a text is whoever wrote it, a picked file
is that person until it is uploaded, and a row without an icon opens with the
first of the list (`FormOf`).

### The browser

**`Session`.** Every call may be answered, refused or fail. `astray` are the calls
that were in flight when the session ended or changed hands; `mixed` says that an
answer of one of them has come. **`Language`.** React's state and the router's are
committed in separate renders; an effect after a render may write both again.
**`Popup`.** `Effect` asks `MayOffer` when it arms the timer, `Offer`
does not ask again. **`Banner`.** The position
is clamped where it is read; a storage that is `sealed` keeps nothing. **`ScrollLock`.** Dialogs share a counter, the menu
and the viewer each restore what they found. `overlays` is what is open and
`above` what was opened after it; `crossed` remembers that the menu or the viewer
closed out of that order.

## The runs

`tlc -config <cfg> <module>` in this directory. A run that passes checks the
named properties in every reachable state of its instance; one that refutes
checks a statement the source makes of itself, and TLC shows a behaviour
against it.

| Run | Module and configuration | Properties | Shows |
|---|---|---|---|
| queue_two | `MCEmailQueue` `EmailQueue_two` | `CopiesAccounted` `AtMostOneLateCopy` `AdministratorDecides` `ImplementsOutbox` `EverythingSettles` | two workers and an administrator on one campaign copy to one subscriber, with two faults, pauses, the switch, a departure and a return |
| queue_batch | `MCEmailQueue` `EmailQueue_batch` | `IInv` | two rows split between the workers' batches in any way, one of them an acknowledgement that goes out of date on the way; no deadlock |
| newsletter_overlap | `MCNewsletter` `Newsletter_overlap` | `IInv` `SingleUse` `ErasedForgotten` `StatusOrder` | two requests on one address, interleaved at every await; what the comments promise is broken by a request that was overtaken and by no other |
| newsletter_return | `MCNewsletter` `Newsletter_return` | refutes `NoDirectReturn` | and by that one it is |
| campaigns_overlap | `MCCampaigns` `Campaigns_overlap` | `IInv` `OnlyMissingAdded` `SendingEnds` | an administrator, a scheduler, the worker and the visitors interleaved at every await, with a crash |
| campaigns_replicas | `MCCampaigns` `Campaigns_replicas` | `ToldOnce` `EnqueueComplete` | two schedulers resume, enqueue and close one campaign at once |
| campaigns_crossing | `MCCampaigns` `Campaigns_crossing` | `RecordKept` `ConfirmedIsSent` `Lifecycle` | two administrators and a scheduler on one campaign, every request interleaved with every other, crashes and retries included: only a process that was overtaken breaks what the comments promise |
| office | `MCOffice` `Office` | `OfficeOK` `FiltersAgree` `SettingsSound` `ContactKept` `TidyOffice` `SectionsHold` `OnlyOnPurpose` `ListsHold` | sections, news, announcements, menu, lists, email settings, contact requests, templates and the forms of the catalogue, two people on each, request by request and await by await |
| administration | `MCAdministration` `Administration` | `AdministrationOK` `OwnPassword` `RightsAgree` `DialogShowsDraft` `IndexingHolds` `GuardRails` `OnlyWhatWasTouched` `InUseKept` `SendIsConfirmed` | accounts, library, permissions, the editor of a campaign and what search engines are told |
| browser | `MCBrowser` `Browser` | `BrowserOK` `SessionHolds` `VisitorHeard` `BrowserSettles` `BannerKeeps` | session, language, card, banner and scroll lock, with what must end |
| popup_footer | `Popup` `Popup_footer` | refutes `NeverAskedAgain` | the timer of the card does not ask again |
| media_mailed | `MediaLibrary` `MediaLibrary_mailed` | refutes `PurgeSparesUsed` | a purge deletes an image that only a campaign shows |

A property of the side-by-side runs is a conjunction of what its components
promise of one kind; each conjunct is a definition of its own, stated and
commented where the component is modelled.

### Bounds

Every bound is a conjunct of the action it bounds, and named in `CONSTANTS`. The
theorems below hold for every value of the bounds.

* `EmailQueue`: two workers are enough for every conflict over a row, since
  each step of the queue touches the rows of one worker and the table. One row
  shows every history of a row; `queue_batch` has two, for what a batch adds:
  a row that waits in memory while another is sent. `MaxAttempts` (5 in the
  code) is 2, the least with a reschedule, or 1; `MaxRetries` 1 and
  `MaxFaults` 2 let a retry follow a fault and a fault follow a retry.
* `Newsletter`: two requests overlap in every way two can; one address, because
  requests about different addresses share only the generators of ids and
  tokens. Two rows give an erasure and a return; two tokens give an old link
  after a new one.
* `Campaigns`: a chunk of one over two subscribers, or of two over three, has a
  boundary between chunks, a short last chunk and an empty one. One departure or
  arrival (`MaxMoves`) and one crash, at any moment. `MaxEdits` and `MaxRetries`
  bound what an administrator may repeat. Two administrators and a scheduler that
  overlap everywhere (`campaigns_crossing`) have one subscriber: the copies of one
  are enough to tell what an edit, a removal, a recall or a cancellation breaks.
  Only `campaigns_replicas`, which is about the schedulers, has an `Alone`.
* Office: two people are enough for every crossing of two requests about one
  row, which is all a row can suffer at a time. Two sections and two edits let
  `publishAll` meet a section written under it. Three items make a menu of three
  levels, one more than is shown, and a cycle of two; three partners a move in
  the middle. Two instants beyond a day (`LastTick` 3, `DayLength` 2) put every
  bound of a window before, at and after the clock. Two changes of the email
  settings (`MaxActs`) are one on each of two screens, so that two saves are in
  flight at once, or one before a test; `EditedFields` are the server, the switch,
  the address of the site and the password (the sender goes in by the initial rows,
  where it stands or falls with the server), and both screens suggest the same
  address, as their requests come to the same host. A minute of an article has two instants of the three of the clock
  (`Minute`, `EndOfTime` 2). Two requests (`MaxSends`, `MaxChanges`, `MaxCalls`)
  are a change on each of two screens.
  `Studied` has a template that may not be switched off, in two languages, and
  one that ships switched off, for the team; `Touched` names per kind of row the
  fields that behave differently.
* Administration: the seed's account and one more, with two windows, reach every
  count of super administrators that matters: one, two, none. One image with two
  requests to the library, one editor and one stop. One colleague whose role
  another changes. Two windows on one campaign; the number of subscribers takes
  `{0, 1, 2}`, so that a confirmed number can become another that is not zero;
  two writes are a change and a start. Two routes, one article and the addresses
  in `MCVisited`: every form of an address, a private page and one that is none;
  two pages of one tab, one revision, one deployment; initially the section or
  the article is as it mostly is, and one revision gives every other pair.
* Browser: three calls are the check of the session and two more that share a
  refresh; one reload. Two pages and three steps of a visitor. Two tabs share the
  answers to the card; three notices over a capacity of two make the storage
  overflow, or it is blocked from the start. Three dialogs, the menu and the viewer are opened in every order.

Deadlock is checked for `EmailQueue`, whose timers never stop. Elsewhere a system
may rightly stop: nobody comes, the campaign is over, the bounds are used up;
those configurations say `CHECK_DEADLOCK FALSE`.

Symmetry is used over workers, requests, schedulers and people, only in runs
without liveness; no constant or property distinguishes them (`Alone` names
administrators only where it is used).

### Fairness

* `EmailQueue!FairSpec`: a worker's pass goes on and a new one begins
  (`setInterval` of 15 s; every await ends, the SMTP ones by timeouts of 15, 10
  and 30 s); a retry that was read is written; backoffs and the stale window
  elapse. `AbandonPass` may interrupt any of it, `MaxFaults` times.
  `EverythingSettles` assumes that sending stays on and the campaign unpaused
  from some time on.
* `Campaigns!FairSpec`: each scheduler's tick goes on (weak fairness over its
  steps), a waiting copy is claimed when it can be, and a copy that is claimed
  again and again settles: five attempts, then `FAILED` (strong fairness of
  `Settles`; `EmailQueue` shows it).
* `SessionFairness`: a call is answered, or a timeout answers it. `LanguageFairness`:
  React renders what was set. `BannerFairness`: the interval of a banner fires.
* Nothing is asked of administrators, visitors or the date. `Newsletter` and the
  office have no liveness: nothing in them happens by itself.

### The deepest of the properties

* `CopiesAccounted`: copies accepted never exceed decisions to send plus
  acceptances the code could not know of. No crash, overlap of workers, stale
  release, cancellation or departure is the cause of a second copy.
* `EnqueueComplete`: once `recipientCount` is set, everybody who stayed on the
  list since the start has a copy, whatever crashed, was resumed or ran twice at
  once; it needs that nobody left meanwhile, and `EveryRecipientQueued` shows
  why.
* `LinkOnlyWhilePending`, `ActiveConsented` (parts of `IInv` of the list): survive
  every overlap, although `NoDirectReturn`, `ActiveNotDemoted` and `UsedOnce` do
  not.
* `SingleUse`, `StatusOrder`, `ErasedForgotten` of the list, `Lifecycle`,
  `RecordKept`, `ConfirmedIsSent` of a campaign: requests overlap anywhere, and a
  promise is broken only by a request that was overtaken itself; one that was not
  never pays for the overlap of others.
* `SendingEnds`: no interleaving of resume, pause, cancel, crash and close leaves
  a campaign sending for ever.
* `OneIdentity` (in `SessionHolds`): three keys, a React state, a shared promise and
  every call in flight name one person, unless an answer of a session that was
  left has come; that is the only way in.
* `HeadsAgree` (in `IndexingHolds`): the server and the browser write the same
  head, but for the file of an article's picture, whatever page came before.
* `NoEditLost`, `OnlyTypedIsChanged`, `WordingKept`, `CatalogueKept`,
  `OnlyWhatWasTouched`: every screen sends more than its author changed; only a
  crossing that the history variables name lets it change what nobody touched.
* `ChoiceTakes`: no order of renders puts a language back.

## Refuted statements

Each is a sentence of the source the code does not keep, or a property without
the exception that the checked one makes. The three with a run are checked with the
others; the rest are shown by giving the property as `INVARIANT` or `PROPERTY`
under the constants of the configuration named.

| Statement | Constants of | Source | What happens |
|---|---|---|---|
| `NoDirectReturn` (run) | `Newsletter_return` | "Nothing ever moves an UNSUBSCRIBED address straight back to ACTIVE." (`newsletter.service.ts:161`) | confirm has read the pending row, a departure is written, confirm writes `ACTIVE` by id |
| `NeverAskedAgain` (run) | `Popup_footer` | "anyone who subscribed, from here or from the footer, is never asked again." (`NewsletterPopup.tsx:44`) | the footer changes nothing the card's effect depends on, and its timer does not ask |
| `PurgeSparesUsed` (run) | `MediaLibrary_mailed` | "Deletes every unreferenced file. Never touches one still in use." (`media.service.ts:171`) | the images in the blocks of a campaign (`blocks.ts:15`, `campaigns.service.ts:135`) are counted by neither `usageFor` nor `countUsage`: a purge deletes one that is in a campaign and nowhere else |
| `NoUnaskedCopy` | `EmailQueue_lostrecord` | "It is not retried automatically. The message may already have been accepted by the SMTP server" (`email-queue.service.ts:40`) | the update to `SENT` is inside the `try` whose `catch` reschedules: a database error or a timeout after acceptance sends it again |
| `OnlyFinishedIsRetried` | `EmailQueue_tworetries` | "Seul un envoi en échec ou annulé peut être relancé." (`email-queue.service.ts:314`) | two retries read `FAILED`; the second resets a row that waits or is being sent |
| `NoEmptyMail` | `EmailQueue_tworetries` | "an empty email is not a retry" (`email-queue.service.ts:319`) | the body is purged between the check and the update |
| `AdministratorDecides` | `EmailQueue_slow` | "A claim older than this belongs to a worker that died mid-send" (`email-queue.service.ts:38`) | a batch of 200 at one a minute outlives ten minutes, and another worker fails rows that are then sent |
| `ActiveNotDemoted` | `Newsletter_demote` | "Already confirmed: nothing to do, and nothing to send." (`newsletter.service.ts:134`) | subscribe has read the row before a confirmation, and puts it back to `PENDING` |
| `UsedOnce` | `Newsletter_return` | "Single use: the hash is cleared the moment it confirms" (`newsletter.service.ts:211`) | two requests find the row before either clears the hash |
| `ErasedGone` | `Newsletter_return` | "their address is scrubbed from the send history too" (`newsletter.service.ts:538`) | a subscription under way queues its email after the erasure |
| `ErasedUnnamed` | `Newsletter_overlap` | the same | the notice to the team, with the address in its body, is not addressed to it and stays |
| `ResendLimited` | `Newsletter_overlap` | "A confirmation email is sent at most this often to one address." (`newsletter.service.ts:33`) | the interval is asked of `PENDING` rows only; a departure lifts it, with one request after the other |
| `NotRecalled` | `Campaigns_goeson` | "A scheduled campaign goes back to being a draft; one already sending is cancelled" (`campaigns.service.ts:549`) | cancel has read `SCHEDULED`, start makes it `SENDING`, cancel writes `DRAFT` |
| `CancelStops` | `Campaigns_goeson` | "Stops what has not left yet." (`campaigns.service.ts:549`) | an enqueue under way never asks for the status again, and its copies are sent |
| `EndsOnce` | `Campaigns_goeson` | "Cette campagne ne peut plus être annulée." (`campaigns.service.ts:563`) | cancel has read `SENDING`, the scheduler closes the campaign, cancel writes `CANCELLED` |
| `RecordStays` | `Campaigns_edited` | "Une campagne envoyée ou planifiée se garde" (`campaigns.service.ts:248`) | remove has read a draft, another request starts it |
| `SentAsConfirmed` | `Campaigns_edited` | "what was confirmed is what is sent, or nothing is" (`campaigns.service.ts:417`) | update has read a draft and writes between the confirmation and the enqueue |
| `EveryRecipientQueued` | `Campaigns_skipped` | "only the missing rows are added. recipientCount is set last, and is what says the enqueue finished" (`campaigns.service.ts:467`) | the cursor's subscriber has left the audience, so `skip: 1` drops the next recipient; after an erasure the rest of the list |
| `NoneLeftWaiting` | `Campaigns_skipped` | "and its waiting copies with it" (`campaigns.service.ts:550`) | a copy in a worker's hands fails for now and waits again |
| `ClosedWhenDrained` | `Campaigns_undrained` | "Campaigns with nothing left waiting become SENT" (`campaigns.service.ts:627`) | a second enqueue adds a copy between the count and the end |
| `SuperAdminRemains` | `Administration` | the purpose of `assertNotLastSuperAdmin` (`users.service.ts:126`) | two requests count each other's account before either writes |
| `SectionsResolve` | `Administration` | `countUsage` (`media.service.ts:230`) does not look at the settings | an image that only a section refers to can be removed |
| `FailureUndone` | `Administration` | that a call answered by an error has changed nothing | `publishAll` fails after some sections (`settings.service.ts:152`), `remove` and the purge between the object and the row (`media.service.ts:176`, `224`), a test of the settings after its email (`email.controller.ts:227`) |
| `SameFile` | `Administration` | "A crawler and a visitor who navigated here from another page have to agree" (`Seo.tsx:106`) | of an article the server names the render of 1280 pixels (`page-meta.service.ts:261`), the browser the upload (`NewsDetail.tsx:116`) |
| `WindowIsAll` | `Administration` | "The window is the only time a visitor could be served the previous build's asset hashes" (`page-shell.service.ts:75`) | the age is taken before the request is answered: a view that waits gets a shell that was fresh when it asked |
| `SharedAsRead` | `Language_shared` | "a shared link always opens in the language it was shared in, whatever the recipient last chose" (`locale.ts:72`) | an address read in French carries no parameter, and opens in Arabic for somebody who chose Arabic |
| `AlwaysAgree` | `Administration` | "A crawler and a visitor who navigated here from another page have to agree" (`Seo.tsx:106`) | see below |
| `PictureIsItsOwn` | `Administration` | the same | `setMeta` of the picture is called only when there is one: the picture of the page before stays |
| `ClosedStaysClosed` | `Browser`, also with `Tab = {t1, t2}` | "A closed announcement stays closed - on every page and on the next visit" (`AnnouncementBanner.tsx:47`) | storage is blocked, a second tab writes back what it knew, or the capacity pushes the oldest out |
| `NeverFrozen` | `Browser` | the page must not be "left frozen with no dialog on screen" (`Modal.tsx:42`) | the menu and a dialog close in the order they opened, and the later restores `hidden` |
| `OneAcknowledgement` | `Office` with `MaxPosts = 2` | "A retried POST […] stores nothing new" (`contact-mail.service.ts:67`) | an answer is lost, the visitor sends the form again, and that is another request |

## What else the model shows

Things met while modelling which a reader of the code should know of. They are in
the models, and the properties state their exception.

* **Heads.** The browser's canonical keeps a trailing slash and looks up the
  settings by the raw pathname, the server's does neither
  (`seo.controller.ts:139`). An article opened by its id is 404 and noindex from
  the server, which knows slugs only, and index once the application has fetched
  it (`news.service.ts`, findOne). A section stored before a route existed makes
  the server answer 404 for an address its own sitemap lists. The site's name is
  strict in the browser and falls back to French on the server
  (`Seo.tsx:97`). When the shell cannot be fetched, nginx answers any address
  with the static page and 200.
* **Campaign editor.** The dialog reopened shows the cached number and the tick
  survives a refetch (`CampaignsAdmin.tsx:622`). What another window stores after
  the confirmation, for the same number of people, is sent
  (`campaigns.service.ts:415`). A campaign already started is reported as "the
  audience has changed".
* **Templates.** `get()` answers a failed read with the shipped text
  (`templates.service.ts:153`), which the next save or switch writes over the
  association's. A reset of a missing row creates it switched on. Emptying `text`
  in every language gives null to a column that takes none. What is typed during a
  save is lost when the query is fetched again (`EmailTemplatesAdmin.tsx:127`).
* **Catalogue.** A language that was emptied is never removed
  (`sanitize.ts:61` says it is) although the screen says saved. The answer of a
  save closes whichever form is open by then. A retry after a failed save uploads
  the picture again. Two updates merge into the row each had read, so a language
  added between is lost.
* **Forms that fill in.** A form of an article that nobody touched moves the date of
  publication back to the beginning of its minute (`announcementForm.ts:28`), which
  may put it behind another of the same minute. The email settings open with the
  address the administrator uses where none is stored
  (`EmailSettingsAdmin.tsx:72`), and any save stores it. The form of a partner or a
  mission without an icon sends the first of the list (`PartnersAdmin.tsx:78`).
* **News, sections, email settings, accounts.** An article withdrawn between the
  read and the write of an edit keeps a date; `publish` loses an edit saved
  between its two statements; a test that outlives its configuration is recorded
  over the reset; a form of the accounts sends a role and a switch another window
  has changed since.
* **Menu.** Two legal moves make a cycle, which is off the menu with everything
  under it.

## Proofs

`tlapm <module>.tla` checks each; every leaf is proved by SMT, Zenon or, for the
temporal steps, PTL. The assumptions on the constants are those named `ASSUME` in
the modules: bounds are natural numbers, and the model values for "none" are not
members of the sets they complete.

**`EmailQueueProofs`.** `TypeCorrect` is unconditional. The other theorems assume
`Quiet`: no live batch outlives the stale window and retries are one at a time,
which is what `EmailQueue_slow` and `EmailQueue_tworetries` show to be needed.
`SoleOwner` is not inductive alone: a retry in flight could reset a row in a
worker's hands. `IInv` adds that a row a retry has read is still finished
(`ReadStillHolds`), that copies accepted and the one still possible are
accounted for (`Account`), that after a late copy no worker is past the check
with that row (`LateAccount`), and that the attempts a worker read are the
row's (`Schedule`). `Invariance` is `Spec => []IInv`; `OwnerHolds`,
`CopiesHold`, `LateHolds`, `AttemptsHold` and `DecisionsHold` follow.
`Refinement` is `Spec => ImplementsOutbox`: each step of the queue grants one
credit, uses one, or gives up those of a set of rows.

`Solvency` says of `Outbox` itself that it is never overdrawn, for any messages;
by the refinement, `QueueIsSolvent` says so of the queue: it never lets out more
copies than decisions and lost acceptances account for.

**`NewsletterProofs`.** `Invariance` holds for any addresses, requests and bounds,
however requests overlap: a request in flight holds a token already drawn, a
row id already given and, when it confirms, an id that consented; ids are given
once, so `ConfirmWrite` by id never activates another row than the one whose
link was opened. `LinksHold` and `ConsentHolds` follow. `CurrentInvariance`, of
the same steps with no assumption about overlaps, adds that what a request has
read is still so unless it was overtaken (`ReadsCurrent`), that no row is behind
a used token and a token about to be written is nobody else's (`TokensOK`), and
that an erased address has neither a row nor an email until an overtaken request
writes about it (`ErasedAbsent`, `ErasedForgotten`). Every write to a row makes the
other requests about it overtaken, which is what keeps the first; the second says
that only such a request confirms with a used link. `SingleUseHolds`,
`ErasureHolds` and `OrderHolds` follow.

**`CampaignsProofs`.** For any number of subscribers, chunk size, administrators
and schedulers, however they overlap. `EnqueueComplete` says nothing of an
enqueue under way; `IInv` adds, for each process and as long as nobody has left,
that whoever was on the list from the start and is not past the cursor has a
copy, or is in the chunk about to be written (`Progress`). That is why a crash
forgets the cursor without harm and two enqueues may run at once. The lemmas
about finite sets of numbers (`Least`, `Greatest`) and about the chunk
(`TakeFacts`, `AfterFacts`) show that a chunk is an initial part of what is
after the cursor, and is empty only at the end. `EnqueueHolds`, `AudienceHolds`
and `OnlyMissingHolds` follow.

The other properties fail by a process that was overtaken, as `Campaigns_edited`,
`Campaigns_goeson` and `Campaigns_undrained` show, and by no other, which is what
the theorems say: nothing is assumed of who overlaps whom. `CurrentInv` adds that
what a request or a tick has read is still so unless it was overtaken
(`ReadsCurrent`: a draft is a draft, what waits to be closed has nothing waiting),
and that, as long as no edit, removal, date or start that was overtaken has been
written, copies exist only after the start, all of the content that was confirmed,
and the team is told once (`RowOK`). Each step is shown to mark as overtaken every
process whose reading it makes untrue. `ToldOnceHolds`, `ConfirmedHolds`,
`RecordKeptHolds` and `LifecycleHolds` follow from `CurrentInvariance`.

**`SectionsProofs`.** `SectionsInv` adds, for each request, that the row it read is
the row it will write, unless it was overtaken (`Current`), that what it publishes
was a draft (`Drafted`), and that the sections left on the list of a `publishAll`
that nobody disturbed still have theirs (`Listed`).

**`MediaLibraryProofs`.** The steps of the sections are those of `SectionsProofs`,
whose invariant is used as it is. `LibraryInv` adds that a row without its file,
or the reverse, is at a request between its two steps or was left half way
(`Paired`), that an upload owns its image alone and a row goes after its object
(`Stands`), that whatever is anywhere was uploaded (`Uploaded`), and what a
deletion has looked at (`Looked`); of the images only a campaign shows it says
nothing, since nothing looks at them. `Bounded`, that no content is of an edit yet
to come, is needed because the image of the next edit is chosen with the edit.
`FileAndRowHolds` and `InUseKeptHolds` follow. `Crash` is no step of the sections
alone: `SectionsHold` is proved of `SectionsSpec`.

**`OfficeProofs`.** `OfficeSpec` is the specification that the run `office` checks;
`OfficeInv` is the conjunction of an inductive invariant per component, since a
step of the whole is one of each component or leaves its variables alone
(`OfficeSteps`). What each invariant has to add is what a request in flight still
knows of the row it read:

* email settings: a form about to be written was validated (`Validated`), a test
  under way has connected to what is stored unless it was shaken (`Probed`), and
  what nobody retyped is what is stored, but for an address that was suggested,
  unless somebody else's save came between (`Untouched`);
* contact: an email of a request that is over is in the queue or has its own
  reason, and only a request that was stored has one under way (`JobsHold`);
* news: what an update that nobody has passed has read is what stands, and what it
  sends is what its author changed or was shown, to the minute (`RequestHolds`). A draft never
  has a date, even where two updates have crossed;
* announcements: the filters agree at one instant by arithmetic on the ends of a
  day, for every length of it; that is all `FiltersAgree` needs;
* menu: a creation under way has a row of its own which is not there yet, and a
  move never names an item as its own parent (`DeedHolds`);
* lists: ages order the rows and a position read for a new row is past all the
  others until somebody else writes (`OrderRequestHolds`), and a move on its way
  sends what its screen shows with two neighbours swapped, a list of rows none of
  which it names twice, so that the numbers of `reorder` are one for each row. That
  there always is a list to show (`RowsCanBeListed`) takes position and age together
  as an order and the well-founded induction of the library over the sets of rows;
* templates: a screen that is not behind shows the row (`ScreenHolds`), and a
  request that nothing crossed sends the row but for what is wanted of it
  (`UpdateHolds`, `TestHolds`);
* catalogue: the files that no row wears and no save brings (`Strays`) are at most
  as many as calls that failed, and these with the calls under way at most as
  many as were sent. It is an argument about cardinalities, so `failures` is any
  natural number.

`OfficeIsSound`, `FiltersAlwaysAgree`, `SettingsStaySound`, `ContactIsKept`,
`OfficeStaysTidy`, `SectionsStayWhole`, `OfficeChangesOnPurpose` and
`ListsAlwaysHold` are the properties of that run.

**`AdministrationProofs`.** For the specification of the run `administration`, with
the invariants of five components and the same argument for their composition;
`EachOnItsOwn` says that a behaviour of the whole is one of every component, so
that a theorem about a component is one about the whole.

* accounts: beside the types and `OwnPassword`, for each window: the accounts it is
  about exist (`Present`); a form that is not behind shows the table but for what
  was touched (`AsShown`); while it is not late the guard's findings still hold,
  which are that its author is active (`Authorised`), that it does not change its
  own author (`NotAgainstOneself`) and that another super administrator was
  counted (`Counted`). Each write of another window makes the rest behind and
  late, which is all those clauses need;
* permissions: first, of the tables, that a role a screen opens to reaches every
  call the screen offers (`OffersOpen`), controller by controller and screen by
  screen, and that the links of the sidebar are the screens a role may open
  (`LinksOpen`); these hold of every role and screen of the code, whatever the
  people do. Then, of the steps, that a browser whose account was not changed goes
  by the role it has (`BrowserStands`) and that a call under way is one of its
  screen's and has come only as far as its handler can (`CallStands`);
* campaign editor: a version of the campaign has one content, in the row and in
  every window that holds it, and no window holds a version yet to come
  (`VersionsHold`). So a request that finds the number it was pressed for finds
  the content its dialog showed;
* indexing: a page on screen has the head that was written for it, of what the
  browser holds (`HeadStands`); and a build was replaced at most as long ago as a
  shell of it is old (`ShellStands`), which with the time a view may wait gives
  `ShellIsRecent`. That needs `TtlAssumption`: a shell is kept, and a view waited
  for, at least a tick; since a tick is as short as one likes, that is no more than
  that the two times are not nothing. `RouteAssumption` says that a listed route, a
  private one, one that is none and an article are different addresses.

`AdministrationIsSound`, `AdministrationAgrees` and `AdministrationActsOnPurpose`
are all properties of the run.

**`BrowserProofs`.** For the specification of the run `browser`, fairness not being
used.

* session: while the stored session is checked no other call is in flight
  (`CheckedAlone`), a shared refresh is awaited by a call (`RefreshAwaited`), the
  form is for nobody (`FormForNobody`), and whoever is shown was confirmed by the
  server unless the calls are mixed (`Vouched`). `SessionIsOne` follows;
* language: an address that does not say the Arabic it is read in is being completed
  (`Completing`), and what a visitor who waits has chosen is on its way through the
  renders and nothing else is (`OnItsWay`);
* card: what was known when a page was loaded is still stored, and no timer runs in
  a page that knew (`Remembered`);
* scroll lock: what is open was opened in an order (`InOrder`); while nothing has
  crossed, the menu and the viewer remember what is under each
  (`OwnRemember`), the dialogs what is under all of them (`DialogsRemember`), and
  the page is frozen exactly while something is open;
* banner: `RememberedClosed` is inductive beside the types of the lists; the arrows
  need that the k-th notice is well defined, which a few lemmas about finite sets
  of numbers give.

`BrowserIsSound`, `SessionIsOne`, `VisitorIsHeard` and `BannerRemembers` follow.

### Model-checked only

* Liveness, which is out of the prover's reach with `ENABLED`: `EverythingSettles`,
  `SendingEnds`, `BrowserSettles`, and of `BannerKeeps` that every notice gets its
  turn.
* What fails of the code, above.

## What is not modelled

Of the modelled components: statistics, listings, exports and previews, which
change nothing; the text of emails and the blocks of a campaign; which segment a
subscriber is in; `priority` and order of the queue; the signature of unsubscribe
links; throttling of the public routes; categories and slugs of articles and the
photographs of an album; alternative texts and resized variants of images;
several tabs on one session; focus and keys of dialogs.

Components that are not modelled, with the reason in `PROJECT.json`: the email
history and its routes, the public API and its previews, the dashboard and the
listings of the journal, all read-only; the common helpers; the dictionaries, the
pages that draw what they are given and the types, which are a large share of the
front end and keep no state a later step depends on; build scripts, which run
once.

## Plan

Done: the queue with its abstract outbox, the list and the campaigns; every
component of the back office and of the browser that keeps state; and proofs of
the safety properties of every run. Left:

1. Composition of `Campaigns` over `EmailQueue`'s copies, with a refinement proof
   that a worker's pass implements `Claim` and `Deliver` of a copy.
2. News: slugs and categories by check-then-create. Catalogue: the photographs of
   an album. Session: several tabs on one storage.
