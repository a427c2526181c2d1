--------------------------------- MODULE Access ---------------------------------
(***************************************************************************)
(* Who may do what: the permissions of the API                             *)
(* (backend/src/auth/permissions.guard.ts and the decorators of the        *)
(* controllers) and the screens that mirror them (frontend App.tsx,        *)
(* components/admin/layout/navigation.ts, pages/admin).                    *)
(*                                                                         *)
(* A request is followed from the button to the answer: the guards read    *)
(* the account anew, the service acts, the journal is written, and the     *)
(* process may stop in between.  Somebody else may change the account at   *)
(* any moment, while the browser goes on with the role it was told.        *)
(*                                                                         *)
(* A definition whose name starts with M_ is a mutated form of the one     *)
(* below it, used only to show that a property fails of that bug.          *)
(***************************************************************************)
EXTENDS Naturals

CONSTANTS
  Colleague,  \* people with an account
  Outside     \* no screen of the administration

VARIABLES
  standing,   \* the role of an account in the users table; "none": not active
  held,       \* the role a browser goes by; "none": nobody is signed in
  place,      \* the screen it shows
  asked,      \* the call it has made last
  progress,   \* how far that call is
  answer,     \* what the screen was told of it
  \* History variables.
  did,        \* how much of the call was carried out: "no", "part", "done"
  stale,      \* the account has changed since the browser was told its role
  after       \* the call was made after the last change of the account

calls      == <<asked, progress, answer, did, after>>
accessVars == <<standing, held, place, stale, calls>>

-----------------------------------------------------------------------------
(* The ladder of roles, in the guard and in AuthContext *)

Roles == {"EDITOR", "ADMIN", "SUPER_ADMIN"}

RoleLevel == [none |-> 0, EDITOR |-> 1, ADMIN |-> 2, SUPER_ADMIN |-> 3]

AdminResource ==
  {"Settings", "SiteSettings", "NavigationItem", "Partner", "Donation", "ImpactStatistic",
   "ContactMessage", "Email", "Subscriber", "Campaign"}

M_MediaIsAdministrators(subject) ==
  CASE subject \in {"User", "Role", "AuditLog"} -> 3
    [] subject \in AdminResource -> 2
    [] subject = "Media" -> 2
    [] OTHER -> 1
ResourceMinLevel(subject) ==
  CASE subject \in {"User", "Role", "AuditLog"} -> 3
    [] subject \in AdminResource -> 2
    [] OTHER -> 1

ActionMinLevel ==
  [r \in {<<"DELETE", "Media">>, <<"EXPORT", "Subscriber">>, <<"DELETE", "Subscriber">>,
          <<"IMPORT", "Subscriber">>} |-> IF r[2] = "Media" THEN 2 ELSE 3]

\* canActivate: an action's own level comes before that of its resource.
RequiredLevel(needs) ==
  CASE needs = <<>> -> 0
    [] needs = <<"session">> -> 1
    [] needs \in DOMAIN ActionMinLevel -> ActionMinLevel[needs]
    [] OTHER -> ResourceMinLevel(needs[2])

\* can
Can(have, minimum) == have # "none" /\ RoleLevel[have] >= RoleLevel[minimum]

-----------------------------------------------------------------------------
(* The controllers: what each handler needs, and whether it keeps a trace *)

Free           == [needs |-> <<>>, kept |-> FALSE]
Session        == [needs |-> <<"session">>, kept |-> FALSE]
Needs(a, s)    == [needs |-> <<a, s>>, kept |-> FALSE]
NeedsKept(a, s) == [needs |-> <<a, s>>, kept |-> TRUE]

AuthController ==
  [me |-> Session, logout |-> [Session EXCEPT !.kept = TRUE],
   changePassword |-> [Session EXCEPT !.kept = TRUE]]

UsersController ==
  [create |-> NeedsKept("CREATE", "User"), findAll |-> Needs("READ", "User"),
   findOne |-> Needs("READ", "User"), update |-> NeedsKept("UPDATE", "User"),
   remove |-> NeedsKept("DELETE", "User")]

AuditController == [findAll |-> Needs("READ", "AuditLog")]

DashboardController == [getStats |-> Session, getOverview |-> Session, getHealth |-> Session]

NewsController ==
  [findAll |-> Free, findCategories |-> Free, findOne |-> Free, findRelated |-> Free,
   createCategory |-> Needs("CREATE", "NewsCategory"),
   updateCategory |-> Needs("UPDATE", "NewsCategory"),
   removeCategory |-> Needs("DELETE", "NewsCategory"),
   create |-> NeedsKept("CREATE", "News"), update |-> NeedsKept("UPDATE", "News"),
   remove |-> NeedsKept("DELETE", "News")]

MissionsController ==
  [findAll |-> Free, findOne |-> Free, create |-> NeedsKept("CREATE", "Mission"),
   reorder |-> Needs("UPDATE", "Mission"), update |-> NeedsKept("UPDATE", "Mission"),
   remove |-> NeedsKept("DELETE", "Mission")]

PartnersController ==
  [findAll |-> Free, findOne |-> Free, create |-> NeedsKept("CREATE", "Partner"),
   reorder |-> Needs("UPDATE", "Partner"), update |-> NeedsKept("UPDATE", "Partner"),
   remove |-> NeedsKept("DELETE", "Partner")]

ImpactController ==
  [findAll |-> Free, findOne |-> Free, create |-> NeedsKept("CREATE", "ImpactStatistic"),
   reorder |-> Needs("UPDATE", "ImpactStatistic"),
   update |-> NeedsKept("UPDATE", "ImpactStatistic"),
   remove |-> NeedsKept("DELETE", "ImpactStatistic")]

DonationsController ==
  [findAll |-> Free, findOne |-> Free, create |-> NeedsKept("CREATE", "Donation"),
   reorder |-> Needs("UPDATE", "Donation"), update |-> NeedsKept("UPDATE", "Donation"),
   remove |-> NeedsKept("DELETE", "Donation")]

GalleryController ==
  [findAll |-> Free, findImages |-> Free, findOne |-> Free,
   create |-> NeedsKept("CREATE", "GalleryAlbum"),
   update |-> NeedsKept("UPDATE", "GalleryAlbum"),
   remove |-> NeedsKept("DELETE", "GalleryAlbum"),
   addImage |-> Needs("UPDATE", "GalleryAlbum"),
   reorderImages |-> Needs("UPDATE", "GalleryAlbum"),
   updateImage |-> Needs("UPDATE", "GalleryAlbum"),
   removeImage |-> Needs("UPDATE", "GalleryAlbum")]

MediaController ==
  [uploadFile |-> NeedsKept("CREATE", "Media"), findAll |-> Needs("READ", "Media"),
   findOrphans |-> Needs("READ", "Media"), purgeOrphans |-> NeedsKept("DELETE", "Media"),
   listFolders |-> Needs("READ", "Media"), findOne |-> Needs("READ", "Media"),
   usage |-> Needs("READ", "Media"), update |-> Needs("UPDATE", "Media"),
   remove |-> NeedsKept("DELETE", "Media")]

SettingsController ==
  [findAll |-> Free, findDraft |-> Needs("READ", "Settings"),
   draftStatus |-> Needs("READ", "Settings"), publishAll |-> NeedsKept("UPDATE", "Settings"),
   findOne |-> Needs("READ", "Settings"), update |-> Needs("UPDATE", "Settings"),
   publish |-> NeedsKept("UPDATE", "Settings"), discard |-> Needs("UPDATE", "Settings")]

NavigationController ==
  [findAll |-> Free, findOne |-> Free, create |-> NeedsKept("CREATE", "NavigationItem"),
   reorder |-> Needs("UPDATE", "NavigationItem"),
   update |-> NeedsKept("UPDATE", "NavigationItem"),
   remove |-> NeedsKept("DELETE", "NavigationItem")]

ContactController ==
  [create |-> Free, findAll |-> Needs("READ", "ContactMessage"),
   findOne |-> Needs("READ", "ContactMessage"), update |-> Needs("UPDATE", "ContactMessage"),
   remove |-> NeedsKept("DELETE", "ContactMessage")]

EmailController ==
  [overview |-> Needs("READ", "Email"), getSettings |-> Needs("READ", "Email"),
   updateSettings |-> NeedsKept("UPDATE", "Email"), verify |-> Needs("UPDATE", "Email"),
   sendTest |-> NeedsKept("UPDATE", "Email"), dnsReport |-> Needs("READ", "Email")]

EmailTemplatesController ==
  [list |-> Needs("READ", "Email"), get |-> Needs("READ", "Email"),
   update |-> NeedsKept("UPDATE", "Email"), reset |-> NeedsKept("UPDATE", "Email"),
   preview |-> Needs("READ", "Email"), test |-> NeedsKept("UPDATE", "Email")]

EmailMessagesController ==
  [list |-> Needs("READ", "Email"), get |-> Needs("READ", "Email"),
   forContact |-> Needs("READ", "Email"), retry |-> NeedsKept("UPDATE", "Email"),
   cancel |-> NeedsKept("UPDATE", "Email")]

SubscribersController ==
  [stats |-> Needs("READ", "Subscriber"), availability |-> Needs("READ", "Subscriber"),
   list |-> Needs("READ", "Subscriber"), export |-> NeedsKept("EXPORT", "Subscriber"),
   unsubscribe |-> NeedsKept("UPDATE", "Subscriber"),
   erase |-> NeedsKept("DELETE", "Subscriber"), import |-> NeedsKept("IMPORT", "Subscriber")]

CampaignsController ==
  [list |-> Needs("READ", "Campaign"), audience |-> Needs("READ", "Campaign"),
   previewDraft |-> Needs("READ", "Campaign"), get |-> Needs("READ", "Campaign"),
   stats |-> Needs("READ", "Campaign"), create |-> NeedsKept("CREATE", "Campaign"),
   update |-> NeedsKept("UPDATE", "Campaign"), duplicate |-> NeedsKept("CREATE", "Campaign"),
   remove |-> NeedsKept("DELETE", "Campaign"), preview |-> Needs("READ", "Campaign"),
   test |-> NeedsKept("UPDATE", "Campaign"), schedule |-> NeedsKept("UPDATE", "Campaign"),
   pause |-> NeedsKept("UPDATE", "Campaign"), resume |-> NeedsKept("UPDATE", "Campaign"),
   cancel |-> NeedsKept("UPDATE", "Campaign")]

Controllers ==
  [auth |-> AuthController, users |-> UsersController, audit |-> AuditController,
   dashboard |-> DashboardController, news |-> NewsController, missions |-> MissionsController,
   partners |-> PartnersController, impact |-> ImpactController,
   donations |-> DonationsController, gallery |-> GalleryController, media |-> MediaController,
   settings |-> SettingsController, navigation |-> NavigationController,
   contact |-> ContactController, email |-> EmailController,
   templates |-> EmailTemplatesController, messages |-> EmailMessagesController,
   subscribers |-> SubscribersController, campaigns |-> CampaignsController]

Handler(c)  == Controllers[c[1]][c[2]]
Required(c) == RequiredLevel(Handler(c).needs)

Of(controller, handlers) == {<<controller, h>> : h \in handlers}

\* The handlers that write, or send, and may fail after that: a second write, a
\* loop, a queue to fill, or the record read anew for the answer.  The others
\* have one write, the last thing in them that can fail, and the database makes
\* it whole or not at all.
MayFailHalfway ==
  Of("settings", {"update", "publish", "discard", "publishAll"})
    \cup Of("media", {"uploadFile", "remove", "purgeOrphans"})
    \cup Of("email", {"sendTest"}) \cup Of("templates", {"test"})
    \cup Of("campaigns", {"test", "schedule", "pause", "resume", "cancel"})
    \cup Of("messages", {"cancel"}) \cup Of("news", {"create"})
    \cup Of("navigation", {"remove", "reorder"}) \cup Of("gallery", {"reorderImages"})
    \cup {<<c, "reorder">> : c \in {"missions", "partners", "impact", "donations"}}

\* How far a call may have come that was not carried out to its end.
Undone(c) == {"no"} \cup (IF c \in MayFailHalfway THEN {"part"} ELSE {})

-----------------------------------------------------------------------------
(* The screens: the calls each of them offers, by the role it is shown to *)

\* The picker of an image: the library, and an upload when the form is saved.
MediaPicker == Of("media", {"findAll", "uploadFile"})

\* The frame around every screen but the one for the password.
AdminLayout(r) ==
  Of("auth", {"me", "logout"})
    \cup (IF Can(r, "ADMIN") THEN Of("dashboard", {"getStats"}) ELSE {})

DashboardHome(r) ==
  Of("dashboard", {"getStats"})
    \cup (IF Can(r, "ADMIN") THEN Of("dashboard", {"getOverview", "getHealth"}) ELSE {})

NewsAdmin == Of("news", {"findAll", "findCategories", "create", "update", "remove",
                         "createCategory", "removeCategory"}) \cup MediaPicker

MissionsAdmin == Of("missions", {"findAll", "create", "update", "remove"}) \cup MediaPicker

GalleryAdmin ==
  Of("gallery", {"findAll", "create", "update", "remove", "addImage", "removeImage"})
    \cup MediaPicker

M_NoCheckOfRole(r) ==
  Of("subscribers", {"stats", "list", "availability", "unsubscribe", "export", "erase", "import"})
SubscribersAdmin(r) ==
  Of("subscribers", {"stats", "list", "availability", "unsubscribe"})
    \cup (IF Can(r, "SUPER_ADMIN") THEN Of("subscribers", {"export", "erase", "import"}) ELSE {})

CampaignsAdmin ==
  Of("campaigns", {"list", "get", "audience", "previewDraft", "create", "update", "duplicate",
                   "remove", "test", "pause", "resume", "cancel", "schedule", "stats"})
    \cup Of("email", {"getSettings"})

MediaAdmin == Of("media", {"findAll", "listFolders", "purgeOrphans", "remove", "update", "uploadFile"})

ImpactAdmin == Of("impact", {"findAll", "create", "update", "remove"})

PartnersAdmin ==
  Of("partners", {"findAll", "create", "update", "reorder", "remove"}) \cup MediaPicker

DonationsAdmin == Of("donations", {"findAll", "create", "update", "remove"})

NavigationAdmin == Of("navigation", {"findAll", "create", "update", "reorder", "remove"})

SettingsAdmin ==
  Of("settings", {"findDraft", "draftStatus", "publishAll", "publish", "discard", "update"})
    \cup MediaPicker

MessagesAdmin ==
  Of("contact", {"findAll", "findOne", "update", "remove"}) \cup Of("messages", {"forContact", "retry"})

EmailSettingsAdmin ==
  Of("email", {"getSettings", "updateSettings", "verify", "sendTest", "dnsReport"})

EmailTemplatesAdmin == Of("templates", {"list", "get", "preview", "update", "reset", "test"})

EmailHistoryAdmin == Of("messages", {"list", "get", "retry", "cancel"})

NotificationsAdmin == Of("templates", {"list", "update"}) \cup Of("email", {"getSettings"})

CommunicationOverview == Of("email", {"overview"}) \cup Of("subscribers", {"availability"})

UsersAdmin == Of("users", {"findAll", "create", "update", "remove"})

\* Routes: the screens of each group, and the least role of the group.
ByRole ==
  [EDITOR |-> {"dashboard", "password", "news", "missions", "gallery"},
   ADMIN |-> {"media", "impact", "partners", "donations", "navigation", "settings", "messages",
              "communication", "email settings", "templates", "history", "subscribers",
              "campaigns", "notifications"},
   SUPER_ADMIN |-> {"users", "audit"}]

Screens    == UNION {ByRole[r] : r \in Roles}
MinRole(s) == CHOOSE r \in Roles : s \in ByRole[r]

Offers(s, r) ==
  (CASE s = "dashboard"      -> DashboardHome(r)
     [] s = "password"       -> Of("auth", {"changePassword", "me"})
     [] s = "news"           -> NewsAdmin
     [] s = "missions"       -> MissionsAdmin
     [] s = "gallery"        -> GalleryAdmin
     [] s = "media"          -> MediaAdmin
     [] s = "impact"         -> ImpactAdmin
     [] s = "partners"       -> PartnersAdmin
     [] s = "donations"      -> DonationsAdmin
     [] s = "navigation"     -> NavigationAdmin
     [] s = "settings"       -> SettingsAdmin
     [] s = "messages"       -> MessagesAdmin
     [] s = "communication"  -> CommunicationOverview
     [] s = "email settings" -> EmailSettingsAdmin
     [] s = "templates"      -> EmailTemplatesAdmin
     [] s = "history"        -> EmailHistoryAdmin
     [] s = "subscribers"    -> SubscribersAdmin(r)
     [] s = "campaigns"      -> CampaignsAdmin
     [] s = "notifications"  -> NotificationsAdmin
     [] s = "users"          -> UsersAdmin
     [] s = "audit"          -> Of("audit", {"findAll"}))
    \cup (IF s = "password" THEN {} ELSE AdminLayout(r))

\* NAV_GROUPS: the entries of the sidebar, and the least role each is shown to.
NavGroups ==
  [r \in Roles |->
    CASE r = "EDITOR" -> {"dashboard", "news", "missions", "gallery"}
      [] r = "ADMIN" -> {"settings", "impact", "partners", "donations", "messages", "media",
                         "communication", "email settings", "notifications", "templates",
                         "subscribers", "campaigns", "history", "navigation"}
      [] r = "SUPER_ADMIN" -> {"users", "audit"}]

\* Sidebar and the dashboard's cards.
Links(r) == UNION {NavGroups[least] : least \in {l \in Roles : Can(r, l)}}

-----------------------------------------------------------------------------
NoCall == <<"", "">>

AccessInit ==
  /\ standing \in [Colleague -> Roles]
  /\ held = [p \in Colleague |-> "none"]
  /\ place = [p \in Colleague |-> Outside]
  /\ asked = [p \in Colleague |-> NoCall]
  /\ progress = [p \in Colleague |-> "none"]
  /\ answer = [p \in Colleague |-> "none"]
  /\ did = [p \in Colleague |-> "no"]
  /\ stale = [p \in Colleague |-> FALSE]
  /\ after = [p \in Colleague |-> FALSE]

\* Somebody with the right to do so changes the account or switches it off.
Regrade(p, r) ==
  /\ r # standing[p]
  /\ standing' = [standing EXCEPT ![p] = r]
  /\ stale' = [stale EXCEPT ![p] = held[p] # "none"]
  /\ after' = [after EXCEPT ![p] = FALSE]
  /\ UNCHANGED <<held, place, asked, progress, answer, did>>

\* A sign-in, or the check of a page that is loaded: the account as it is.
LearnRole(p) ==
  /\ progress[p] = "none" /\ (held[p] # standing[p] \/ stale[p])
  /\ held' = [held EXCEPT ![p] = standing[p]]
  /\ place' = [place EXCEPT ![p] = Outside]
  /\ asked' = [asked EXCEPT ![p] = NoCall]
  /\ answer' = [answer EXCEPT ![p] = "none"]
  /\ did' = [did EXCEPT ![p] = "no"]
  /\ stale' = [stale EXCEPT ![p] = FALSE]
  /\ UNCHANGED <<standing, progress, after>>

\* ProtectedRoute: a screen opens to the role the browser goes by.
EnterScreen(p, s) ==
  /\ progress[p] = "none" /\ place[p] # s /\ Can(held[p], MinRole(s))
  /\ place' = [place EXCEPT ![p] = s]
  /\ asked' = [asked EXCEPT ![p] = NoCall]
  /\ answer' = [answer EXCEPT ![p] = "none"]
  /\ did' = [did EXCEPT ![p] = "no"]
  /\ UNCHANGED <<standing, held, stale, progress, after>>

\* The screen, or a button of it, makes a call.
Ask(p, c) ==
  /\ progress[p] = "none"
  /\ asked' = [asked EXCEPT ![p] = c]
  /\ progress' = [progress EXCEPT ![p] = "sent"]
  /\ answer' = [answer EXCEPT ![p] = "none"]
  /\ did' = [did EXCEPT ![p] = "no"]
  /\ after' = [after EXCEPT ![p] = TRUE]
  /\ UNCHANGED <<standing, held, place, stale>>

Tell(p, a) ==
  /\ progress' = [progress EXCEPT ![p] = "none"]
  /\ answer' = [answer EXCEPT ![p] = a]

\* The role the guards go by: the row, read for this request.
M_RoleOfTheToken(p) == held[p]
RoleNow(p) == standing[p]

\* JwtAuthGuard and PermissionsGuard.
Guard(p) ==
  /\ progress[p] = "sent"
  /\ CASE Required(asked[p]) > 0 /\ RoleNow(p) = "none" -> Tell(p, "401")
       [] RoleLevel[RoleNow(p)] < Required(asked[p]) -> Tell(p, "403")
       [] OTHER -> progress' = [progress EXCEPT ![p] = "admitted"] /\ UNCHANGED answer
  /\ UNCHANGED <<standing, held, place, stale, asked, did, after>>

\* The service does its work.
Act(p) ==
  /\ progress[p] = "admitted"
  /\ did' = [did EXCEPT ![p] = "done"]
  /\ IF Handler(asked[p]).kept
     THEN progress' = [progress EXCEPT ![p] = "acted"] /\ UNCHANGED answer
     ELSE Tell(p, "ok")
  /\ UNCHANGED <<standing, held, place, stale, asked, after>>

\* It refuses, or fails on the way.
ActRefused(p) ==
  /\ progress[p] = "admitted" /\ Tell(p, "error")
  /\ \E d \in Undone(asked[p]) : did' = [did EXCEPT ![p] = d]
  /\ UNCHANGED <<standing, held, place, stale, asked, after>>

\* AuditService.record: what the caller is told when the entry cannot be written.
M_Rethrown == "error"
WhenNotRecorded == "ok"

\* The journal is written, or fails and says so only in the log.
Record(p) ==
  /\ progress[p] = "acted" /\ \E a \in {"ok", WhenNotRecorded} : Tell(p, a)
  /\ UNCHANGED <<standing, held, place, stale, asked, did, after>>

\* The process stops, or the connection breaks, and the screen is told of neither:
\* the service was wherever it was.
Lost(p) ==
  /\ progress[p] # "none" /\ Tell(p, "lost")
  /\ IF progress[p] = "admitted"
     THEN \E d \in Undone(asked[p]) \cup {"done"} : did' = [did EXCEPT ![p] = d]
     ELSE UNCHANGED did
  /\ UNCHANGED <<standing, held, place, stale, asked, after>>

AccessNext ==
  \E p \in Colleague :
    \/ \E r \in Roles \cup {"none"} : Regrade(p, r)
    \/ LearnRole(p)
    \/ \E s \in Screens : EnterScreen(p, s)
    \/ place[p] # Outside /\ \E c \in Offers(place[p], held[p]) : Ask(p, c)
    \/ Guard(p) \/ Act(p) \/ ActRefused(p) \/ Record(p) \/ Lost(p)

AccessSpec == AccessInit /\ [][AccessNext]_accessVars

-----------------------------------------------------------------------------
(* Properties *)

AccessTypeOK ==
  /\ standing \in [Colleague -> Roles \cup {"none"}]
  /\ held \in [Colleague -> Roles \cup {"none"}]
  /\ place \in [Colleague -> Screens \cup {Outside}]
  /\ \A p \in Colleague : asked[p] = NoCall \/ \E r \in Roles : asked[p] \in Offers(place[p], r)
  /\ progress \in [Colleague -> {"none", "sent", "admitted", "acted"}]
  /\ answer \in [Colleague -> {"none", "ok", "error", "lost", "401", "403"}]
  /\ did \in [Colleague -> {"no", "part", "done"}]
  /\ stale \in [Colleague -> BOOLEAN]
  /\ after \in [Colleague -> BOOLEAN]

\* What a screen offers is never refused for want of a right, and nobody is
\* thrown out, unless the account was changed after the browser learned its role.
OffersAnswered == \A p \in Colleague : answer[p] \in {"401", "403"} => stale[p]

\* A right that is taken is taken at once: a call made after the change is
\* carried out only under the role the account has now.
RevokedAtOnce ==
  \A p \in Colleague :
    progress[p] \in {"admitted", "acted"} /\ after[p] => RoleLevel[standing[p]] >= Required(asked[p])

\* What the guards turn away has not begun, and a failure is told only of work
\* that did not come to its end, whatever became of the journal; part of it may
\* be left behind by the handlers that may fail half way, and by no other.
FailureTold ==
  \A p \in Colleague :
    /\ answer[p] \in {"401", "403"} => did[p] = "no"
    /\ answer[p] = "error" => did[p] \in Undone(asked[p])
    /\ answer[p] = "ok" => did[p] = "done"

\* Every entry of the sidebar leads to a screen its reader may open, and no
\* screen is without one but the form for the password.
EntriesLead ==
  \A p \in Colleague : held[p] # "none" =>
    {s \in Screens : Can(held[p], MinRole(s))} = Links(held[p]) \cup {"password"}

\* The four: the screens and the API agree on who may do what.
RightsAgree == OffersAnswered /\ RevokedAtOnce /\ FailureTold /\ EntriesLead

-----------------------------------------------------------------------------
(* What does not hold of this code (see the README) *)

\* Somebody told of a failure finds everything as it was.
FailureUndone == \A p \in Colleague : answer[p] = "error" => did[p] = "no"
=================================================================================
