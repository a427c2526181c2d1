--------------------------- MODULE BrowserProofs ----------------------------
(*****************************************************************************)
(* Proofs about the browser: the session of the back office, the language,   *)
(* the newsletter's card, the scroll lock and the announcements, for every   *)
(* set of persons, calls, tabs, pages, dialogs and announcements.            *)
(*                                                                           *)
(* Each component has an inductive invariant of its own, and the last section *)
(* carries them over to the five side by side, the specification TLC runs: a *)
(* step of it is a step of one component and leaves the others alone.        *)
(*****************************************************************************)
EXTENDS MCBrowser, FiniteSetTheorems, SequenceTheorems, TLAPS

-----------------------------------------------------------------------------
(* The session *)

\* Only the check of the stored session is in flight until it ends.
CheckedAlone ==
  isBootstrapping =>
    /\ phase[MeCall] # "none" /\ purpose[MeCall] = "me"
    /\ \A c \in Call \ {MeCall} : phase[c] = "none"

RefreshAwaited == refreshing # Nobody => \E c \in Call : phase[c] = "waiting"

FormForNobody == page = "login" /\ user # Nobody => isBootstrapping

Vouched == user # Nobody /\ ~isBootstrapping /\ ~mixed => confirmed

SessionInv ==
  /\ SessionTypeOK
  /\ OneIdentity /\ SignedOutStays
  /\ CheckedAlone /\ RefreshAwaited /\ FormForNobody /\ Vouched

LEMMA SessionInvImplies == SessionInv => SessionHolds
BY DEF SessionInv, SessionHolds, ConfirmedBeforeShown, InAdmin, Vouched

LEMMA SessionInitInv == SessionInit => SessionInv
<1> USE PersonAssumption, CallAssumption, LoadsAssumption
<1>1. ASSUME SessionInit
      PROVE  SessionTypeOK
  <2>1. /\ phase \in [Call -> {"none", "sent", "waiting"}] /\ purpose \in [Call -> Purpose]
        /\ bearer \in [Call -> Someone] /\ retried \in [Call -> BOOLEAN]
    BY <1>1 DEF SessionInit, Someone, Purpose
  <2>2. page \in Page /\ user \in Someone
    BY <1>1 DEF SessionInit, Page, Landing
  <2>3. isBootstrapping \in BOOLEAN /\ signedOut \in BOOLEAN
    BY <1>1 DEF SessionInit, Checking
  <2>4. loads \in 0..MaxLoads
    BY <1>1 DEF SessionInit
  <2>. QED
    BY <1>1, <2>1, <2>2, <2>3, <2>4 DEF SessionInit, SessionTypeOK, Someone
<1>2. ASSUME SessionInit
      PROVE  SessionInv
  BY <1>1, <1>2
     DEF SessionInit, SessionInv, Someone, Checking, Page, Landing, OneIdentity, SignedOutStays,
         CheckedAlone, RefreshAwaited, FormForNobody, Vouched, InFlight
<1>. QED BY <1>2

\* A page that is loaded has at most the check of the stored session in flight.
LEMMA LoadTypes ==
  ASSUME SessionTypeOK, NEW p \in Page, Load(p)
  PROVE  SessionTypeOK'
<1> USE DEF SessionTypeOK, Load, storage, Purpose
<1>1. phase' \in [Call -> {"none", "sent", "waiting"}]
  OBVIOUS
<1>2. purpose' \in [Call -> Purpose]
  OBVIOUS
<1>3. bearer' \in [Call -> Someone] /\ retried' \in [Call -> BOOLEAN]
  BY DEF Someone
<1>4. loads' \in 0..MaxLoads
  BY LoadsAssumption
<1>5. page' \in Page /\ isBootstrapping' \in BOOLEAN
  BY DEF Landing, Page, Checking
<1>. QED
  BY <1>1, <1>2, <1>3, <1>4, <1>5 DEF Someone

\* Of the calls given up nothing is left.
LEMMA GiveUpTypes ==
  ASSUME SessionTypeOK, NEW over \in SUBSET Call, GiveUp(over), mixed' \in BOOLEAN
  PROVE  SessionTypeOK'
<1> USE DEF SessionTypeOK, GiveUp, ClearSession, Store, Someone, OnScreen
<1>1. phase' \in [Call -> {"none", "sent", "waiting"}]
  BY DEF DropAll
<1>2. purpose' \in [Call -> Purpose]
  BY DEF DropAll, Purpose
<1>3. bearer' \in [Call -> Someone] /\ retried' \in [Call -> BOOLEAN]
  BY DEF DropAll
<1>4. user' \in Someone /\ isBootstrapping' \in BOOLEAN
  OBVIOUS
<1>5. page' \in Page /\ UNCHANGED loads
  BY DEF Landing, Page
<1>. QED
  BY <1>1, <1>2, <1>3, <1>4, <1>5 DEF InFlight

LEMMA GiveUpDrops ==
  ASSUME SessionTypeOK, NEW over \in SUBSET Call, GiveUp(over)
  PROVE  /\ token' = Nobody /\ refreshToken' = Nobody /\ userKey' = Nobody
         /\ refreshing' = Nobody
         /\ \A c \in Call : phase'[c] = "none" \/ c \in astray'
<1>1. token' = Nobody /\ refreshToken' = Nobody /\ userKey' = Nobody /\ refreshing' = Nobody
  BY DEF GiveUp, ClearSession, Store
<1>2. CASE page = "login"
  BY <1>1, <1>2 DEF GiveUp, InFlight
<1>3. CASE page # "login"
  BY <1>1, <1>3 DEF GiveUp, DropAll
<1>. QED
  BY <1>2, <1>3

LEMMA SessionNextInv ==
  ASSUME SessionInv, [SessionNext]_sessionVars
  PROVE  SessionInv'
<1> USE PersonAssumption, CallAssumption, LoadsAssumption
    DEF SessionInv, SessionTypeOK, OneIdentity, SignedOutStays, CheckedAlone, RefreshAwaited,
        FormForNobody, Vouched, storage, calls, ghost, InFlight, Someone, Page
<1>1. ASSUME NEW p \in Page, Load(p)
      PROVE  SessionInv'
  <2>2. SessionTypeOK'
    BY <1>1, LoadTypes
  <2>3. OneIdentity' /\ SignedOutStays' /\ RefreshAwaited' /\ FormForNobody' /\ Vouched'
    BY <1>1 DEF Load, Landing, Checking
  <2>4. CheckedAlone'
    BY <1>1 DEF Load, Landing, Checking
  <2>. QED
    BY <2>2, <2>3, <2>4
<1>2. ASSUME NEW p \in Page, Visit(p)
      PROVE  SessionInv'
  BY <1>2 DEF Visit, Landing
<1>3. ASSUME NEW c \in Call, NEW p \in Person, SignIn(c, p)
      PROVE  SessionInv'
  BY <1>3 DEF SignIn, Send, Idle, Purpose
<1>4. ASSUME NEW c \in Call, NEW k \in Purpose, Use(c, k)
      PROVE  SessionInv'
  BY <1>4 DEF Use, Send, Idle, Purpose, InAdmin
<1>5. ASSUME NEW c \in Call, SignedIn(c)
      PROVE  SessionInv'
  BY <1>5 DEF SignedIn, Store, UserKeyAfterLogin, OnScreen, Landing, Drop, LeaveAstray, Purpose
<1>6. ASSUME NEW c \in Call, MeAnswered(c)
      PROVE  SessionInv'
  BY <1>6 DEF MeAnswered, OnScreen, Landing, Drop, CheckingAfter, Purpose
<1>7. ASSUME NEW c \in Call, SignedOut(c)
      PROVE  SessionInv'
  BY <1>7
     DEF SignedOut, EndsSession, ClearOnSignOut, ClearSession, Store, OnScreen, Landing, Drop,
         LeaveAstray, Purpose
<1>8. ASSUME NEW c \in Call, Settled(c)
      PROVE  SessionInv'
  BY <1>8 DEF Settled, EndsSession, Drop, Purpose
<1>9. ASSUME NEW c \in Call, MeFailed(c)
      PROVE  SessionInv'
  BY <1>9
     DEF MeFailed, ClearSession, Store, OnScreen, Landing, Drop, LeaveAstray, CheckingAfter,
         Purpose
<1>10. ASSUME NEW c \in Call, Unauthorized(c)
       PROVE  SessionInv'
  BY <1>10 DEF Unauthorized, Mendable, Purpose
<1>11. ASSUME NEW c \in Call, NothingToRefresh(c)
       PROVE  SessionInv'
  <2>2. SessionTypeOK'
    BY <1>11, GiveUpTypes DEF NothingToRefresh
  <2>3. OneIdentity' /\ SignedOutStays'
    <3>1. /\ token' = Nobody /\ refreshToken' = Nobody /\ userKey' = Nobody
          /\ refreshing' = Nobody
          /\ \A d \in Call : phase'[d] = "none" \/ d \in astray'
      BY <1>11, GiveUpDrops DEF NothingToRefresh
    <3>2. ~mixed' => user' = Nobody
      BY <1>11 DEF NothingToRefresh, GiveUp, OnScreen
    <3>. QED
      BY <3>1, <3>2
  <2>4. CheckedAlone' /\ RefreshAwaited' /\ FormForNobody' /\ Vouched'
    BY <1>11 DEF NothingToRefresh, GiveUp, ClearSession, Store, OnScreen, Landing, DropAll
  <2>. QED
    BY <2>2, <2>3, <2>4
<1>12. CASE Refreshed
  BY <1>12 DEF Refreshed, Store, Waiting, Purpose
<1>13. CASE RefreshFailed
  <2>2. SessionTypeOK'
    BY <1>13, GiveUpTypes DEF RefreshFailed, Waiting
  <2>3. OneIdentity' /\ SignedOutStays'
    <3>1. /\ token' = Nobody /\ refreshToken' = Nobody /\ userKey' = Nobody
          /\ refreshing' = Nobody
          /\ \A d \in Call : phase'[d] = "none" \/ d \in astray'
      BY <1>13, GiveUpDrops DEF RefreshFailed, Waiting
    <3>2. ~mixed' => user' = Nobody
      BY <1>13 DEF RefreshFailed, GiveUp, OnScreen, Waiting
    <3>. QED
      BY <3>1, <3>2
  <2>4. CheckedAlone' /\ RefreshAwaited' /\ FormForNobody' /\ Vouched'
    BY <1>13 DEF RefreshFailed, GiveUp, ClearSession, Store, OnScreen, Landing, DropAll, Waiting
  <2>. QED
    BY <2>2, <2>3, <2>4
<1>14. CASE UNCHANGED sessionVars
  BY <1>14 DEF sessionVars
<1>. QED
  BY <1>1, <1>2, <1>3, <1>4, <1>5, <1>6, <1>7, <1>8, <1>9, <1>10, <1>11, <1>12, <1>13, <1>14
     DEF SessionNext, Answer

-----------------------------------------------------------------------------
(* The language *)

\* An address that does not state what is on screen is being completed.
Completing == Incomplete(location, Shown) => moving

\* What a visitor who waits for the page has chosen is on its way to the screen,
\* to the state and to storage, and nothing else is.
OnItsWay ==
  ~hurried =>
    /\ queued \in {"none", wanted}
    /\ queued = "none" => remembered = wanted
    /\ ~moving => Shown = wanted
    /\ moving /\ address.lang # "absent" => address.lang = wanted \/ wanted = Shown
    /\ blocked \/ storedLocale = wanted

LanguageInv == LanguageTypeOK /\ Completing /\ OnItsWay

LEMMA UrlForAddress ==
  ASSUME NEW l \in Locale, NEW a \in Address
  PROVE  /\ UrlFor(l, a) \in Address
         /\ UrlFor(l, a).lang = IF l = Default THEN "absent" ELSE l
BY DEF UrlFor, Address, Param, Locale

LEMMA ResolveLocale ==
  ASSUME preferred \in Locale, NEW a \in Address, NEW r \in Locale \cup {"none"}
  PROVE  Resolve(a, r) \in Locale
BY DEF Resolve, Address, Param, Locale

LEMMA LanguageInitInv == LanguageInit => LanguageInv
<1> SUFFICES ASSUME LanguageInit PROVE LanguageInv
  OBVIOUS
<1>1. wanted \in Locale /\ UrlFor(wanted, location) \in Address
  BY ResolveLocale, UrlForAddress DEF LanguageInit
<1>2. LanguageTypeOK
  <2>1. moving \in BOOLEAN
    BY DEF LanguageInit, Incomplete
  <2>2. address \in Address
    BY <1>1 DEF LanguageInit
  <2>3. steps \in 0..MaxSteps
    BY StepsAssumption DEF LanguageInit
  <2>. QED
    BY <1>1, <2>1, <2>2, <2>3 DEF LanguageInit, LanguageTypeOK
<1>3. Shown = wanted
  BY DEF LanguageInit, Shown
<1>. QED
  BY <1>2, <1>3, UrlForAddress DEF LanguageInit, LanguageInv, Completing, OnItsWay, Incomplete

LEMMA LanguageNextInv ==
  ASSUME LanguageInv, [LanguageNext]_languageVars
  PROVE  LanguageInv'
<1> USE StepsAssumption
   DEF LanguageInv, LanguageTypeOK, Completing, OnItsWay, Shown, Resolve, Incomplete, Keep, Acts,
       Hurries, CaughtUp, Default
<1>1. ASSUME NEW l \in Locale, SetLocale(l)
      PROVE  LanguageInv'
  <2>1. steps' \in 0..MaxSteps /\ hurried' \in BOOLEAN
    BY <1>1 DEF SetLocale
  <2>2. LanguageTypeOK'
    BY <1>1, <2>1, UrlForAddress DEF SetLocale, QueuedOnChoice
  <2>3. address'.lang \in {"absent", l}
    BY <1>1, UrlForAddress DEF SetLocale
  <2>4. Completing'
    BY <1>1 DEF SetLocale
  <2>5. OnItsWay'
    BY <1>1, <2>3 DEF SetLocale, QueuedOnChoice, Locale
  <2>. QED
    BY <2>2, <2>4, <2>5
<1>2. ASSUME NEW a \in Address, GoTo(a)
      PROVE  LanguageInv'
  BY <1>2 DEF GoTo
<1>3. ASSUME NEW a \in Address, OpenSite(a)
      PROVE  LanguageInv'
  <2>1. Resolve(a, storedLocale) \in Locale
    BY ResolveLocale
  <2>s. steps' \in 0..MaxSteps /\ moving' \in BOOLEAN /\ address' \in Address
    BY <1>3, <2>1, UrlForAddress DEF OpenSite, Opened, Completes
  <2>2. LanguageTypeOK'
    BY <1>3, <2>1, <2>s DEF OpenSite, Opened, QueuedAfter
  <2>3. Shown' = wanted' /\ wanted' = Resolve(a, storedLocale)
    BY <1>3 DEF OpenSite, Opened
  <2>4. Completing'
    BY <1>3 DEF OpenSite, Opened, Completes
  <2>5. queued' = wanted' /\ (blocked' \/ storedLocale' = wanted')
    BY <1>3, <2>3 DEF OpenSite, Opened, QueuedAfter
  <2>6. OnItsWay'
    BY <2>1, <2>3, <2>5 DEF Locale
  <2>. QED
    BY <2>2, <2>4, <2>6
<1>4. CASE RenderState
  <2>1. Resolve(location, queued) \in Locale
    BY <1>4, ResolveLocale
  <2>. QED
    BY <1>4, <2>1, UrlForAddress DEF RenderState, Render, Completes, QueuedAfter
<1>5. CASE RenderLocation
  <2>1. Resolve(address, remembered) \in Locale
    BY <1>5, ResolveLocale
  <2>s. moving' \in BOOLEAN /\ address' \in Address
    BY <1>5, <2>1, UrlForAddress DEF RenderLocation, Render, Completes
  <2>w. wanted' \in Locale
    BY <1>5 DEF RenderLocation, WantedAt, Address, Param
  <2>2. LanguageTypeOK'
    BY <1>5, <2>1, <2>s, <2>w DEF RenderLocation, Render, QueuedAfter
  <2>3. Completing'
    BY <1>5, <2>1, UrlForAddress DEF RenderLocation, Render, Completes
  <2>4. Shown' = Resolve(address, remembered) /\ (~hurried' => Shown' = wanted')
    BY <1>5, <2>1 DEF RenderLocation, Render, WantedAt, Locale
  <2>5. queued' \in {"none", Shown'} /\ (queued' = "none" => Shown' = Shown /\ UNCHANGED storedLocale)
    <3>. HIDE DEF Shown
    <3>1. CASE Resolve(address, remembered) # Shown
      BY <1>5, <2>1, <2>4, <3>1 DEF RenderLocation, Render, QueuedAfter, Locale
    <3>2. CASE Resolve(address, remembered) = Shown
      BY <1>5, <2>4, <3>2 DEF RenderLocation, Render
    <3>. QED
      BY <3>1, <3>2
  <2>6. ~hurried' /\ queued' = "none" => remembered' = wanted' /\ (blocked' \/ storedLocale' = wanted')
    BY <1>5, <2>4, <2>5 DEF RenderLocation, Render, WantedAt
  <2>7. ~hurried' /\ queued' # "none" => blocked' \/ storedLocale' = wanted'
    BY <1>5, <2>4, <2>5 DEF RenderLocation, Render
  <2>8. OnItsWay'
    BY <1>5, <2>4, <2>5, <2>6, <2>7
  <2>. QED
    BY <2>2, <2>3, <2>8
<1>6. CASE UNCHANGED languageVars
  BY <1>6 DEF languageVars
<1>. QED
  BY <1>1, <1>2, <1>3, <1>4, <1>5, <1>6 DEF LanguageNext

\* Both halves of the property follow.
LEMMA LanguageInvDecides == LanguageInv => AddressDecides
BY DEF LanguageInv, LanguageTypeOK, Completing, OnItsWay, AddressDecides, ArabicIsStated,
       AddressRemembered, CaughtUp, Shown, Resolve, Incomplete, Default, Address, Param, Locale

-----------------------------------------------------------------------------
(* The newsletter's card *)

\* What was known when the page was loaded is stored still, and a timer does
\* not run in such a page.
Remembered(t) ==
  /\ "subscribed" \in knew[t] => subscribed
  /\ "declined" \in knew[t] => declined = "recent"
  /\ "subscribed" \in knew[t] \/ "declined" \in knew[t] => ~refuses /\ ~armed[t] /\ ~open[t]

Stored ==
  /\ refuses => ~subscribed /\ declined = "never"
  /\ \A t \in Screen : Remembered(t) /\ (armed[t] => Eligible(t))

PopupInv == PopupTypeOK /\ Stored

LEMMA PopupInitInv == PopupInit => PopupInv
BY DEF PopupInit, PopupInv, PopupTypeOK, Stored, Remembered, Age

LEMMA PopupNextInv ==
  ASSUME PopupInv, [PopupNext]_popupVars
  PROVE  PopupInv'
<1> USE
   DEF PopupInv, PopupTypeOK, Stored, Remembered, Effect, Eligible, MayOffer, Answers, Age,
       Reply
<1>1. CASE SnoozeEnds
  <2>1. knew' \in [Screen -> SUBSET Reply]
    BY <1>1 DEF SnoozeEnds
  <2>2. \A t \in Screen : knew'[t] = knew[t] \ {"declined"}
    BY <1>1 DEF SnoozeEnds
  <2>3. PopupTypeOK'
    BY <1>1, <2>1 DEF SnoozeEnds
  <2>4. Stored'
    BY <1>1, <2>2 DEF SnoozeEnds
  <2>. QED
    BY <2>3, <2>4
<1>2. ASSUME NEW t \in Screen, Offer(t)
      PROVE  PopupInv'
  BY <1>2 DEF Offer
<1>3. ASSUME NEW t \in Screen, CloseCard(t)
      PROVE  PopupInv'
  BY <1>3 DEF CloseCard
<1>4. ASSUME NEW t \in Screen, SignsUp(t)
      PROVE  PopupInv'
  BY <1>4 DEF SignsUp
<1>5. ASSUME NEW t \in Screen, NEW s \in BOOLEAN, StatusAnswers(t, s)
      PROVE  PopupInv'
  BY <1>5 DEF StatusAnswers
<1>6. ASSUME NEW t \in Screen, NEW r \in {"site", "newsletter"}, Reads(t, r)
      PROVE  PopupInv'
  BY <1>6 DEF Reads
<1>7. ASSUME NEW t \in Screen, NEW r \in {"site", "newsletter"}, LoadsPage(t, r)
      PROVE  PopupInv'
  <2>1. /\ knew' \in [Screen -> SUBSET Reply]
        /\ \A u \in Screen : u # t => knew'[u] = knew[u]
        /\ "subscribed" \in knew'[t] => subscribed
        /\ "declined" \in knew'[t] => declined = "recent"
    BY <1>7 DEF LoadsPage
  <2>2. PopupTypeOK'
    BY <1>7, <2>1 DEF LoadsPage
  <2>. QED
    BY <1>7, <2>1, <2>2 DEF LoadsPage
<1>8. CASE UNCHANGED popupVars
  BY <1>8 DEF popupVars
<1>. QED
  BY <1>1, <1>2, <1>3, <1>4, <1>5, <1>6, <1>7, <1>8 DEF PopupNext

LEMMA PopupInvAnswer == PopupInv => AnswerHolds
BY DEF PopupInv, PopupTypeOK, Stored, Remembered, AnswerHolds, Asked, Reply

-----------------------------------------------------------------------------
(* The scroll lock *)

Modals == Dialog \cap overlays

\* What is open was opened in some order.
InOrder ==
  /\ IsFiniteSet(overlays)
  /\ \A x \in Overlay : above[x] \subseteq overlays /\ (x \notin overlays => above[x] = {})
  /\ \A x, y \in overlays : x # y => x \in above[y] \/ y \in above[x]

\* What an overlay of its own remembers is what is open under it.
OwnRemember ==
  \A o \in Own \cap overlays :
    previousOverflow[o] = "hidden" <=> \E x \in overlays : o \in above[x]

\* What the dialogs remember is what is open under all of them.
DialogsRemember ==
  Modals # {} =>
    (overflowBeforeFirst = "hidden" <=>
       \E o \in Own \cap overlays : \A d \in Modals : d \in above[o])

ScrollLockInv ==
  /\ ScrollLockTypeOK /\ InOrder
  /\ ~crossed => OwnRemember /\ DialogsRemember /\ (overflow = "hidden" <=> overlays # {})

LEMMA ScrollLockInitInv == ScrollLockInit => ScrollLockInv
<1> SUFFICES ASSUME ScrollLockInit PROVE ScrollLockInv
  OBVIOUS
<1>1. IsFiniteSet({}) /\ Cardinality({}) = 0
  BY FS_EmptySet
<1>2. Dialog \cap overlays = {}
  BY DEF ScrollLockInit
<1>3. ScrollLockTypeOK
  BY <1>1, <1>2 DEF ScrollLockInit, ScrollLockTypeOK, Overflow
<1>4. InOrder
  BY <1>1 DEF ScrollLockInit, InOrder
<1>. QED
  BY <1>2, <1>3, <1>4 DEF ScrollLockInit, ScrollLockInv, OwnRemember, DialogsRemember, Modals

\* Opening and closing keep the order, and change the set of open dialogs by one.
LEMMA OpensKeeps ==
  ASSUME ScrollLockInv, NEW x \in Overlay, Opens(x)
  PROVE  /\ InOrder' /\ overlays' \subseteq Overlay /\ above' \in [Overlay -> SUBSET Overlay]
         /\ \A y \in Overlay : above'[y] = IF y \in overlays THEN above[y] \cup {x} ELSE {}
<1>1. IsFiniteSet(overlays')
  BY FS_AddElement DEF ScrollLockInv, InOrder, Opens
<1>2. overlays' \subseteq Overlay /\ above' \in [Overlay -> SUBSET Overlay]
  BY DEF ScrollLockInv, ScrollLockTypeOK, Opens
<1>3. \A y \in Overlay : above'[y] = IF y \in overlays THEN above[y] \cup {x} ELSE {}
  BY DEF Opens
<1>. QED
  BY <1>1, <1>2, <1>3 DEF ScrollLockInv, ScrollLockTypeOK, InOrder, Opens

LEMMA ClosesKeeps ==
  ASSUME ScrollLockInv, NEW x \in Overlay, Closes(x)
  PROVE  /\ InOrder' /\ overlays' \subseteq Overlay /\ above' \in [Overlay -> SUBSET Overlay]
         /\ \A y \in Overlay : above'[y] = IF y = x THEN {} ELSE above[y] \ {x}
<1>1. IsFiniteSet(overlays')
  BY FS_RemoveElement DEF ScrollLockInv, InOrder, Closes
<1>2. overlays' \subseteq Overlay /\ above' \in [Overlay -> SUBSET Overlay]
  BY DEF ScrollLockInv, ScrollLockTypeOK, Closes
<1>3. \A y \in Overlay : above'[y] = IF y = x THEN {} ELSE above[y] \ {x}
  BY DEF Closes
<1>. QED
  BY <1>1, <1>2, <1>3 DEF ScrollLockInv, ScrollLockTypeOK, InOrder, Closes

\* The counter.
LEMMA ModalsFinite ==
  ASSUME ScrollLockInv
  PROVE  /\ IsFiniteSet(Modals) /\ openDialogs = Cardinality(Modals) /\ openDialogs \in Nat
         /\ openDialogs = 0 <=> Modals = {}
<1>1. IsFiniteSet(Modals)
  BY FS_Subset DEF ScrollLockInv, InOrder, Modals
<1>2. openDialogs = Cardinality(Modals)
  BY DEF ScrollLockInv, ScrollLockTypeOK, Modals
<1>. QED
  BY <1>1, <1>2, FS_CardinalityType, FS_EmptySet

LEMMA LockScrollInv ==
  ASSUME ScrollLockInv, NEW d \in Dialog, LockScroll(d)
  PROVE  ScrollLockInv'
<1>. d \in Overlay /\ d \notin Own
  BY OverlayAssumption DEF Overlay
<1>1. Opens(d)
  BY DEF LockScroll
<1>2. Modals' = Modals \cup {d} /\ d \notin Modals
  BY <1>1 DEF Modals, Opens
<1>3. openDialogs' = Cardinality(Modals')
  BY <1>2, ModalsFinite, FS_AddElement DEF LockScroll, Counted
<1>4. ScrollLockTypeOK'
  BY <1>1, <1>3, OpensKeeps
     DEF ScrollLockInv, ScrollLockTypeOK, LockScroll, Opens, BeforeFirst, Overflow, Modals
<1>5. ~crossed' => OwnRemember'
  BY <1>1, OpensKeeps
     DEF ScrollLockInv, ScrollLockTypeOK, OwnRemember, Opens, LockScroll, Overlay
<1>6. ~crossed' => DialogsRemember'
  <2>1. CASE Modals = {}
    <3>1. overflowBeforeFirst' = overflow
      BY <2>1, ModalsFinite DEF LockScroll, BeforeFirst
    <3>2. overlays \subseteq Own /\ Modals' = {d}
      BY <2>1, <1>2 DEF Modals, ScrollLockInv, ScrollLockTypeOK, Overlay
    <3>. QED
      BY <1>1, <3>1, <3>2, OpensKeeps DEF ScrollLockInv, DialogsRemember, Opens, Overlay
  <2>2. CASE Modals # {}
    <3>1. overflowBeforeFirst' = overflowBeforeFirst
      BY <2>2, ModalsFinite DEF LockScroll, BeforeFirst
    <3>. QED
      BY <1>1, <1>2, <2>2, <3>1, OpensKeeps DEF ScrollLockInv, DialogsRemember, Opens, Overlay
  <2>. QED
    BY <2>1, <2>2
<1>. QED
  BY <1>1, <1>4, <1>5, <1>6, OpensKeeps DEF ScrollLockInv, LockScroll, Opens

LEMMA ReleaseScrollInv ==
  ASSUME ScrollLockInv, NEW d \in Dialog, ReleaseScroll(d)
  PROVE  ScrollLockInv'
<1>. d \in Overlay /\ d \notin Own
  BY OverlayAssumption DEF Overlay
<1>1. Closes(d)
  BY DEF ReleaseScroll
<1>2. Modals' = Modals \ {d} /\ d \in Modals
  BY <1>1 DEF Modals, Closes
<1>3. openDialogs' = Cardinality(Modals')
  BY <1>2, ModalsFinite, FS_RemoveElement DEF ReleaseScroll
<1>4. ScrollLockTypeOK'
  BY <1>1, <1>3, ClosesKeeps
     DEF ScrollLockInv, ScrollLockTypeOK, ReleaseScroll, Closes, Released, Overflow, Modals
<1>n. ASSUME ~crossed'
      PROVE  ~crossed /\ \A o \in Own \cap overlays : o \notin above[d] /\ d \in above[o]
  <2>1. ~crossed /\ above[d] \cap Own = {} /\ d \in overlays
    BY <1>1, <1>n DEF Closes, Crosses
  <2>. QED
    BY <2>1 DEF ScrollLockInv, InOrder
<1>5. ASSUME ~crossed', NEW p \in Own \cap overlays'
      PROVE  previousOverflow'[p] = "hidden" <=> \E x \in overlays' : p \in above'[x]
  <2>1. overlays' = overlays \ {d} /\ p # d /\ p \in overlays /\ overlays \subseteq Overlay
    BY <1>1 DEF Closes, ScrollLockInv, ScrollLockTypeOK
  <2>2. p \notin above[d]
    BY <1>5, <1>n, <2>1
  <2>3. ASSUME NEW y \in overlays' PROVE p \in above'[y] <=> p \in above[y]
    <3>1. above'[y] = above[y] \ {d}
      BY <1>1, <2>1, ClosesKeeps
    <3>. QED
      BY <2>1, <3>1
  <2>4. previousOverflow'[p] = previousOverflow[p]
    BY DEF ReleaseScroll
  <2>. QED
    BY <1>5, <1>n, <2>1, <2>2, <2>3, <2>4 DEF ScrollLockInv, OwnRemember
<1>6. ~crossed' => DialogsRemember'
  <2>1. UNCHANGED overflowBeforeFirst
    BY DEF ReleaseScroll
  <2>. QED
    BY <1>1, <1>2, <1>n, <2>1, ClosesKeeps DEF ScrollLockInv, DialogsRemember, Closes, Overlay
<1>7. ~crossed' => (overflow' = "hidden" <=> overlays' # {})
  <2>1. CASE openDialogs = 1
    <3>1. Modals = {d}
      BY <1>2, <1>3, <2>1, ModalsFinite, FS_EmptySet, FS_RemoveElement
    <3>2. overlays' \subseteq Own /\ overlays' = Own \cap overlays
      BY <1>1, <3>1 DEF Modals, ScrollLockInv, ScrollLockTypeOK, Overlay, Closes
    <3>3. overflow' = overflowBeforeFirst
      BY <2>1 DEF ReleaseScroll, Released
    <3>. QED
      BY <1>n, <3>1, <3>2, <3>3 DEF ScrollLockInv, DialogsRemember
  <2>2. CASE openDialogs # 1
    <3>1. overflow' = overflow
      BY <2>2 DEF ReleaseScroll, Released
    <3>2. Modals # {d}
      BY <2>2, ModalsFinite, FS_Singleton
    <3>3. overlays # {} /\ overlays' # {}
      BY <1>1, <1>2, <3>2 DEF Modals, Closes
    <3>. QED
      BY <1>n, <3>1, <3>3 DEF ScrollLockInv
  <2>. QED
    BY <2>1, <2>2
<1>. QED
  BY <1>1, <1>4, <1>5, <1>6, <1>7, ClosesKeeps DEF ScrollLockInv, OwnRemember

LEMMA OpenOwnInv ==
  ASSUME ScrollLockInv, NEW o \in Own, OpenOwn(o)
  PROVE  ScrollLockInv'
<1>. o \in Overlay /\ o \notin Dialog
  BY OverlayAssumption DEF Overlay
<1>1. Opens(o)
  BY DEF OpenOwn
<1>2. Modals' = Modals
  BY <1>1 DEF Modals, Opens
<1>3. overflow \in Overflow /\ previousOverflow \in [Own -> Overflow]
  BY DEF ScrollLockInv, ScrollLockTypeOK
<1>4. ScrollLockTypeOK'
  BY <1>1, <1>2, <1>3, OpensKeeps
     DEF ScrollLockInv, ScrollLockTypeOK, OpenOwn, Opens, Overflow, Modals
<1>5. ~crossed' => OwnRemember'
  <2>1. overlays' = overlays \cup {o} /\ o \notin overlays /\ overlays \subseteq Overlay /\ crossed' = crossed
    BY <1>1 DEF Opens, ScrollLockInv, ScrollLockTypeOK
  <2>2. ASSUME ~crossed
        PROVE  previousOverflow'[o] = "hidden" <=> \E x \in overlays' : o \in above'[x]
    <3>1. previousOverflow'[o] = overflow
      BY <1>3 DEF OpenOwn
    <3>2. o \notin above'[o] /\ \A x \in overlays : o \in above'[x]
      BY <1>1, <2>1, OpensKeeps
    <3>. QED
      BY <2>1, <2>2, <3>1, <3>2 DEF ScrollLockInv
  <2>3. ASSUME ~crossed, NEW p \in Own \cap overlays
        PROVE  previousOverflow'[p] = "hidden" <=> \E x \in overlays' : p \in above'[x]
    <3>1. previousOverflow'[p] = previousOverflow[p]
      BY <1>3, <2>1 DEF OpenOwn
    <3>2. \A x \in overlays : p \in above'[x] <=> p \in above[x]
      BY <1>1, <2>1, OpensKeeps
    <3>3. p \notin above'[o]
      BY <1>1, <2>1, OpensKeeps
    <3>. QED
      BY <2>1, <2>3, <3>1, <3>2, <3>3 DEF ScrollLockInv, OwnRemember
  <2>. QED
    BY <2>1, <2>2, <2>3 DEF OwnRemember
<1>6. ~crossed' => DialogsRemember'
  BY <1>1, <1>2, OpensKeeps
     DEF ScrollLockInv, ScrollLockTypeOK, DialogsRemember, Opens, OpenOwn, Modals, Overlay
<1>. QED
  BY <1>1, <1>4, <1>5, <1>6, OpensKeeps DEF ScrollLockInv, OpenOwn, Opens

LEMMA CloseOwnInv ==
  ASSUME ScrollLockInv, NEW o \in Own, CloseOwn(o)
  PROVE  ScrollLockInv'
<1>. o \in Overlay /\ o \notin Dialog
  BY OverlayAssumption DEF Overlay
<1>1. Closes(o)
  BY DEF CloseOwn
<1>2. Modals' = Modals
  BY <1>1 DEF Modals, Closes
<1>3. previousOverflow[o] \in Overflow
  BY DEF ScrollLockInv, ScrollLockTypeOK
<1>4. ScrollLockTypeOK'
  BY <1>1, <1>2, <1>3, ClosesKeeps
     DEF ScrollLockInv, ScrollLockTypeOK, CloseOwn, Closes, Overflow, Modals
<1>n. ASSUME ~crossed'
      PROVE  ~crossed /\ above[o] = {} /\ \A x \in overlays \ {o} : o \in above[x]
  <2>1. ~crossed /\ above[o] = {} /\ o \in overlays
    BY <1>1, <1>n DEF Closes, Crosses
  <2>. QED
    BY <2>1 DEF ScrollLockInv, InOrder
<1>5. ASSUME ~crossed', NEW p \in Own \cap overlays'
      PROVE  previousOverflow'[p] = "hidden" <=> \E x \in overlays' : p \in above'[x]
  <2>1. overlays' = overlays \ {o} /\ p # o /\ p \in overlays /\ overlays \subseteq Overlay
    BY <1>1 DEF Closes, ScrollLockInv, ScrollLockTypeOK
  <2>2. p \notin above[o]
    BY <1>5, <1>n, <2>1
  <2>3. ASSUME NEW y \in overlays' PROVE p \in above'[y] <=> p \in above[y]
    <3>1. above'[y] = above[y] \ {o}
      BY <1>1, <2>1, ClosesKeeps
    <3>. QED
      BY <2>1, <3>1
  <2>4. previousOverflow'[p] = previousOverflow[p]
    BY DEF CloseOwn
  <2>. QED
    BY <1>5, <1>n, <2>1, <2>2, <2>3, <2>4 DEF ScrollLockInv, OwnRemember
<1>6. ~crossed' => DialogsRemember'
  BY <1>1, <1>2, <1>n, ClosesKeeps
     DEF ScrollLockInv, DialogsRemember, Closes, CloseOwn, Overlay, Modals
<1>7. ~crossed' => (overflow' = "hidden" <=> overlays' # {})
  BY <1>1, <1>n DEF ScrollLockInv, OwnRemember, Closes, CloseOwn
<1>. QED
  BY <1>1, <1>4, <1>5, <1>6, <1>7, ClosesKeeps DEF ScrollLockInv, OwnRemember

LEMMA ScrollLockNextInv ==
  ASSUME ScrollLockInv, [ScrollLockNext]_scrollVars
  PROVE  ScrollLockInv'
<1>1. ASSUME NEW d \in Dialog, LockScroll(d) \/ ReleaseScroll(d)
      PROVE  ScrollLockInv'
  BY <1>1, LockScrollInv, ReleaseScrollInv
<1>2. ASSUME NEW o \in Own, OpenOwn(o) \/ CloseOwn(o)
      PROVE  ScrollLockInv'
  BY <1>2, OpenOwnInv, CloseOwnInv
<1>3. CASE NextPicture
  BY <1>3
     DEF NextPicture, ScrollLockInv, ScrollLockTypeOK, InOrder, OwnRemember, DialogsRemember,
         Modals, Overflow
<1>4. CASE UNCHANGED scrollVars
  BY <1>4
     DEF scrollVars, ScrollLockInv, ScrollLockTypeOK, InOrder, OwnRemember, DialogsRemember,
         Modals
<1>. QED
  BY <1>1, <1>2, <1>3, <1>4 DEF ScrollLockNext

-----------------------------------------------------------------------------
(* The announcements *)

\* What is stored, and what each tab knows of it, are lists of announcements.
BannerInv ==
  /\ stored \in Seq(Notice) /\ Len(stored) <= Capacity /\ sealed \in BOOLEAN
  /\ published \subseteq Notice /\ listed \in [Tab -> SUBSET Notice]
  /\ closed \in [Tab -> Seq(Notice)] /\ index \in [Tab -> Nat]
  /\ still \subseteq Tab /\ handled \in 0..MaxHandled
  /\ everClosed \subseteq Notice /\ overwritten \in BOOLEAN
  /\ RememberedClosed

(* The k-th of a set of numbers *)

Below(S, i) == {j \in S : j < i}

LEMMA NoticeFinite ==
  ASSUME NEW S \in SUBSET Notice
  PROVE  IsFiniteSet(S)
<1>1. IsFiniteSet(1..Notices)
  BY BannerAssumption, FS_Interval
<1>. QED
  BY <1>1, FS_Subset DEF Notice

\* Every number below the size of the set is the rank of one of its members.
LEMMA AtIsMember ==
  ASSUME NEW S \in SUBSET Notice, NEW k \in 0..(Cardinality(S) - 1)
  PROVE  At(S, k) \in S /\ Cardinality(Below(S, At(S, k))) = k
<1>. DEFINE n == Cardinality(S)
            rank == [i \in S |-> Cardinality(Below(S, i))]
<1>1. IsFiniteSet(S) /\ n \in Nat
  BY NoticeFinite, FS_CardinalityType
<1>2. ASSUME NEW i \in S
      PROVE  IsFiniteSet(Below(S, i)) /\ Cardinality(Below(S, i)) \in 0..(n - 1)
  <2>1. Below(S, i) \in SUBSET S /\ Below(S, i) # S
    BY BannerAssumption DEF Below, Notice
  <2>2. IsFiniteSet(Below(S, i)) /\ Cardinality(Below(S, i)) <= n /\ Cardinality(Below(S, i)) # n
    BY <1>1, <2>1, FS_Subset
  <2>3. Cardinality(Below(S, i)) \in Nat
    BY <2>2, FS_CardinalityType
  <2>. QED
    BY <1>1, <2>2, <2>3
<1>3. ASSUME NEW i \in S, NEW j \in S, i < j
      PROVE  Cardinality(Below(S, i)) < Cardinality(Below(S, j))
  <2>i. S \subseteq Int
    BY BannerAssumption DEF Notice
  <2>1. Below(S, i) \in SUBSET Below(S, j) /\ i \in Below(S, j) /\ i \notin Below(S, i)
    <3>1. \A x \in S : x < i => x < j
      BY <1>3, <2>i
    <3>2. ~(i < i)
      BY <2>i
    <3>. QED
      BY <1>3, <3>1, <3>2 DEF Below
  <2>2. /\ Cardinality(Below(S, i)) <= Cardinality(Below(S, j))
        /\ Cardinality(Below(S, i)) # Cardinality(Below(S, j))
    BY <1>2, <2>1, FS_Subset
  <2>. QED
    BY <1>2, <2>2
<1>4. rank \in Injection(S, 0..(n - 1))
  <2>1. rank \in [S -> 0..(n - 1)]
    BY <1>2
  <2>2. ASSUME NEW i \in S, NEW j \in S, rank[i] = rank[j]
        PROVE  i = j
    <3>1. i \in Int /\ j \in Int
      BY BannerAssumption DEF Notice
    <3>2. ~(i < j) /\ ~(j < i)
      BY <1>2, <1>3, <2>2
    <3>. QED
      BY <3>1, <3>2
  <2>. QED
    BY <2>1, <2>2 DEF Injection, IsInjective
<1>5. IsFiniteSet(0..(n - 1)) /\ Cardinality(0..(n - 1)) = n
  BY <1>1, FS_Interval
<1>6. rank \in Surjection(S, 0..(n - 1))
  BY <1>1, <1>4, <1>5, FS_Injection
<1>7. PICK i \in S : rank[i] = k
  BY <1>6 DEF Surjection
<1>8. \E p \in S : Cardinality({j \in S : j < p}) = k
  BY <1>7 DEF Below
<1>. QED
  BY <1>8 DEF At, Below

\* So two of them are different members.
LEMMA AtDiffers ==
  ASSUME NEW S \in SUBSET Notice,
         NEW k \in 0..(Cardinality(S) - 1), NEW l \in 0..(Cardinality(S) - 1), k # l
  PROVE  At(S, k) # At(S, l)
BY AtIsMember

\* A banner that has something to show shows one of its announcements.
LEMMA CountType ==
  ASSUME BannerInv, NEW t \in Tab
  PROVE  /\ Items(t) \in SUBSET Notice /\ Count(t) \in Nat
         /\ Items(t) # {} => Count(t) # 0 /\ Position(t) \in 0..(Count(t) - 1)
<1>1. Items(t) \in SUBSET Notice
  BY DEF BannerInv, Items
<1>2. Count(t) \in Nat /\ (Count(t) = 0 => Items(t) = {})
  BY <1>1, NoticeFinite, FS_CardinalityType, FS_EmptySet DEF Count
<1>3. index[t] \in Nat
  BY DEF BannerInv
<1>. QED
  BY <1>1, <1>2, <1>3 DEF Position

LEMMA CurrentType ==
  ASSUME BannerInv, NEW t \in Tab, Items(t) # {}
  PROVE  Current(t) \in Items(t)
BY CountType, AtIsMember DEF Current, Count

(* What is kept of the list *)

\* The last of a list is kept, and no more than the capacity.
LEMMA LastOfKeeps ==
  ASSUME NEW s \in Seq(Notice), NEW i \in Notice
  PROVE  LET l == LastOf(Append(s, i)) IN
         /\ l \in Seq(Notice) /\ Len(l) <= Capacity /\ i \in ToSet(l)
<1>. DEFINE a == Append(s, i)
            m == IF Len(a) > Capacity THEN Len(a) - Capacity + 1 ELSE 1
<1>1. a \in Seq(Notice) /\ Len(a) = Len(s) + 1 /\ a[Len(s) + 1] = i
  BY AppendProperties
<1>2. Len(s) \in Nat
  BY LenProperties
<1>3. m \in Int /\ Len(a) \in Int /\ m \in 1..Len(a)
  BY <1>1, <1>2, BannerAssumption
<1>4. \A j \in m..Len(a) : a[j] \in Notice
  BY <1>1, <1>3, ElementOfSeq
<1>5. /\ SubSeq(a, m, Len(a)) \in Seq(Notice)
      /\ Len(SubSeq(a, m, Len(a))) = Len(a) - m + 1
      /\ SubSeq(a, m, Len(a))[Len(a) - m + 1] = a[Len(a)]
  <2>. HIDE DEF a, m
  <2>. QED BY <1>3, <1>4, SubSeqProperties
<1>6. LastOf(a) = SubSeq(a, m, Len(a))
  BY DEF LastOf
<1>7. Len(a) - m + 1 <= Capacity
  BY <1>1, <1>2, BannerAssumption
<1>8. i \in ToSet(SubSeq(a, m, Len(a)))
  <2>1. DOMAIN SubSeq(a, m, Len(a)) = 1..(Len(a) - m + 1)
    BY <1>5, LenProperties
  <2>. QED
    BY <1>1, <1>3, <1>5, <2>1 DEF ToSet
<1>. QED
  BY <1>5, <1>6, <1>7, <1>8

LEMMA BannerInitInv == BannerInit => BannerInv
<1> SUFFICES ASSUME BannerInit PROVE BannerInv
  OBVIOUS
<1>1. <<>> \in Seq(Notice) /\ Len(<<>>) = 0
  BY EmptySeq
<1>2. stored \in Seq(Notice) /\ Len(stored) <= Capacity /\ closed \in [Tab -> Seq(Notice)]
  BY <1>1, BannerAssumption DEF BannerInit
<1>3. listed \in [Tab -> SUBSET Notice] /\ index \in [Tab -> Nat] /\ handled \in 0..MaxHandled
  BY BannerAssumption DEF BannerInit
<1>. QED
  BY <1>2, <1>3 DEF BannerInit, BannerInv, RememberedClosed

LEMMA BannerNextInv ==
  ASSUME BannerInv, [BannerNext]_bannerVars
  PROVE  BannerInv'
<1> USE BannerAssumption DEF BannerInv, RememberedClosed, Handles
<1>1. CASE Publishes
  BY <1>1 DEF Publishes
<1>2. ASSUME NEW t \in Tab, LoadBanner(t)
      PROVE  BannerInv'
  BY <1>2 DEF LoadBanner
<1>3. ASSUME NEW t \in Tab, Learns(t)
      PROVE  BannerInv'
  BY <1>3 DEF Learns
<1>4. ASSUME NEW t \in Tab, Turn(t)
      PROVE  BannerInv'
  <2>1. Turned(t) \in Nat
    BY <1>4, CountType DEF Turn, Turning, Turned
  <2>. QED
    BY <1>4, <2>1 DEF Turn
<1>5. ASSUME NEW t \in Tab, NEW step \in {-1, 1}, Go(t, step)
      PROVE  BannerInv'
  <2>1. Moved(t, step) \in Nat
    BY <1>5, CountType DEF Go, Moved, Position
  <2>. QED
    BY <1>5, <2>1 DEF Go
<1>6. ASSUME NEW t \in Tab, NEW s \in SUBSET Tab, HoldsStill(t, s)
      PROVE  BannerInv'
  BY <1>6 DEF HoldsStill
<1>7. ASSUME NEW t \in Tab, CloseNotice(t)
      PROVE  BannerInv'
  <2>. DEFINE next == Append(closed[t], Current(t))
  <2>1. Current(t) \in Notice
    BY <1>7, CurrentType, CountType DEF CloseNotice
  <2>2. next \in Seq(Notice)
    BY <2>1, AppendProperties
  <2>3. LastOf(next) \in Seq(Notice) /\ Len(LastOf(next)) <= Capacity /\ Current(t) \in ToSet(LastOf(next))
    BY <2>1, LastOfKeeps
  <2>. HIDE DEF next
  <2>4. /\ closed' = [closed EXCEPT ![t] = next] /\ sealed' = sealed
        /\ stored' = IF sealed THEN stored ELSE LastOf(next)
        /\ overwritten' = (overwritten \/ ~(ToSet(stored) \subseteq ToSet(stored')))
        /\ everClosed' = everClosed \cup {Current(t)}
    BY <1>7 DEF CloseNotice, next
  <2>5. RememberedClosed'
    BY <2>3, <2>4
  <2>6. handled' \in 0..MaxHandled
    BY <1>7 DEF CloseNotice
  <2>. QED
    BY <1>7, <2>1, <2>2, <2>3, <2>4, <2>5, <2>6 DEF CloseNotice
<1>8. CASE UNCHANGED bannerVars
  BY <1>8 DEF bannerVars
<1>. QED
  BY <1>1, <1>2, <1>3, <1>4, <1>5, <1>6, <1>7, <1>8 DEF BannerNext

LEMMA BannerInvType == BannerInv => BannerTypeOK
<1> SUFFICES ASSUME BannerInv PROVE BannerTypeOK
  OBVIOUS
<1>1. \A t \in Tab : Items(t) # {} => Position(t) \in 0..(Count(t) - 1)
  BY CountType
<1>. QED
  BY <1>1 DEF BannerInv, BannerTypeOK

LEMMA ArrowMoves ==
  ASSUME BannerInv, NEW t \in Tab, NEW step \in {-1, 1}, Go(t, step)
  PROVE  Current(t)' # Current(t)
<1>. DEFINE n == Count(t)
<1>1. n \in Nat /\ n > 1 /\ Items(t) \in SUBSET Notice /\ n = Cardinality(Items(t))
  BY CountType DEF Go, Count
<1>2. Items(t) # {}
  BY <1>1, FS_EmptySet
<1>3. Position(t) \in 0..(n - 1)
  BY <1>2, CountType
<1>4. Moved(t, step) \in 0..(n - 1) /\ Moved(t, step) # Position(t)
  <2>. DEFINE p == Position(t)
  <2>. HIDE DEF n, p
  <2>1. (p + step + n) % n \in 0..(n - 1) /\ (p + step + n) % n # p
    <3>1. CASE p + step \in 0..(n - 1)
      <4>1. (p + step + n) % n = p + step
        BY <1>1, <1>3, <3>1 DEF p
      <4>. QED
        BY <1>1, <1>3, <3>1, <4>1 DEF p
    <3>2. CASE p + step = n
      <4>1. p + step + n = n + n
        BY <1>1, <1>3, <3>2 DEF p
      <4>2. (n + n) % n = 0
        BY <1>1
      <4>. QED
        BY <1>1, <1>3, <3>2, <4>1, <4>2 DEF p
    <3>3. CASE p + step = -1
      <4>1. p = 0 /\ p + step + n = n - 1
        BY <1>1, <1>3, <3>3 DEF p
      <4>2. (n - 1) % n = n - 1
        BY <1>1
      <4>. QED
        BY <1>1, <1>3, <4>1, <4>2 DEF p
    <3>. QED
      BY <1>1, <1>3, <3>1, <3>2, <3>3 DEF p
  <2>. QED
    BY <2>1 DEF Moved, n, p
<1>5. Items(t)' = Items(t) /\ index'[t] = Moved(t, step)
  BY DEF Go, BannerInv, Items
<1>6. Position(t)' = Moved(t, step)
  BY <1>1, <1>4, <1>5 DEF Position, Count
<1>. QED
  BY <1>1, <1>2, <1>3, <1>4, <1>5, <1>6, AtDiffers DEF Current

-----------------------------------------------------------------------------
(* The five side by side *)

allVars == <<part, sessionVars, languageVars, popupVars, bannerVars, scrollVars>>

BrowserInv == SessionInv /\ LanguageInv /\ PopupInv /\ BannerInv /\ ScrollLockInv

LEMMA BrowserInitInv == BrowserInit => BrowserInv
BY SessionInitInv, LanguageInitInv, PopupInitInv, BannerInitInv, ScrollLockInitInv
   DEF BrowserInit, BrowserInv

\* A step of the browser is one of each component, or leaves it as it is.
LEMMA BrowserSteps ==
  ASSUME [BrowserNext]_allVars
  PROVE  /\ [SessionNext]_sessionVars /\ [LanguageNext]_languageVars
         /\ [PopupNext]_popupVars /\ [BannerNext]_bannerVars
         /\ [ScrollLockNext]_scrollVars
BY DEF BrowserNext, allVars, LanguageNext

LEMMA BrowserNextInv ==
  ASSUME BrowserInv, [BrowserNext]_allVars
  PROVE  BrowserInv'
BY BrowserSteps, SessionNextInv, LanguageNextInv, PopupNextInv, BannerNextInv, ScrollLockNextInv
   DEF BrowserInv

\* What holds of each component on its own holds of the five side by side.
THEOREM BrowserInvariance == BrowserSpec => []BrowserInv
<1>1. BrowserInv /\ [BrowserNext]_allVars => BrowserInv'
  BY BrowserNextInv
<1>. QED
  BY BrowserInitInv, <1>1, PTL DEF BrowserSpec, allVars

\* The types of all five hold in every state, and the page scrolls exactly when
\* nothing is open over it, whatever the dialogs, the menu and the viewer were
\* opened and closed in, but for a crossing of the menu or the viewer.
THEOREM BrowserIsSound == BrowserSpec => []BrowserOK
<1>1. BrowserInv => BrowserOK
  BY BannerInvType
     DEF BrowserInv, BrowserOK, SessionInv, LanguageInv, PopupInv, ScrollLockInv, ScrollFollows
<1>. QED
  BY BrowserInvariance, <1>1, PTL

\* Whatever answers overlap, one tab has one identity: unless a call that was
\* in flight when the session changed has been answered since, everything that
\* holds an identity holds the same, a sign-out leaves nothing, and the back
\* office is shown to somebody the API has vouched for.
THEOREM SessionIsOne == BrowserSpec => []SessionHolds
<1>1. BrowserInv => SessionHolds
  BY SessionInvImplies DEF BrowserInv
<1>. QED
  BY BrowserInvariance, <1>1, PTL

\* An address that came to rest says so when it is read in Arabic, so that
\* whoever opens it reads Arabic (a French one says nothing); a visitor who
\* waits reads and keeps the language they chose; and in a page loaded after an
\* answer to the newsletter's card, the card does not come back.
THEOREM VisitorIsHeard == BrowserSpec => []VisitorHeard
<1>1. BrowserInv => VisitorHeard
  BY LanguageInvDecides, PopupInvAnswer DEF BrowserInv, VisitorHeard
<1>. QED
  BY BrowserInvariance, <1>1, PTL

\* What BannerKeeps says of single states and of single steps, for any number
\* of announcements, any capacity of the storage and any number of tabs: what
\* was closed is remembered where storage is not blocked, but for what a second
\* tab or the capacity pushes out, and an arrow changes the line.
THEOREM BannerRemembers == BrowserSpec => []RememberedClosed /\ ArrowsMove
<1>1. BrowserInv => RememberedClosed
  BY DEF BrowserInv, BannerInv
<1>2. BrowserInv /\ [BrowserNext]_allVars =>
        [\A t \in Tab, step \in {-1, 1} : Go(t, step) => Current(t)' # Current(t)]_bannerVars
  BY ArrowMoves DEF BrowserInv
<1>3. BrowserSpec => [][BrowserNext]_allVars
  BY PTL DEF BrowserSpec, allVars
<1>. QED
  BY BrowserInvariance, <1>1, <1>2, <1>3, PTL DEF ArrowsMove
=============================================================================
