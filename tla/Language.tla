-------------------------------- MODULE Language --------------------------------
(***************************************************************************)
(* The language of the site in one tab                                     *)
(* (frontend/src/context/LocaleContext.tsx, lib/i18n/locale.ts).           *)
(*                                                                         *)
(* The address decides, then what is remembered, then the browser.  React's*)
(* state and the router's are committed in separate renders, the router's  *)
(* last, and effects after a render write both again: what is shown, what  *)
(* is remembered and where the browser is differ for a while.              *)
(*                                                                         *)
(* A definition whose name starts with M_ is a mutated form of the one     *)
(* below it, used only to show that a property fails of that bug.          *)
(***************************************************************************)

EXTENDS Naturals

CONSTANTS
  Path,     \* pages of the site
  MaxSteps  \* bound: choices, links and visits

ASSUME StepsAssumption == MaxSteps \in Nat

VARIABLES
  storedLocale, \* lds.locale in localStorage
  blocked,      \* localStorage cannot be written
  preferred,    \* what the browser's languages come to
  address,      \* where the browser is
  location,     \* what the router has rendered
  remembered,   \* the state of LocaleProvider
  moving,       \* the router has an address to render, the same one maybe
  queued,       \* an update of it that is not rendered yet
  steps,        \* what the visitor has done so far
  \* History variables.
  wanted,       \* the language last chosen, or last given by an address
  hurried       \* the visitor went on before the page had followed

languageVars ==
  <<storedLocale, blocked, preferred, address, location, moving, remembered, queued,
    steps, wanted, hurried>>

Locale  == {"fr", "ar"}
Default == "fr"
Param   == Locale \cup {"absent"}
Address == [path : Path, lang : Param]

-----------------------------------------------------------------------------
(* State functions *)

\* The address, then the remembered choice, then the browser.
Resolve(a, r) ==
  IF a.lang # "absent" THEN a.lang ELSE IF r # "none" THEN r ELSE preferred

\* The language on screen.
Shown == Resolve(location, remembered)

\* urlFor: the default language travels without a parameter.
UrlFor(l, a) == [path |-> a.path, lang |-> IF l = Default THEN "absent" ELSE l]

\* The router has caught up and nothing is left to render.
CaughtUp == ~moving /\ queued = "none"

\* A page's address is completed when it does not state a language that is not
\* the default.
M_CompletesAll(a, l) == l # Default
M_CompletesNone(a, l) == FALSE
Incomplete(a, l) == a.lang = "absent" /\ l # Default

\* The second half of the effect that remembers: the state.
M_OnlyStorage(l) == "none"
QueuedAfter(l) == l

\* What setLocale does to the state.
M_AddressOnly(l) == queued
QueuedOnChoice(l) == l

Keep(l) == storedLocale' = IF blocked THEN storedLocale ELSE l

\* The effect on the address, b and m being where the browser is and whether
\* the router has to follow.
Completes(a, l, b, m) ==
  /\ address' = IF Incomplete(a, l) THEN UrlFor(l, a) ELSE b
  /\ moving' = (Incomplete(a, l) \/ m)

\* The effects of the first render of a page opened at a, with r remembered.
Opened(a, r) ==
  LET l == Resolve(a, r) IN
  /\ location' = a /\ remembered' = r
  /\ Completes(a, l, a, FALSE)
  /\ Keep(l) /\ queued' = QueuedAfter(l)
  /\ wanted' = l /\ hurried' = FALSE

\* A render with location a, moved there or not, and state r: the address is
\* completed when location or language changed, and a language that changed is
\* written down and remembered.
Render(a, moved, r) ==
  LET l == Resolve(a, r) IN
  /\ location' = a /\ remembered' = r
  /\ IF moved \/ l # Shown THEN Completes(a, l, address, moving /\ ~moved)
     ELSE UNCHANGED <<address, moving>>
  /\ IF l # Shown
     THEN Keep(l) /\ queued' = QueuedAfter(l)
     ELSE UNCHANGED storedLocale /\ queued' = "none"

\* The choice an address makes.
WantedAt(a) == IF a.lang # "absent" THEN a.lang ELSE wanted

-----------------------------------------------------------------------------
\* The first visit, at any address somebody may have been given, after its
\* first render and effects.
LanguageInit ==
  /\ blocked \in BOOLEAN /\ preferred \in Locale
  /\ location \in Address /\ remembered = "none"
  /\ wanted = Resolve(location, "none")
  /\ moving = Incomplete(location, wanted)
  /\ address = IF moving THEN UrlFor(wanted, location) ELSE location
  /\ storedLocale = IF blocked THEN "none" ELSE wanted
  /\ queued = wanted
  /\ steps = 0 /\ hurried = FALSE

Acts == steps < MaxSteps /\ steps' = steps + 1

Hurries == hurried' = (hurried \/ ~CaughtUp)

\* The switch: storage, state, address, in this order.
SetLocale(l) ==
  /\ Acts
  /\ Keep(l) /\ queued' = QueuedOnChoice(l)
  /\ address' = UrlFor(l, location) /\ moving' = TRUE
  /\ wanted' = l /\ Hurries
  /\ UNCHANGED <<blocked, preferred, location, remembered>>

\* A link of the site carries no query; the back button leads to an address
\* that may.
GoTo(a) ==
  /\ Acts
  /\ address' = a /\ moving' = TRUE /\ Hurries
  /\ UNCHANGED <<storedLocale, blocked, preferred, location, remembered, queued, wanted>>

\* The site is opened again, from a bookmark or a link somebody shared.
OpenSite(a) ==
  /\ Acts
  /\ Opened(a, storedLocale)
  /\ UNCHANGED <<blocked, preferred>>

\* React commits its own state first,
RenderState ==
  /\ queued # "none"
  /\ Render(location, FALSE, queued)
  /\ UNCHANGED <<blocked, preferred, steps, wanted, hurried>>

\* and the router's, which is a transition, when nothing else is waiting.
RenderLocation ==
  /\ queued = "none" /\ moving
  /\ Render(address, TRUE, remembered)
  /\ wanted' = WantedAt(address)
  /\ UNCHANGED <<blocked, preferred, steps, hurried>>

LanguageNext ==
  \/ \E l \in Locale : SetLocale(l)
  \/ \E a \in Address : GoTo(a) \/ OpenSite(a)
  \/ RenderState \/ RenderLocation

\* The browser renders.
LanguageFairness == WF_languageVars(RenderState \/ RenderLocation)

LanguageSpec == LanguageInit /\ [][LanguageNext]_languageVars /\ LanguageFairness

-----------------------------------------------------------------------------
(* Properties *)

LanguageTypeOK ==
  /\ storedLocale \in Locale \cup {"none"} /\ blocked \in BOOLEAN /\ preferred \in Locale
  /\ address \in Address /\ location \in Address /\ moving \in BOOLEAN
  /\ remembered \in Locale \cup {"none"} /\ queued \in Locale \cup {"none"}
  /\ steps \in 0..MaxSteps /\ wanted \in Locale
  /\ hurried \in BOOLEAN

\* Once the router has caught up, an address that is read in Arabic says so:
\* somebody who opens it reads Arabic, whatever they chose last.  Of French this
\* does not hold: its addresses say nothing.
ArabicIsStated ==
  CaughtUp /\ Shown = "ar" => \A r \in Locale : Resolve(location, r) = "ar"

\* "Whatever the address says is also what gets remembered", for the next
\* visit and for the next link, by a visitor who waits for the page.
AddressRemembered ==
  CaughtUp /\ ~hurried =>
    /\ Shown = wanted /\ remembered = Shown
    /\ blocked \/ storedLocale = Shown

\* Both: what the address says holds, for its reader and in Arabic for anybody.
AddressDecides == ArabicIsStated /\ AddressRemembered

\* The language chosen last, or given by an address, is the language shown,
\* for good: neither an address that is behind nor a state that is ahead puts
\* the other back ("the visitor was locked in Arabic").
ChoiceTakes ==
  \A l \in Locale : wanted = l ~> Shown = l \/ wanted # l \/ hurried

\* And the renders come to an end.
RendersEnd == ~CaughtUp ~> CaughtUp

\* Both: the switch does what it says, and the page comes to rest.
ChoiceHolds == ChoiceTakes /\ RendersEnd

\* "The address always states what is being read, so a page stays shareable", "a shared
\* link always opens in the language it was shared in, whatever the recipient
\* last chose".
SharedAsRead ==
  CaughtUp => \A r \in Locale : Resolve(location, r) = Shown
=================================================================================
