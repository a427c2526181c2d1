--------------------------------- MODULE Popup ---------------------------------
(***************************************************************************)
(* The newsletter offered to a visitor who reads                           *)
(* (frontend/src/components/public/NewsletterPopup.tsx and what it shares  *)
(* with NewsletterSignup.tsx).                                             *)
(*                                                                         *)
(* Every tab of the site has its own card and its own timer; what the      *)
(* visitor answered, in any of them, is in localStorage.  The card reads   *)
(* the answer when its effect arms the timer, not when the timer ends.     *)
(*                                                                         *)
(* A definition whose name starts with M_ is a mutated form of the one     *)
(* below it, used only to show that a property fails of that bug.          *)
(***************************************************************************)

CONSTANTS Screen  \* tabs of the site in one browser

VARIABLES
  subscribed, \* SUBSCRIBED_KEY is set
  declined,   \* DISMISSED_KEY: never set, "recent", or "old" (30 days and more)
  refuses,    \* localStorage is blocked
  available,  \* what each tab knows: the API says that sending works
  reading,    \* "site", or "newsletter" for the pages that ask already
  open,       \* the card is offered
  dismissed,  \* the card was closed since the page was loaded
  armed,      \* the timer and the scroll listener are set
  \* History variable.
  knew        \* answers that were stored when the page was loaded, and still hold

popupVars == <<subscribed, declined, refuses, available, reading, open, dismissed, armed, knew>>

Age    == {"never", "recent", "old"}
Reply == {"subscribed", "declined"}

-----------------------------------------------------------------------------
(* State functions *)

M_ForgetsSubscribers == declined # "recent"
M_ForgetsDeclined    == ~subscribed
MayOffer == refuses \/ (~subscribed /\ declined # "recent")

Eligible(t) == available[t] /\ reading[t] = "site" /\ ~dismissed[t]

\* The card is on screen.
Asked(t) == open[t] /\ Eligible(t)

M_ArmsWhileOpen(t) ==
  armed' = [armed EXCEPT ![t] = Eligible(t)' /\ MayOffer]

\* The effect of t runs when what it depends on has changed.
Effect(t) ==
  armed' = IF Eligible(t)' # Eligible(t) \/ open[t]' # open[t]
             THEN [armed EXCEPT ![t] = Eligible(t)' /\ ~open[t]' /\ MayOffer]
             ELSE armed

\* What an answer leaves in the browser.
Answers(who, when) ==
  IF refuses THEN UNCHANGED <<subscribed, declined>>
  ELSE subscribed' = who /\ declined' = when

-----------------------------------------------------------------------------
PopupInit ==
  /\ subscribed = FALSE /\ declined = "never" /\ refuses \in BOOLEAN
  /\ available = [t \in Screen |-> FALSE]
  /\ reading \in [Screen -> {"site", "newsletter"}]
  /\ open = [t \in Screen |-> FALSE] /\ dismissed = [t \in Screen |-> FALSE]
  /\ armed = [t \in Screen |-> FALSE] /\ knew = [t \in Screen |-> {}]

\* useNewsletterStatus is answered, or asked again later.
StatusAnswers(t, s) ==
  /\ available' = [available EXCEPT ![t] = s]
  /\ UNCHANGED <<subscribed, declined, refuses, reading, open, dismissed, knew>>
  /\ Effect(t)

\* The visitor goes to another page of the site.
Reads(t, r) ==
  /\ reading' = [reading EXCEPT ![t] = r]
  /\ UNCHANGED <<subscribed, declined, refuses, available, open, dismissed, knew>>
  /\ Effect(t)

\* Twenty-five seconds, or half of a page.
Offer(t) ==
  /\ armed[t]
  /\ open' = [open EXCEPT ![t] = TRUE]
  /\ UNCHANGED <<subscribed, declined, refuses, available, reading, dismissed, knew>>
  /\ Effect(t)

\* close: the cross, or the Escape key, which listens while the card is hidden.
CloseCard(t) ==
  /\ open[t]
  /\ open' = [open EXCEPT ![t] = FALSE]
  /\ dismissed' = [dismissed EXCEPT ![t] = TRUE]
  /\ Answers(subscribed, "recent")
  /\ UNCHANGED <<refuses, available, reading, knew>>
  /\ Effect(t)

\* Somebody subscribes from the card, the footer or the page of the newsletter:
\* all three are one form, shown where sending works.
SignsUp(t) ==
  /\ available[t]
  /\ Answers(TRUE, declined)
  /\ UNCHANGED <<refuses, available, reading, open, dismissed, armed, knew>>

\* SNOOZE_MS go by.
SnoozeEnds ==
  /\ declined = "recent" /\ declined' = "old"
  /\ knew' = [t \in Screen |-> knew[t] \ {"declined"}]
  /\ UNCHANGED <<subscribed, refuses, available, reading, open, dismissed, armed>>

\* The page is loaded again, anywhere.
LoadsPage(t, r) ==
  /\ available' = [available EXCEPT ![t] = FALSE]
  /\ reading' = [reading EXCEPT ![t] = r]
  /\ open' = [open EXCEPT ![t] = FALSE] /\ dismissed' = [dismissed EXCEPT ![t] = FALSE]
  /\ armed' = [armed EXCEPT ![t] = FALSE]
  /\ knew' = [knew EXCEPT ![t] = (IF subscribed THEN {"subscribed"} ELSE {})
                                     \cup (IF declined = "recent" THEN {"declined"} ELSE {})]
  /\ UNCHANGED <<subscribed, declined, refuses>>

PopupNext ==
  \/ SnoozeEnds
  \/ \E t \in Screen : Offer(t) \/ CloseCard(t) \/ SignsUp(t)
  \/ \E t \in Screen, s \in BOOLEAN : StatusAnswers(t, s)
  \/ \E t \in Screen, r \in {"site", "newsletter"} : Reads(t, r) \/ LoadsPage(t, r)

PopupSpec == PopupInit /\ [][PopupNext]_popupVars

-----------------------------------------------------------------------------
(* Properties *)

\* Types; besides, a closed card is not offered, and a timer only runs for a
\* card that is not on screen.
PopupTypeOK ==
  /\ subscribed \in BOOLEAN /\ declined \in Age /\ refuses \in BOOLEAN
  /\ available \in [Screen -> BOOLEAN] /\ reading \in [Screen -> {"site", "newsletter"}]
  /\ open \in [Screen -> BOOLEAN] /\ dismissed \in [Screen -> BOOLEAN]
  /\ armed \in [Screen -> BOOLEAN] /\ knew \in [Screen -> SUBSET Reply]
  /\ \A t \in Screen : ~(armed[t] /\ open[t]) /\ ~(open[t] /\ dismissed[t])

\* In a page loaded after the visitor's answer, nothing is asked while the
\* answer holds: thirty days for "no thanks", for ever for a subscription,
\* whichever tab and whichever form it was given in.
AnswerHolds == \A t \in Screen : knew[t] # {} => ~Asked(t)

\* "Anyone who subscribed, from here or from the footer, is never asked again."
NeverAskedAgain ==
  [][\A t \in Screen : subscribed /\ ~Asked(t) => ~Asked(t)']_popupVars
=================================================================================
