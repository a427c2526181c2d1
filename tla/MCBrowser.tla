------------------------------- MODULE MCBrowser -------------------------------
(***************************************************************************)
(* The browser, component by component on small instances: a behaviour is  *)
(* one of a single component, and in the others nobody does anything.  Only*)
(* the page still renders the language it was opened in.  They share no    *)
(* state, so letting several of them move would add interleavings and      *)
(* nothing that a property of any of them can tell apart.                  *)
(***************************************************************************)
EXTENDS Session, Language, Popup, Banner, ScrollLock, TLC

VARIABLE part  \* the component of this behaviour

\* Persons are alike: who left the browser signed in may be any one of them.
LeftBy       == CHOOSE p \in Person : TRUE
SessionRest  == token = Nobody /\ page = "public"
LanguageRest == ~blocked /\ preferred = Default /\ location = [path |-> CHOOSE p \in Path : TRUE,
                                                              lang |-> "absent"]
PopupRest    == ~refuses /\ reading = [t \in Screen |-> "site"]
BannerRest   == published = {} /\ ~sealed

BrowserInit ==
  /\ part \in {"session", "language", "popup", "banner", "scroll lock"}
  /\ SessionInit /\ token \in {Nobody, LeftBy} /\ (part # "session" => SessionRest)
  /\ LanguageInit /\ (part # "language" => LanguageRest)
  /\ PopupInit /\ (part # "popup" => PopupRest)
  /\ BannerInit /\ (part # "banner" => BannerRest)
  /\ ScrollLockInit

BrowserNext ==
  \/ /\ part = "session" /\ SessionNext
     /\ UNCHANGED <<part, languageVars, popupVars, bannerVars, scrollVars>>
  \/ /\ part = "language" /\ LanguageNext
     /\ UNCHANGED <<part, sessionVars, popupVars, bannerVars, scrollVars>>
  \/ /\ part # "language" /\ RenderState
     /\ UNCHANGED <<part, sessionVars, popupVars, bannerVars, scrollVars>>
  \/ /\ part = "popup" /\ PopupNext
     /\ UNCHANGED <<part, sessionVars, languageVars, bannerVars, scrollVars>>
  \/ /\ part = "banner" /\ BannerNext
     /\ UNCHANGED <<part, sessionVars, languageVars, popupVars, scrollVars>>
  \/ /\ part = "scroll lock" /\ ScrollLockNext
     /\ UNCHANGED <<part, sessionVars, languageVars, popupVars, bannerVars>>

BrowserSpec ==
  /\ BrowserInit
  /\ [][BrowserNext]_<<part, sessionVars, languageVars, popupVars, bannerVars, scrollVars>>
  /\ SessionFairness /\ LanguageFairness /\ BannerFairness

\* The types of all five, and who stops the page from scrolling.
BrowserOK ==
  /\ SessionTypeOK /\ LanguageTypeOK /\ PopupTypeOK /\ BannerTypeOK /\ ScrollLockTypeOK
  /\ ScrollFollows

\* What a visitor has told this browser holds: the language of the address he
\* is at, and the answer to the newsletter's card.
VisitorHeard == AddressDecides /\ AnswerHolds

\* What was begun comes to its end: the session's calls, and the renders that
\* follow a choice of language, which is then the language.
BrowserSettles == SessionEnds /\ ChoiceHolds
=============================================================================
