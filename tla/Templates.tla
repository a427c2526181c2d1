-------------------------------- MODULE Templates --------------------------------
(***************************************************************************)
(* The templates of the emails (backend/src/email/templates.service.ts,    *)
(* default-templates.ts, render.ts) and the two screens that change them:  *)
(* the editor (EmailTemplatesAdmin.tsx) and the switches                   *)
(* (NotificationsAdmin.tsx).                                               *)
(*                                                                         *)
(* A behaviour is about one template, as templates never meet.  A text is  *)
(* whoever wrote it.  An update reads the row and writes it in two         *)
(* statements; the read answers a failure of the database with the shipped *)
(* text, for the screen as well as for the update.                         *)
(*                                                                         *)
(* A definition whose name starts with M_ is a mutated form of the one     *)
(* below it, used only to show that a property fails of that bug.          *)
(***************************************************************************)
EXTENDS Naturals

CONSTANTS
  Studied,   \* the templates that are looked at, one in a behaviour
  Typable,   \* the texts somebody may type in
  Writer,    \* people with a screen on the template
  MaxTyping, \* bound: how often a field or the switch is changed
  MaxSends,  \* bound: how many requests are sent
  NoRow      \* the template is not in the table

VARIABLES
  template,  \* which of the templates it is
  wording,    \* its row
  tab,       \* the screen of each writer
  onScreen,     \* the template as a screen has fetched it
  drafted,     \* what the editor's fields hold
  renews,    \* a screen is fetching the template again
  job,       \* the request of each writer and how far it is
  input,     \* what that request sends
  readWords,      \* the texts as its update, or its test, read them
  \* History variables.
  typing,    \* how often something was changed in an editor
  sends,     \* how many requests were sent
  behind,  \* the row was written since a screen fetched it, or it fetched no row
  passedBy,   \* the same of a request, or its own read failed
  wanted,    \* what its author had changed: texts, and the switch
  chosen     \* somebody has switched the email on

requestVars   == <<job, input, readWords, passedBy, wanted>>
screenVars    == <<tab, onScreen, drafted, renews, behind>>
templatesVars == <<template, wording, typing, sends, chosen, screenVars, requestVars>>

-----------------------------------------------------------------------------
(* The shipped templates and the row *)

Field  == {"subject", "html", "text"}
Tongue == {"fr", "ar"}
Cell   == Field \X Tongue
OnOff == <<"on", "">>  \* beside the texts

\* DEFAULT_TEMPLATES: which may not be switched off, which ship switched off,
\* and which are for the team, who read French.
TemplateKey ==
  {"contact_ack", "contact_notify", "test", "newsletter_confirm", "newsletter_welcome",
   "newsletter_subscribed", "campaign_completed"}
RequiredKey == {"test", "newsletter_confirm"}
OffAtFirst  == {"newsletter_welcome", "newsletter_subscribed"}
ForTheTeam  == {"contact_notify", "test", "newsletter_subscribed", "campaign_completed"}

ASSUME StudiedAssumption == Studied \subseteq TemplateKey /\ Typable \subseteq Cell
ASSUME TypingAssumption == MaxTyping \in Nat /\ MaxSends \in Nat

Text == {"blank", "shipped"} \cup Writer

ShippedWords ==
  [c \in Cell |-> IF c[2] = "ar" /\ template \in ForTheTeam THEN "blank" ELSE "shipped"]
ShippedOn    == template \notin OffAtFirst
ShippedRow   == [words |-> ShippedWords, on |-> ShippedOn]

\* view: the row, or what ships where there is none.
View(row) ==
  [words |-> IF row = NoRow THEN ShippedWords ELSE row.words,
   on |-> template \in RequiredKey \/ IF row = NoRow THEN ShippedOn ELSE row.on]

\* get: a read that fails reads no row.
Got == {View(wording), View(NoRow)}

\* renderView: the language a template is written in, and what is read there.
Effective(words, l) == IF words[<<"html", l>>] # "blank" THEN l ELSE "fr"
Pick(words, f, l) ==
  IF words[<<f, l>>] # "blank" THEN words[<<f, l>>] ELSE words[<<f, "fr">>]
Rendered(words, l) == [f \in Field |-> Pick(words, f, Effective(words, l))]

\* update: a text in French that no other language can replace.
M_HtmlOnly(words) == words[<<"html", "fr">>] # "blank"
HasFrench(words) == \A f \in {"subject", "html"} : words[<<f, "fr">>] # "blank"

\* mergeLocalized leaves nothing of a text emptied in every language, and the
\* column takes no null.
HasText(words) == \E l \in Tongue : words[<<"text", l>>] # "blank"

-----------------------------------------------------------------------------
(* Screens *)

NoWords == [c \in Cell |-> "blank"]
NoView  == [words |-> NoWords, on |-> FALSE]

Altered(w) == drafted[w] # onScreen[w]

TemplatesInit ==
  /\ template \in Studied
  /\ wording = NoRow
  /\ tab = [w \in Writer |-> "none"]
  /\ onScreen = [w \in Writer |-> NoView]
  /\ drafted = [w \in Writer |-> NoView]
  /\ renews = [w \in Writer |-> FALSE]
  /\ job = [w \in Writer |-> "none"]
  /\ input = [w \in Writer |-> NoView]
  /\ readWords = [w \in Writer |-> NoWords]
  /\ typing = 0 /\ sends = 0
  /\ behind = [w \in Writer |-> FALSE]
  /\ passedBy = [w \in Writer |-> FALSE]
  /\ chosen = FALSE
  /\ wanted = [w \in Writer |-> {}]

Fetches(w, view) ==
  /\ onScreen' = [onScreen EXCEPT ![w] = view]
  /\ behind' = [behind EXCEPT ![w] = view # View(wording)]
  /\ renews' = [renews EXCEPT ![w] = FALSE]
  \* The effect on query.data: only data that is not the same replaces the draft.
  /\ drafted' = IF view # onScreen[w] THEN [drafted EXCEPT ![w] = view] ELSE drafted

OpenTemplate(w) ==
  /\ tab[w] = "none"
  /\ \E view \in Got : Fetches(w, view)
  /\ tab' = [tab EXCEPT ![w] = "editor"]
  /\ UNCHANGED <<template, wording, typing, sends, chosen, requestVars>>

\* list: a failure is an error on the screen.
OpenNotifications(w) ==
  /\ tab[w] = "none" /\ Fetches(w, View(wording))
  /\ tab' = [tab EXCEPT ![w] = "notifications"]
  /\ UNCHANGED <<template, wording, typing, sends, chosen, requestVars>>

FetchedAgain(w) ==
  /\ renews[w]
  /\ \E view \in IF tab[w] = "editor" THEN Got ELSE {View(wording)} : Fetches(w, view)
  /\ UNCHANGED <<template, wording, tab, typing, sends, chosen, requestVars>>

LeaveScreen(w) ==
  /\ tab[w] # "none" /\ job[w] = "none"
  /\ tab' = [tab EXCEPT ![w] = "none"]
  /\ onScreen' = [onScreen EXCEPT ![w] = NoView]
  /\ drafted' = [drafted EXCEPT ![w] = NoView]
  /\ renews' = [renews EXCEPT ![w] = FALSE]
  /\ behind' = [behind EXCEPT ![w] = FALSE]
  /\ UNCHANGED <<template, wording, typing, sends, chosen, requestVars>>

TypeWords(w, c, t) ==
  /\ tab[w] = "editor" /\ typing < MaxTyping /\ drafted[w].words[c] # t
  /\ drafted' = [drafted EXCEPT ![w].words[c] = t]
  /\ typing' = typing + 1
  /\ UNCHANGED <<template, wording, sends, chosen, tab, onScreen, renews, behind, requestVars>>

TickActive(w) ==
  /\ tab[w] = "editor" /\ template \notin RequiredKey /\ typing < MaxTyping
  /\ drafted' = [drafted EXCEPT ![w].on = ~@]
  /\ typing' = typing + 1
  /\ UNCHANGED <<template, wording, sends, chosen, tab, onScreen, renews, behind, requestVars>>

-----------------------------------------------------------------------------
(* Requests *)

Sends(w, kind, what) ==
  /\ job[w] = "none" /\ sends < MaxSends
  /\ job' = [job EXCEPT ![w] = kind]
  /\ sends' = sends + 1
  /\ input' = [input EXCEPT ![w] = what]
  /\ passedBy' = [passedBy EXCEPT ![w] = behind[w]]
  /\ wanted' = [wanted EXCEPT ![w] = {c \in Cell : what.words[c] # onScreen[w].words[c]}
                                       \cup {OnOff : o \in {what.on} \ {onScreen[w].on}}]
  /\ UNCHANGED <<template, wording, typing, chosen, screenVars, readWords>>

SaveTemplate(w) == tab[w] = "editor" /\ Altered(w) /\ Sends(w, "save", drafted[w])

\* NotificationsAdmin sends the switch and nothing else.
ToggleTemplate(w) ==
  /\ tab[w] = "notifications" /\ template \notin RequiredKey
  /\ Sends(w, "toggle", [onScreen[w] EXCEPT !.on = ~@])

ResetTemplate(w) == tab[w] = "editor" /\ Sends(w, "reset", View(NoRow))

\* A test sends what is stored, so a draft that is not stored has none.
M_TestWhileDirty(w) == TRUE
MayTest(w) == ~Altered(w)
TestTemplate(w) == tab[w] = "editor" /\ MayTest(w) /\ Sends(w, "test", drafted[w])

Ended(w) ==
  /\ job' = [job EXCEPT ![w] = "none"]
  /\ input' = [input EXCEPT ![w] = NoView]
  /\ readWords' = [readWords EXCEPT ![w] = NoWords]
  /\ wanted' = [wanted EXCEPT ![w] = {}]

WritesTemplate(w, row) ==
  /\ wording' = row
  /\ Ended(w)
  /\ renews' = [renews EXCEPT ![w] = TRUE]
  /\ behind' = [v \in Writer |-> tab[v] # "none"]
  /\ passedBy' = [v \in Writer |-> v # w /\ (passedBy[v] \/ job[v] \notin {"none", "tested"})]
  /\ UNCHANGED <<template, typing, sends, tab, onScreen, drafted>>

\* update, up to the answer of its read.
UpdateReadTemplate(w) ==
  /\ job[w] \in {"save", "toggle"}
  /\ \E view \in Got :
       /\ readWords' = [readWords EXCEPT ![w] = view.words]
       /\ passedBy' = [passedBy EXCEPT ![w] = @ \/ view # View(wording)]
  /\ job' = [job EXCEPT ![w] = IF @ = "save" THEN "save read" ELSE "toggle read"]
  /\ UNCHANGED <<template, wording, typing, sends, chosen, screenVars, input, wanted>>

\* The editor sends every text, and a blank one deletes its language; a switch
\* leaves the texts as they were read.
MergedWords(w) == IF job[w] = "save read" THEN input[w].words ELSE readWords[w]

UpdateWriteTemplate(w) ==
  /\ job[w] \in {"save read", "toggle read"}
  /\ HasFrench(MergedWords(w)) /\ HasText(MergedWords(w))
  /\ WritesTemplate(w, [words |-> MergedWords(w), on |-> input[w].on])
  /\ chosen' = (chosen \/ OnOff \in wanted[w])

\* French is missing, the column refuses, or the database fails; the end of a
\* test, whatever its answer.
EndsWithoutWriting(w) ==
  /\ job[w] # "none" /\ Ended(w)
  /\ passedBy' = [passedBy EXCEPT ![w] = FALSE]
  /\ UNCHANGED <<template, wording, typing, sends, chosen, screenVars>>

\* reset: the texts; a row it has to create is switched on by the schema.
M_SwitchesOn(row) == TRUE
OnAfterReset(row) == IF row = NoRow THEN TRUE ELSE row.on

ResetWrites(w) ==
  /\ job[w] = "reset"
  /\ WritesTemplate(w, [words |-> ShippedWords, on |-> OnAfterReset(wording)])
  /\ chosen' = (chosen \/ wording = NoRow)

\* testTemplate: the preview of what is read, and nothing is written.
TestSends(w) ==
  /\ job[w] = "test"
  /\ \E view \in Got :
       /\ readWords' = [readWords EXCEPT ![w] = view.words]
       /\ passedBy' = [passedBy EXCEPT ![w] = @ \/ view # View(wording)]
  /\ job' = [job EXCEPT ![w] = "tested"]
  /\ UNCHANGED <<template, wording, typing, sends, chosen, screenVars, input, wanted>>

\* onModuleInit: a template that is not there yet is stored as it ships.
M_PutsBackTheShipped == ShippedRow
SeededRow == IF wording = NoRow THEN ShippedRow ELSE wording

\* The process starts: what was in flight is lost, and the seed may fail.
Boot ==
  /\ wording' \in {wording, SeededRow}
  /\ behind' = [w \in Writer |-> tab[w] # "none" /\ (behind[w] \/ wording' # wording)]
  /\ job' = [w \in Writer |-> "none"]
  /\ input' = [w \in Writer |-> NoView]
  /\ readWords' = [w \in Writer |-> NoWords]
  /\ passedBy' = [w \in Writer |-> FALSE]
  /\ wanted' = [w \in Writer |-> {}]
  /\ UNCHANGED <<template, typing, sends, chosen, tab, onScreen, drafted, renews>>

TemplatesNext ==
  \/ Boot
  \/ \E w \in Writer :
       \/ OpenTemplate(w) \/ OpenNotifications(w) \/ FetchedAgain(w) \/ LeaveScreen(w)
       \/ \E c \in Typable, t \in {"blank", w} : TypeWords(w, c, t)
       \/ TickActive(w) \/ SaveTemplate(w) \/ ToggleTemplate(w) \/ ResetTemplate(w)
       \/ TestTemplate(w) \/ UpdateReadTemplate(w) \/ UpdateWriteTemplate(w) \/ EndsWithoutWriting(w)
       \/ ResetWrites(w) \/ TestSends(w)

TemplatesSpec == TemplatesInit /\ [][TemplatesNext]_templatesVars

-----------------------------------------------------------------------------
(* Properties *)

Wordings == [words : [Cell -> Text], on : BOOLEAN]

TemplatesTypeOK ==
  /\ template \in TemplateKey /\ (wording = NoRow \/ wording \in Wordings)
  /\ tab \in [Writer -> {"none", "editor", "notifications"}]
  /\ \A w \in Writer : {onScreen[w], drafted[w], input[w]} \subseteq Wordings
  /\ \A w \in Writer : readWords[w] \in [Cell -> Text] /\ wanted[w] \subseteq Cell \cup {OnOff}
  /\ job \in [Writer -> {"none", "save", "toggle", "reset", "test", "save read", "toggle read",
                         "tested"}]
  /\ typing \in 0..MaxTyping /\ sends \in 0..MaxSends /\ chosen \in BOOLEAN
  /\ \A f \in {renews, behind, passedBy} : f \in [Writer -> BOOLEAN]

\* An email never goes out without a subject or a content, whatever languages
\* were emptied by whom.
NeverBlank ==
  \A l \in Tongue, f \in {"subject", "html"} : Rendered(View(wording).words, l)[f] # "blank"

\* An email that ships switched off is sent only once somebody has decided so;
\* resetting the wording of a row that is missing counts as such a decision.
OffUntilChosen == ShippedOn \/ chosen \/ ~View(wording).on

\* A test sends what the editor showed, unless the template was written since
\* the editor fetched it or a read of it failed.
TestIsShown ==
  \A w \in Writer : job[w] = "tested" /\ ~passedBy[w] => readWords[w] = input[w].words

TemplatesHold == NeverBlank /\ OffUntilChosen /\ TestIsShown

\* The request of a writer is written, or the template is reset.
ResetNow(w) == job[w] = "reset" /\ job'[w] = "none"
WriteNow(w) == job[w] \in {"save read", "toggle read"} /\ job'[w] = "none"

\* The association's wording and its choice of what is sent change only by a
\* reset, or by a request of somebody who changed that very text or switch,
\* unless that request crossed another or read nothing.
WordingKept ==
  [][wording # NoRow =>
       /\ \A c \in Cell :
            wording'.words[c] # wording.words[c] =>
              \E w \in Writer : ResetNow(w) \/ (WriteNow(w) /\ (c \in wanted[w] \/ passedBy[w]))
       /\ wording'.on # wording.on =>
            \E w \in Writer : WriteNow(w) /\ (OnOff \in wanted[w] \/ passedBy[w])]_templatesVars
=================================================================================
