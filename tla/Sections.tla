------------------------------ MODULE Sections ------------------------------
(***************************************************************************)
(* The sections of the site's settings, each with what visitors see and,   *)
(* maybe, a draft (backend/src/settings/settings.service.ts).              *)
(*                                                                         *)
(* A section is a value for each of its parts: a field, or one language of *)
(* a field in several.  What is stored in a part is the number of the edit *)
(* that put it there, 0 for the default.  Each request reads a row, awaits *)
(* and writes it by its key, so that requests overtake each other; late    *)
(* remembers which were overtaken.                                         *)
(*                                                                         *)
(* A definition whose name starts with M_ is a mutated form of the one     *)
(* below it, used only to show that a property fails of that bug.          *)
(***************************************************************************)
EXTENDS Naturals, FiniteSets

CONSTANTS
  Section,    \* keys of the settings
  Part,       \* parts of a section
  Editor,     \* requests that can be in flight at once
  NoSection,  \* "no section"
  NoDraft,    \* draftValue null
  MaxEdits    \* bound: drafts ever saved

ASSUME SectionAssumption == NoSection \notin Section
ASSUME DraftAssumption == NoDraft \notin [Part -> Nat]
ASSUME EditsAssumption == MaxEdits \in Nat

VARIABLES
  \* SiteSettings
  value,      \* what visitors see of a section
  draft,      \* its draftValue
  edits,      \* edits sent so far
  \* The requests.
  task,       \* what a request will do next
  section,    \* the section it is at
  content,    \* what it has read of it, or will make of it
  sent,       \* the parts an update was given
  todo,       \* the sections publishAll has still to publish
  \* History variables.
  saved,      \* the drafts a section ever had
  overtaken,  \* requests whose section was written since they read it
  disturbed   \* publishAll requests with a section of their list so written

settings     == <<value, draft, edits>>
editors      == <<task, section, content, sent, todo>>
sectionsVars == <<settings, editors, saved, overtaken, disturbed>>

Content == [Part -> 0..MaxEdits]
Default == [p \in Part |-> 0]
Task == {"none", "update", "publish", "discard", "all", "allPublish"}

-----------------------------------------------------------------------------
(* State functions *)

Pending == {k \in Section : draft[k] # NoDraft}

\* What the administration shows of a section.
OnScreen(k) == IF draft[k] # NoDraft THEN draft[k] ELSE value[k]

\* What an update starts from.
M_StartsFromPublished(k) == value[k]
Base(k) == IF draft[k] # NoDraft THEN draft[k] ELSE value[k]

\* The parts that were sent, over what there was (mergeLocalized included).
M_Replaces(base, parts, n) == [p \in Part |-> IF p \in parts THEN n ELSE 0]
Merge(base, parts, n) == [p \in Part |-> IF p \in parts THEN n ELSE base[p]]

\* What visitors see once an update is stored.
M_SavesLive(k, c) == [value EXCEPT ![k] = c]
ValueOnUpdate(k, c) == value

\* The draft once it is published.
M_DraftStays(k) == draft
DraftOnPublish(k) == [draft EXCEPT ![k] = NoDraft]

Begin(r, t, k, c, s, d) ==
  /\ task' = [task EXCEPT ![r] = t]
  /\ section' = [section EXCEPT ![r] = k]
  /\ content' = [content EXCEPT ![r] = c]
  /\ sent' = [sent EXCEPT ![r] = s]
  /\ todo' = [todo EXCEPT ![r] = d]
  /\ overtaken' = overtaken \ {r}

End(r) ==
  /\ task' = [task EXCEPT ![r] = "none"]
  /\ section' = [section EXCEPT ![r] = NoSection]
  /\ content' = [content EXCEPT ![r] = Default]
  /\ sent' = [sent EXCEPT ![r] = {}]
  /\ todo' = [todo EXCEPT ![r] = {}]

\* Of the others at the same section, whatever they have read is old.
Overtake(r) ==
  /\ overtaken' = {q \in Editor \ {r} : q \in overtaken \/ section[q] = section[r]}
  /\ disturbed' = {q \in Editor : \/ q # r /\ section[r] \in todo[q]
                                  \/ q \in disturbed /\ (q # r \/ todo[r] # {})}

\* What publishAll has left once it is at a section.
M_KeepsTheList(r, k) == todo[r]
Remaining(r, k) == todo[r] \ {k}

-----------------------------------------------------------------------------
SectionsInit ==
  /\ value = [k \in Section |-> Default]
  /\ draft = [k \in Section |-> NoDraft]
  /\ edits = 0
  /\ task = [r \in Editor |-> "none"]
  /\ section = [r \in Editor |-> NoSection]
  /\ content = [r \in Editor |-> Default]
  /\ sent = [r \in Editor |-> {}]
  /\ todo = [r \in Editor |-> {}]
  /\ saved = [k \in Section |-> {}] /\ overtaken = {} /\ disturbed = {}

\* update: the row is read and the form merged over it.
UpdateRead(r, k, parts) ==
  /\ task[r] = "none" /\ parts # {}
  /\ edits < MaxEdits /\ edits' = edits + 1
  /\ Begin(r, "update", k, Merge(Base(k), parts, edits + 1), parts, {})
  /\ UNCHANGED <<value, draft, saved, disturbed>>

\* The whole draft is written.
UpdateWrite(r) ==
  LET k == section[r] IN
  /\ task[r] = "update"
  /\ draft' = [draft EXCEPT ![k] = content[r]]
  /\ value' = ValueOnUpdate(k, content[r])
  /\ saved' = [saved EXCEPT ![k] = @ \cup {content[r]}]
  /\ End(r) /\ Overtake(r)
  /\ UNCHANGED edits

\* publish, which refuses a section with no draft.
PublishRead(r, k) ==
  /\ task[r] = "none" /\ draft[k] # NoDraft
  /\ Begin(r, "publish", k, draft[k], {}, {})
  /\ UNCHANGED <<settings, saved, disturbed>>

PublishWrite(r) ==
  LET k == section[r] IN
  /\ task[r] = "publish"
  /\ value' = [value EXCEPT ![k] = content[r]]
  /\ draft' = DraftOnPublish(k)
  /\ End(r) /\ Overtake(r)
  /\ UNCHANGED <<edits, saved>>

DiscardRead(r, k) ==
  /\ task[r] = "none" /\ draft[k] # NoDraft
  /\ Begin(r, "discard", k, draft[k], {}, {})
  /\ UNCHANGED <<settings, saved, disturbed>>

DiscardWrite(r) ==
  /\ task[r] = "discard"
  /\ draft' = [draft EXCEPT ![section[r]] = NoDraft]
  /\ End(r) /\ Overtake(r)
  /\ UNCHANGED <<value, edits, saved>>

\* publishAll: the sections that are pending, and then one publish each.
AllRead(r) ==
  /\ task[r] = "none" /\ Pending # {}
  /\ Begin(r, "all", NoSection, Default, {}, Pending)
  /\ UNCHANGED <<settings, saved, disturbed>>

AllPublishRead(r, k) ==
  /\ task[r] = "all" /\ k \in todo[r] /\ draft[k] # NoDraft
  /\ Begin(r, "allPublish", k, draft[k], {}, Remaining(r, k))
  /\ UNCHANGED <<settings, saved, disturbed>>

AllPublishWrite(r) ==
  LET k == section[r] IN
  /\ task[r] = "allPublish"
  /\ value' = [value EXCEPT ![k] = content[r]]
  /\ draft' = DraftOnPublish(k)
  /\ IF todo[r] = {} THEN End(r)
     ELSE /\ task' = [task EXCEPT ![r] = "all"]
          /\ section' = [section EXCEPT ![r] = NoSection]
          /\ content' = [content EXCEPT ![r] = Default]
          /\ UNCHANGED <<sent, todo>>
  /\ Overtake(r)
  /\ UNCHANGED <<edits, saved>>

\* A draft of the list is gone: publish throws, and the rest stay pending.
AllStops(r, k) ==
  /\ task[r] = "all" /\ k \in todo[r] /\ draft[k] = NoDraft
  /\ End(r) /\ overtaken' = overtaken \ {r} /\ disturbed' = disturbed \ {r}
  /\ UNCHANGED <<settings, saved>>

UpdateStarts ==
  \E r \in Editor, k \in Section, parts \in SUBSET Part : UpdateRead(r, k, parts)

SectionsRest ==
  \E r \in Editor :
    \/ UpdateWrite(r)
    \/ \E k \in Section : PublishRead(r, k)
    \/ PublishWrite(r)
    \/ \E k \in Section : DiscardRead(r, k)
    \/ DiscardWrite(r)
    \/ AllRead(r)
    \/ \E k \in Section : AllPublishRead(r, k)
    \/ AllPublishWrite(r)
    \/ \E k \in Section : AllStops(r, k)

SectionsNext == UpdateStarts \/ SectionsRest

SectionsSpec == SectionsInit /\ [][SectionsNext]_sectionsVars

-----------------------------------------------------------------------------
(* Properties *)

SectionsTypeOK ==
  /\ value \in [Section -> Content]
  /\ draft \in [Section -> Content \cup {NoDraft}]
  /\ edits \in 0..MaxEdits
  /\ task \in [Editor -> Task]
  /\ section \in [Editor -> Section \cup {NoSection}]
  /\ content \in [Editor -> Content]
  /\ sent \in [Editor -> SUBSET Part]
  /\ todo \in [Editor -> SUBSET Section]
  /\ saved \in [Section -> SUBSET Content]
  /\ overtaken \subseteq Editor /\ disturbed \subseteq Editor

\* A request that ends with a write.
Writes(r) == task[r] \notin {"none", "all"} /\ task'[r] \in {"none", "all"}

\* "A form that edits one part of a section cannot wipe the rest": unless the
\* section was written since the request read it, an update leaves the other
\* parts as they are on screen, and whatever leaves the draft is published or
\* was what its discard was shown.
NoEditLost ==
  [][\A r \in Editor, k \in Section :
       Writes(r) /\ section[r] = k /\ r \notin overtaken =>
       CASE task[r] = "update" -> \A p \in Part \ sent[r] : OnScreen(k)'[p] = OnScreen(k)[p]
         [] task[r] = "discard" -> content[r] = draft[k]
         [] OTHER -> value'[k] = draft[k]]_sectionsVars

\* "Nothing reaches the public site until publish is called": a section
\* changes for the visitors into a draft that was saved, whole, and only as a
\* draft leaves it.
PublicationIsWhole ==
  [][\A k \in Section : value'[k] # value[k] =>
       value'[k] \in saved[k] /\ draft'[k] = NoDraft]_sectionsVars

\* publishAll stops half way only because another request wrote a section of
\* its list meanwhile.
PublishAllStopsForCause ==
  [][\A r \in Editor : task[r] = "all" /\ task'[r] = "none" => r \in disturbed]_sectionsVars

\* Both: what visitors see changes by whole drafts, and publishAll leaves none
\* of its list behind by itself.
PublicationHolds == PublicationIsWhole /\ PublishAllStopsForCause

\* What the office expects of its sections: no edit is lost but to a save that
\* another one crossed, and a publication is of somebody's edit.
SectionsHold == NoEditLost /\ PublicationHolds
=============================================================================
