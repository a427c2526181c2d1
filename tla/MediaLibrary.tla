---------------------------- MODULE MediaLibrary ----------------------------
(***************************************************************************)
(* The media library (backend/src/media/media.service.ts), beside the      *)
(* sections of the settings, which refer to its images by id inside JSON.  *)
(*                                                                         *)
(* An image is an object in the storage and a row in the database, with no *)
(* transaction over both; missions, articles, partners and galleries refer *)
(* to the row by a foreign key, the sections and the campaigns by an id in *)
(* their JSON, which the library looks for in the sections only.  Any      *)
(* request may stop between two steps, by an error or with the process.    *)
(*                                                                         *)
(* A definition whose name starts with M_ is a mutated form of the one     *)
(* below it, used only to show that a property fails of that bug.          *)
(***************************************************************************)
EXTENDS Sections

CONSTANTS
  Media,      \* images, each with an id and a storage key of its own
  NoMedia,    \* "no image"
  Librarian,  \* requests to the library that can be in flight at once
  MaxCrashes  \* bound: times the process stops

ASSUME MediaAssumption == NoMedia \notin Media
ASSUME CrashAssumption == MaxCrashes \in Nat

VARIABLES
  object,     \* images whose object is in the storage
  row,        \* images whose row is in the database
  linked,     \* images some content refers to by a foreign key
  mailed,     \* images in the blocks of a campaign
  picture,    \* of an edit of a section: the image it refers to
  \* The requests.
  job,        \* what a request will do next
  item,       \* the image it is at
  orphans,    \* the images a purge has still to delete
  \* History variables.
  known,      \* images that were ever uploaded
  claimed,    \* of a request: images that came into use since it looked
  halfway,    \* images left with one of row and object by a stopped request
  crashes     \* times the process stopped

library   == <<object, row, linked, mailed, picture>>
jobs      == <<job, item, orphans>>
traces    == <<known, claimed, halfway, crashes>>
mediaVars == <<sectionsVars, library, jobs, traces>>

Job == {"none", "register", "remove", "purge", "purgeSettings", "removeRow", "purgeObject", "purgeRow"}

-----------------------------------------------------------------------------
(* State functions *)

\* Images a section refers to, in what is published or in its draft.
PicturesOf(c) == {picture[n] : n \in {c[p] : p \in Part} \ {0}}
InDraft == UNION {PicturesOf(draft[k]) : k \in Pending}
Online == UNION {PicturesOf(value[k]) : k \in Section}
InSettings == (InDraft \cup Online) \ {NoMedia}

InUse == linked \cup InSettings \cup mailed
OnlyMailed == mailed \ (linked \cup InSettings)

\* usageFor counts a draft: the file is about to go live.
M_IgnoresDrafts == Online
SeenInSettings == InSettings

\* countUsage, for remove, asks the tables and not the settings.
M_ForgetsContent(m) == FALSE
CountedInUse(m) == m \in linked

\* The rows once the row of m is deleted.
M_RowStays(m) == row
RowsWithout(m) == row \ {m}

AtWork(q, j, m, o) ==
  /\ job' = [job EXCEPT ![q] = j]
  /\ item' = [item EXCEPT ![q] = m]
  /\ orphans' = [orphans EXCEPT ![q] = o]

Done(q) == AtWork(q, "none", NoMedia, {})

\* Images that come into one more use in a step, for the requests that have looked.
Claims ==
  claimed' = [q \in Librarian |->
    IF job'[q] = "none" THEN {} ELSE
    IF job[q] = "none" THEN {}
    ELSE claimed[q] \cup (linked' \ linked) \cup (InSettings' \ InSettings) \cup (mailed' \ mailed)]

NoClaim ==
  claimed' = [q \in Librarian |-> IF job'[q] = "none" THEN {} ELSE claimed[q]]

-----------------------------------------------------------------------------
MediaInit ==
  /\ SectionsInit
  /\ object = {} /\ row = {} /\ linked = {} /\ mailed = {}
  /\ picture = [n \in 1..MaxEdits |-> NoMedia]
  /\ job = [q \in Librarian |-> "none"]
  /\ item = [q \in Librarian |-> NoMedia]
  /\ orphans = [q \in Librarian |-> {}]
  /\ known = {} /\ halfway = {} /\ crashes = 0
  /\ claimed = [q \in Librarian |-> {}]

\* upload: the object first.
Upload(q, m) ==
  /\ job[q] = "none" /\ m \notin known
  /\ known' = known \cup {m} /\ object' = object \cup {m}
  /\ AtWork(q, "register", m, {})
  /\ NoClaim /\ UNCHANGED <<sectionsVars, row, linked, mailed, picture, halfway, crashes>>

\* Then the row; when it cannot be written the object stays behind.
Register(q) ==
  /\ job[q] = "register"
  /\ \/ row' = row \cup {item[q]} /\ UNCHANGED halfway
     \/ halfway' = halfway \cup {item[q]} /\ UNCHANGED row
  /\ Done(q)
  /\ NoClaim /\ UNCHANGED <<sectionsVars, object, linked, mailed, picture, known, crashes>>

\* Content is saved with the image, or without it any more.  The foreign key
\* refuses an image without a row.
Link(m) ==
  /\ m \in row \ linked /\ linked' = linked \cup {m}
  /\ UNCHANGED <<sectionsVars, object, row, mailed, picture, jobs, known, halfway, crashes>>
  /\ Claims

Unlink(m) ==
  /\ m \in linked /\ linked' = linked \ {m}
  /\ UNCHANGED <<sectionsVars, object, row, mailed, picture, jobs, traces>>

\* A campaign is saved with the image in a block, once its row is found; a
\* draft is saved without it, or removed.
PutInCampaign(m) ==
  /\ m \in row \ mailed /\ mailed' = mailed \cup {m}
  /\ UNCHANGED <<sectionsVars, object, row, linked, picture, jobs, known, halfway, crashes>>
  /\ Claims

TakeFromCampaign(m) ==
  /\ m \in mailed /\ mailed' = mailed \ {m}
  /\ UNCHANGED <<sectionsVars, object, row, linked, picture, jobs, traces>>

\* A section's form is sent with an image its author saw in the library.
UpdateWithPicture(r, k, parts, m) ==
  /\ UpdateRead(r, k, parts)
  /\ m \in row \cup {NoMedia}
  /\ picture' = [picture EXCEPT ![edits + 1] = m]
  /\ UNCHANGED <<object, row, linked, mailed, jobs, traces>>

\* The other steps of the sections.
SectionMoves ==
  /\ SectionsRest
  /\ UNCHANGED <<library, jobs, known, halfway, crashes>>
  /\ Claims

\* remove: the row is found and its usage counted.
Remove(q, m) ==
  /\ job[q] = "none" /\ m \in row /\ ~CountedInUse(m)
  /\ AtWork(q, "remove", m, {})
  /\ NoClaim /\ UNCHANGED <<sectionsVars, library, known, halfway, crashes>>

\* The storage is asked to delete, and its refusal ignored.
RemoveObject(q) ==
  /\ job[q] = "remove"
  /\ \/ object' = object \ {item[q]} /\ UNCHANGED halfway
     \/ halfway' = halfway \cup {item[q]} /\ UNCHANGED object
  /\ AtWork(q, "removeRow", item[q], {})
  /\ NoClaim /\ UNCHANGED <<sectionsVars, row, linked, mailed, picture, known, crashes>>

\* The row goes, and with it every foreign key to it; deleting a row that is
\* gone is an error.
RemoveRow(q) ==
  /\ job[q] = "removeRow"
  /\ row' = RowsWithout(item[q]) /\ linked' = linked \ {item[q]}
  /\ Done(q)
  /\ NoClaim /\ UNCHANGED <<sectionsVars, object, mailed, picture, known, halfway, crashes>>

\* findOrphans asks for all rows and the tables, then for the settings.
Purge(q) ==
  /\ job[q] = "none" /\ row \ linked # {}
  /\ AtWork(q, "purgeSettings", NoMedia, row \ linked)
  /\ NoClaim /\ UNCHANGED <<sectionsVars, library, known, halfway, crashes>>

PurgeSettings(q) ==
  LET o == orphans[q] \ SeenInSettings IN
  /\ job[q] = "purgeSettings"
  /\ IF o = {} THEN Done(q) ELSE AtWork(q, "purge", NoMedia, o)
  /\ NoClaim /\ UNCHANGED <<sectionsVars, library, known, halfway, crashes>>

PurgeObject(q, m) ==
  /\ job[q] = "purge" /\ m \in orphans[q]
  /\ \/ object' = object \ {m} /\ UNCHANGED halfway
     \/ halfway' = halfway \cup {m} /\ UNCHANGED object
  /\ AtWork(q, "purgeRow", m, orphans[q] \ {m})
  /\ NoClaim /\ UNCHANGED <<sectionsVars, row, linked, mailed, picture, known, crashes>>

\* A row that another request has deleted stops the purge.
PurgeRow(q) ==
  /\ job[q] = "purgeRow"
  /\ row' = RowsWithout(item[q]) /\ linked' = linked \ {item[q]}
  /\ IF item[q] \notin row \/ orphans[q] = {} THEN Done(q)
     ELSE AtWork(q, "purge", NoMedia, orphans[q])
  /\ NoClaim /\ UNCHANGED <<sectionsVars, object, mailed, picture, known, halfway, crashes>>

\* The process stops: its requests are gone where they were.
Crash ==
  /\ crashes < MaxCrashes /\ crashes' = crashes + 1
  /\ job' = [q \in Librarian |-> "none"]
  /\ item' = [q \in Librarian |-> NoMedia]
  /\ orphans' = [q \in Librarian |-> {}]
  /\ task' = [r \in Editor |-> "none"]
  /\ section' = [r \in Editor |-> NoSection]
  /\ content' = [r \in Editor |-> Default]
  /\ sent' = [r \in Editor |-> {}] /\ todo' = [r \in Editor |-> {}]
  /\ overtaken' = {} /\ disturbed' = {}
  /\ halfway' = halfway \cup
       {item[q] : q \in {p \in Librarian : job[p] \in {"register", "removeRow", "purgeRow"}}}
  /\ NoClaim /\ UNCHANGED <<settings, saved, library, known>>

LibraryStep(q) ==
  \/ Register(q) \/ RemoveObject(q) \/ RemoveRow(q)
  \/ PurgeSettings(q) \/ (\E m \in Media : PurgeObject(q, m)) \/ PurgeRow(q)

MediaNext ==
  \/ \E q \in Librarian :
       \/ \E m \in Media : Upload(q, m) \/ Remove(q, m)
       \/ Purge(q) \/ LibraryStep(q)
  \/ \E m \in Media : Link(m) \/ Unlink(m) \/ PutInCampaign(m) \/ TakeFromCampaign(m)
  \/ \E r \in Editor, k \in Section, parts \in SUBSET Part, m \in Media \cup {NoMedia} :
       UpdateWithPicture(r, k, parts, m)
  \/ SectionMoves
  \/ Crash

MediaSpec == MediaInit /\ [][MediaNext]_mediaVars

-----------------------------------------------------------------------------
(* Properties *)

MediaTypeOK ==
  /\ object \subseteq Media /\ row \subseteq Media /\ linked \subseteq Media /\ mailed \subseteq Media
  /\ picture \in [1..MaxEdits -> Media \cup {NoMedia}]
  /\ job \in [Librarian -> Job]
  /\ item \in [Librarian -> Media \cup {NoMedia}]
  /\ orphans \in [Librarian -> SUBSET Media]
  /\ known \subseteq Media /\ halfway \subseteq Media
  /\ claimed \in [Librarian -> SUBSET Media] /\ crashes \in 0..MaxCrashes

\* A row has its file and a file its row, but for an image some request is at,
\* and for those a failure or a crash left half way.
FileAndRow ==
  \A m \in Media \ halfway :
    (m \in row <=> m \in object) \/ \E q \in Librarian : item[q] = m

Deletes(q, m) ==
  /\ job[q] \in {"remove", "purge"} /\ job'[q] \in {"removeRow", "purgeRow"}
  /\ item'[q] = m /\ m \in object \ object'

\* The object of an image in use is deleted only by a request that looked before
\* it came into use; by remove under the settings, which it does not count; or
\* where nothing but a campaign shows the image, which nobody counts.
InUseKept ==
  [][\A q \in Librarian, m \in Media : Deletes(q, m) /\ m \in InUse =>
       m \in claimed[q] \/ (job[q] = "remove" /\ m \notin linked) \/ m \in OnlyMailed]_mediaVars

\* "Deletes every unreferenced file. Never touches one still in use": a purge
\* deletes no image that was in use when it looked.
PurgeSparesUsed ==
  [][\A q \in Librarian, m \in Media :
       Deletes(q, m) /\ job[q] = "purge" /\ m \in InUse => m \in claimed[q]]_mediaVars

\* What a section refers to is in the library, unless a deletion that looked
\* before, or that never looks at the settings, took it.
SectionsResolve == InSettings \subseteq row
=============================================================================
