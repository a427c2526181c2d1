-------------------------------- MODULE Catalogue --------------------------------
(***************************************************************************)
(* The forms of the missions, the partners, the figures, the ways to give  *)
(* and the albums (frontend pages/admin/MissionsAdmin.tsx and its          *)
(* siblings, lib/pendingImage.ts) with the update of their services        *)
(* (backend/src/missions/missions.service.ts and its siblings,             *)
(* common/sanitize.ts).                                                    *)
(*                                                                         *)
(* A behaviour is about one row of one kind.  A form opens on the row as   *)
(* the list shows it, a missing icon as the first of the options, and sends*)
(* every field; an update reads the row, merges the languages into what it *)
(* read, and writes.  A text is whoever wrote it; a file that somebody     *)
(* picked is that person until it is uploaded.                             *)
(*                                                                         *)
(* A definition whose name starts with M_ is a mutated form of the one     *)
(* below it, used only to show that a property fails of that bug.          *)
(***************************************************************************)
EXTENDS Naturals, FiniteSets

CONSTANTS
  Curator,    \* people with the screen
  Touched,    \* the fields of each kind that somebody changes
  Photo,      \* the files of the library
  MaxChanges, \* bound: how often a field is changed
  MaxCalls,   \* bound: how many requests are sent
  NoEntry     \* no such row

ASSUME PeopleAssumption == IsFiniteSet(Curator) /\ IsFiniteSet(Photo)
ASSUME PhotoAssumption == Photo \cap (Curator \cup {"blank", "earlier"}) = {}
ASSUME ChangesAssumption == MaxChanges \in Nat /\ MaxCalls \in Nat

VARIABLES
  entryKind,     \* of the row
  entry,    \* the row
  uploads,  \* the files that were uploaded
  listed,   \* the row in the list of each screen
  dialogForm,     \* its form: "closed", "edit" or "create"
  values,   \* what the fields hold
  opened,   \* the row as the list showed it when the form was opened
  call,     \* the request under way
  changes,  \* how often a field was changed
  sentCalls,    \* how many requests were sent
  \* History variables.
  worn,     \* the files the row has had
  failures  \* the uploads whose save failed

catalogueVars ==
  <<entryKind, entry, uploads, listed, dialogForm, values, opened, call, changes, sentCalls, worn, failures>>

-----------------------------------------------------------------------------
(* The fields of each kind *)

\* A "figure" stands for the ways to give as well, which have the same fields.
EntryKind == {"mission", "partner", "figure", "album"}

\* `more` is the long form of a mission and the description of an album, `link`
\* what is stored as null once emptied: an address, the pictogram of a figure.
\* The icon of a mission or a partner is one of its options.
Title     == {<<"title", "fr">>, <<"title", "ar">>}
More      == {<<"more", "fr">>, <<"more", "ar">>}
LinkField      == <<"link", "">>
Icon      == <<"icon", "">>
Image     == <<"image", "">>
Published == <<"published", "">>

MissionFields == Title \cup More \cup {Icon, Image, Published}
PartnerFields == {LinkField, Icon, Image, Published}
FigureFields  == Title \cup {LinkField, Published}
AlbumFields   == Title \cup More \cup {Published}

Fields ==
  [mission |-> MissionFields, partner |-> PartnerFields,
   figure |-> FigureFields, album |-> AlbumFields][entryKind]

Typed == Curator \cup {"blank", "earlier"}

\* What a field may hold, on a form or in the table.
Values(c) ==
  IF c = Published THEN BOOLEAN ELSE IF c = Image THEN Typed \cup Photo
  ELSE IF c = Icon THEN Typed \cup {"first"} ELSE Typed

\* EMPTY_FORM
EmptyForm ==
  [c \in Fields |-> IF c = Published THEN TRUE ELSE IF c = Icon THEN "first" ELSE "blank"]

\* openEdit: what the form of a row holds, the first option for a missing icon.
FormOf(r) == [c \in Fields |-> IF c = Icon /\ r[c] = "blank" THEN "first" ELSE r[c]]

\* The title is asked for in French, where there is one.
Complete(f) == Title \subseteq Fields => f[<<"title", "fr">>] # "blank"

\* IsLocalizedText: a long form has its French, or is cleared as a whole.
Cleared(f) == \A c \in More : f[c] = "blank"
Accepted(f) == entryKind = "mission" /\ ~Cleared(f) => f[<<"more", "fr">>] # "blank"

-----------------------------------------------------------------------------
(* What a service makes of a form *)

\* cleanLocalized leaves out a blank language, mergeLocalized keeps what is not
\* sent; a description without any is not sent, a long form without any is null.
M_ReplacesLanguages(old, f, c) == f[c]
Merged(old, f, c) ==
  IF c \notin Title \cup More \/ f[c] # "blank" THEN f[c]
  ELSE IF entryKind = "mission" /\ c \in More /\ Cleared(f) THEN "blank" ELSE old[c]

\* imageId: the file that was uploaded, or the one the form was opened with.
M_IdBeforeTheUpload(f, v) == IF f[Image] \in Curator THEN "blank" ELSE f[Image]
ImageId(f, v) == v

-----------------------------------------------------------------------------
(* Screens *)

\* What a request is of, how far it is, what it sends, what its author was shown
\* and what its update has read.
Idle == [of |-> "none", step |-> "none", sent |-> NoEntry, seen |-> NoEntry, base |-> NoEntry]

CatalogueInit ==
  /\ entryKind \in EntryKind
  /\ \E icon \in {"blank", "earlier"} :
       entry = [c \in Fields |-> IF c = Published THEN FALSE ELSE IF c = Icon THEN icon
                                 ELSE IF c = Image \/ c[2] = "ar" THEN "blank" ELSE "earlier"]
  /\ uploads = {} /\ worn = {}
  /\ listed = [d \in Curator |-> entry]
  /\ dialogForm = [d \in Curator |-> "closed"]
  /\ values = [d \in Curator |-> EmptyForm]
  /\ opened = [d \in Curator |-> EmptyForm]
  /\ call = [d \in Curator |-> Idle]
  /\ changes = 0 /\ sentCalls = 0 /\ failures = 0

\* The list is fetched: the screen is opened, or an action succeeded.
FetchList(d) ==
  /\ listed[d] # entry
  /\ listed' = [listed EXCEPT ![d] = entry]
  /\ UNCHANGED <<entryKind, entry, uploads, dialogForm, values, opened, call, changes, sentCalls, worn, failures>>

Opens(d, as, row) ==
  /\ dialogForm' = [dialogForm EXCEPT ![d] = as]
  /\ values' = [values EXCEPT ![d] = FormOf(row)]
  /\ opened' = [opened EXCEPT ![d] = row]

\* A row that is created beside this one is not looked at.
OpenForm(d) ==
  /\ dialogForm[d] = "closed"
  /\ \/ listed[d] # NoEntry /\ Opens(d, "edit", listed[d])
     \/ entry = NoEntry /\ Opens(d, "create", EmptyForm)
  /\ UNCHANGED <<entryKind, entry, uploads, listed, call, changes, sentCalls, worn, failures>>

\* Cancel waits for a save, Escape does not.
CloseForm(d) ==
  /\ dialogForm[d] # "closed" /\ Opens(d, "closed", EmptyForm)
  /\ UNCHANGED <<entryKind, entry, uploads, listed, call, changes, sentCalls, worn, failures>>

\* A field is changed; a file is picked, taken from the library or removed.
ChangeField(d, c) ==
  /\ dialogForm[d] # "closed" /\ changes < MaxChanges
  /\ \E v \in CASE c = Published -> BOOLEAN
                [] c = Image     -> {d, "blank"} \cup uploads
                [] c = Icon      -> {d, "first"}
                [] OTHER         -> {d, "blank"} :
       v # values[d][c] /\ values' = [values EXCEPT ![d][c] = v]
  /\ changes' = changes + 1
  /\ UNCHANGED <<entryKind, entry, uploads, listed, dialogForm, opened, call, sentCalls, worn, failures>>

-----------------------------------------------------------------------------
(* Requests *)

Calls(d, of, step, sent, seen) ==
  /\ call[d] = Idle /\ sentCalls < MaxCalls
  /\ call' = [call EXCEPT ![d] =
       [of |-> of, step |-> step, sent |-> sent, seen |-> seen, base |-> NoEntry]]
  /\ sentCalls' = sentCalls + 1

SubmitForm(d) ==
  /\ dialogForm[d] # "closed" /\ Complete(values[d])
  /\ Calls(d, dialogForm[d], IF Image \in Fields /\ values[d][Image] \in Curator THEN "upload" ELSE "sent",
           values[d], opened[d])
  /\ UNCHANGED <<entryKind, entry, uploads, listed, dialogForm, values, opened, changes, worn, failures>>

\* commitImage: the file that was picked reaches the library with the save.
UploadPicked(d) ==
  /\ call[d].step = "upload"
  /\ \E p \in Photo \ uploads :
       /\ uploads' = uploads \cup {p}
       /\ call' = [call EXCEPT ![d].sent[Image] = ImageId(call[d].sent, p), ![d].step = "sent"]
  /\ UNCHANGED <<entryKind, entry, listed, dialogForm, values, opened, changes, sentCalls, worn, failures>>

TogglePublished(d) ==
  /\ dialogForm[d] = "closed" /\ listed[d] # NoEntry
  /\ Calls(d, "toggle", "sent", [listed[d] EXCEPT ![Published] = ~@], listed[d])
  /\ UNCHANGED <<entryKind, entry, uploads, listed, dialogForm, values, opened, changes, worn, failures>>

\* update, up to the answer of findOne; what is not accepted never gets there.
ReadEntry(d) ==
  /\ call[d].step = "sent" /\ call[d].of \in {"edit", "toggle"} /\ entry # NoEntry
  /\ call[d].of = "edit" => Accepted(call[d].sent)
  /\ call' = [call EXCEPT ![d].base = entry, ![d].step = "read"]
  /\ UNCHANGED <<entryKind, entry, uploads, listed, dialogForm, values, opened, changes, sentCalls, worn, failures>>

\* The form closes with the answer, whichever form it is by now; it stays when
\* the answer is lost.
Answered(d) ==
  /\ call' = [call EXCEPT ![d] = Idle]
  /\ \/ Opens(d, "closed", EmptyForm)
     \/ UNCHANGED <<dialogForm, values, opened>>

Wears(row) == worn' = worn \cup ({row[c] : c \in Fields \cap {Image}} \cap Photo)

WriteEntry(d) ==
  /\ call[d].of = "edit" /\ call[d].step = "read" /\ entry # NoEntry
  /\ entry' = [c \in Fields |-> Merged(call[d].base, call[d].sent, c)]
  /\ Wears(entry') /\ Answered(d)
  /\ UNCHANGED <<entryKind, uploads, listed, changes, sentCalls, failures>>

\* A toggle sends its column alone.
WriteToggle(d) ==
  /\ call[d].of = "toggle" /\ call[d].step = "read" /\ entry # NoEntry
  /\ entry' = [entry EXCEPT ![Published] = call[d].sent[Published]]
  /\ call' = [call EXCEPT ![d] = Idle]
  /\ UNCHANGED <<entryKind, uploads, listed, dialogForm, values, opened, changes, sentCalls, worn, failures>>

\* create: this row, or another one when somebody has created it meanwhile.
CreateEntry(d) ==
  /\ call[d].of = "create" /\ call[d].step = "sent" /\ Accepted(call[d].sent)
  /\ entry' = IF entry = NoEntry THEN call[d].sent ELSE entry
  /\ Wears(call[d].sent) /\ Answered(d)
  /\ UNCHANGED <<entryKind, uploads, listed, changes, sentCalls, failures>>

\* The saves whose file is in the library and was never on the row.
Saving == {d \in Curator : call[d].of \in {"edit", "create"} /\ call[d].step \in {"sent", "read"}
                           /\ Image \in Fields /\ call[d].sent[Image] \in Photo \ worn}

\* An upload, a check, the network or the database fails: a notice, and the
\* form stays with the file it holds.
CallFails(d) ==
  /\ call[d] # Idle
  /\ call' = [call EXCEPT ![d] = Idle]
  /\ failures' = IF d \in Saving THEN failures + 1 ELSE failures
  /\ UNCHANGED <<entryKind, entry, uploads, listed, dialogForm, values, opened, changes, sentCalls, worn>>

RemoveEntry(d) ==
  /\ dialogForm[d] = "closed" /\ listed[d] # NoEntry /\ entry # NoEntry
  /\ entry' = NoEntry
  /\ UNCHANGED <<entryKind, uploads, listed, dialogForm, values, opened, call, changes, sentCalls, worn, failures>>

CatalogueNext ==
  \E d \in Curator :
    \/ FetchList(d) \/ OpenForm(d) \/ CloseForm(d)
    \/ \E c \in Fields \cap Touched[entryKind] : ChangeField(d, c)
    \/ SubmitForm(d) \/ UploadPicked(d)
    \/ Published \in Touched[entryKind] /\ TogglePublished(d)
    \/ ReadEntry(d) \/ WriteEntry(d) \/ WriteToggle(d) \/ CreateEntry(d) \/ CallFails(d)
    \/ RemoveEntry(d)

CatalogueSpec == CatalogueInit /\ [][CatalogueNext]_catalogueVars

-----------------------------------------------------------------------------
(* Properties *)

IsRow(r) == DOMAIN r = Fields /\ \A c \in Fields : r[c] \in Values(c)

CatalogueTypeOK ==
  /\ entryKind \in EntryKind /\ (entry = NoEntry \/ IsRow(entry))
  /\ worn \subseteq uploads /\ uploads \subseteq Photo
  /\ \A d \in Curator :
       /\ listed[d] = NoEntry \/ IsRow(listed[d])
       /\ IsRow(values[d]) /\ IsRow(opened[d])
       /\ dialogForm[d] \in {"closed", "edit", "create"}
       /\ call[d].of \in {"none", "edit", "create", "toggle"}
       /\ call[d].step \in {"none", "upload", "sent", "read"}
  /\ changes \in 0..MaxChanges /\ sentCalls \in 0..MaxCalls /\ failures \in 0..MaxCalls

\* A file reaches the library only with a save, and stays there unused only if
\* that save failed: changing one's mind leaves nothing behind.
FewStrays == Cardinality(uploads \ worn) <= failures + Cardinality(Saving)

WritesNow(d) == call[d].step = "read" /\ call'[d] = Idle

\* What the request of a curator may do to a field.
Authored(d, c) ==
  \/ call[d].sent[c] # FormOf(call[d].seen)[c]
  \/ entry[c] # call[d].seen[c] \/ entry[c] # call[d].base[c]
Fills(c) == c = Icon /\ entry[c] = "blank" /\ entry'[c] = "first"
Erases(d, c) == call[d].base[c] = "blank" \/ (c \in More /\ Cleared(call[d].sent))

\* A field changes only by a request whose author changed that very field, or
\* was shown another value of it, or whose update had read another one, but for
\* an icon that was missing, which every save of the form fills with the first
\* option, chosen by nobody; and a
\* language is gone only by clearing a long form as a whole, or by an update
\* that had read the row before that language was added: never by a form that
\* was opened before.
CatalogueKept ==
  [][entry # NoEntry /\ entry' # NoEntry =>
       \A c \in Fields : entry'[c] # entry[c] =>
         \E d \in Curator :
           /\ WritesNow(d) /\ (Authored(d, c) \/ Fills(c))
           /\ (c \in Title \cup More /\ entry'[c] = "blank") => Erases(d, c)]_catalogueVars
=================================================================================
