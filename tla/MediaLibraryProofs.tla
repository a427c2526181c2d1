------------------------- MODULE MediaLibraryProofs -------------------------
(***************************************************************************)
(* Proofs about the media library beside the sections of the settings, for *)
(* every set of images, requests and sections and any number of edits and  *)
(* crashes.                                                                *)
(*                                                                         *)
(* An image has its row and its object but while a request is between the  *)
(* two (Paired), and a request that deletes has seen what it deletes out   *)
(* of use, or a claim of it has come since (Looked).  The sections keep    *)
(* their own invariant (SectionsProofs); what is added to it is that no    *)
(* stored content refers to an edit yet to come (Bounded), so that the     *)
(* image of the next edit is not in use before it is saved.                *)
(***************************************************************************)
EXTENDS MediaLibrary, SectionsProofs

Between(q) == job[q] \in {"register", "removeRow", "purgeRow"}
Purging(q) == job[q] \in {"purgeSettings", "purge", "purgeRow"}

\* Of an image nobody stands at, row and object go together.
Paired ==
  \A m \in Media \ halfway :
    (m \in row <=> m \in object) \/ \E q \in Librarian : Between(q) /\ item[q] = m

\* A new image is its uploader's alone; a row is deleted after its object.
Stands(q) ==
  /\ job[q] \in {"register", "remove", "removeRow", "purgeRow"} => item[q] \in Media
  /\ job[q] = "register" =>
       /\ item[q] \in object \ row
       /\ \A p \in Librarian : item[q] \notin orphans[p] /\ (p # q => item[p] # item[q])
  /\ job[q] \in {"removeRow", "purgeRow"} => item[q] \in halfway \/ item[q] \notin object

\* Whatever is anywhere was uploaded.
Uploaded ==
  /\ row \subseteq known /\ object \subseteq known
  /\ \A q \in Librarian : orphans[q] \subseteq known /\ item[q] \in known \cup {NoMedia}

\* What a deletion goes by.
Looked(q) ==
  /\ job[q] = "remove" => item[q] \notin linked \/ item[q] \in claimed[q]
  /\ Purging(q) => \A m \in orphans[q] : m \notin linked \/ m \in claimed[q]
  /\ job[q] \in {"purge", "purgeRow"} =>
       \A m \in orphans[q] : m \notin InSettings \/ m \in claimed[q]

\* A stored content is of edits that were sent.
Sent(c) == \A p \in Part : c[p] <= edits
Bounded ==
  /\ \A k \in Section : Sent(value[k]) /\ (draft[k] # NoDraft => Sent(draft[k]))
  /\ \A r \in Editor : Sent(content[r])

LibraryInv ==
  /\ SectionsInv /\ MediaTypeOK
  /\ Bounded /\ Paired /\ Uploaded
  /\ \A q \in Librarian : Stands(q) /\ Looked(q)

-----------------------------------------------------------------------------
(* The sections and their images *)

\* Some section refers to an image, in what is published or in its draft.
Refers(m) ==
  \E k \in Section, p \in Part :
    \/ value[k][p] # 0 /\ picture[value[k][p]] = m
    \/ draft[k] # NoDraft /\ draft[k][p] # 0 /\ picture[draft[k][p]] = m

LEMMA InSettingsMeans ==
  \A m : m \in InSettings <=> m # NoMedia /\ Refers(m)
<1>1. \A m : m \in Online <=> \E k \in Section, p \in Part :
                               value[k][p] # 0 /\ picture[value[k][p]] = m
  BY DEF Online, PicturesOf
<1>2. \A m : m \in InDraft <=> \E k \in Section, p \in Part :
                draft[k] # NoDraft /\ draft[k][p] # 0 /\ picture[draft[k][p]] = m
  BY DEF InDraft, PicturesOf, Pending
<1>. QED
  BY <1>1, <1>2 DEF InSettings, Refers

\* The same of the next state.
LEMMA InSettingsNext ==
  \A m : m \in InSettings' <=> m # NoMedia /\ Refers(m)'
<1>1. \A m : m \in Online' <=> \E k \in Section, p \in Part :
                               value'[k][p] # 0 /\ picture'[value'[k][p]] = m
  BY DEF Online, PicturesOf
<1>2. \A m : m \in InDraft' <=> \E k \in Section, p \in Part :
                draft'[k] # NoDraft /\ draft'[k][p] # 0 /\ picture'[draft'[k][p]] = m
  BY DEF InDraft, PicturesOf, Pending
<1>. QED
  BY <1>1, <1>2 DEF InSettings, Refers

\* What is used is an image.
LEMMA UsedIsMedia ==
  ASSUME SectionsTypeOK', picture' \in [1..MaxEdits -> Media \cup {NoMedia}]
  PROVE  InSettings' \subseteq Media
<1>1. ASSUME NEW c \in Content, NEW p \in Part, c[p] # 0
      PROVE  picture'[c[p]] \in Media \cup {NoMedia}
  BY <1>1, EditsAssumption DEF Content
<1>2. \A k \in Section : value'[k] \in Content /\ (draft'[k] # NoDraft => draft'[k] \in Content)
  BY DEF SectionsTypeOK
<1>. QED
  BY <1>1, <1>2, InSettingsNext DEF Refers

\* The sections never store what is yet to be sent.
LEMMA BoundedNext ==
  ASSUME SectionsInv, Bounded, SectionsNext
  PROVE  Bounded'
<1>t. SectionsTypeOK
  BY DEF SectionsInv
<1>d. \A n \in Nat : \A p \in Part : Default[p] <= n
  BY DEF Default
<1>. DEFINE Within == /\ edits \in Nat
                      /\ \A k \in Section : value[k] \in Content
                      /\ \A k \in Section : draft[k] # NoDraft => draft[k] \in Content
<1>w. Within
  BY <1>t, EditsAssumption DEF SectionsTypeOK
<1>1. ASSUME NEW r \in Editor, NEW k \in Section, NEW parts \in SUBSET Part, UpdateRead(r, k, parts)
      PROVE  Bounded'
  <2>1. /\ edits' = edits + 1 /\ UNCHANGED <<value, draft>>
        /\ content' = [content EXCEPT ![r] = Merge(Base(k), parts, edits + 1)]
    BY <1>1 DEF UpdateRead, Begin
  <2>2. Base(k) \in Content /\ Sent(Base(k))
    BY <1>t, BaseIsContent DEF Bounded, Base
  <2>3. \A c \in Content : Sent(c) => \A p \in Part : c[p] <= edits + 1
    BY <1>w DEF Sent, Content
  <2>4. \A p \in Part : Merge(Base(k), parts, edits + 1)[p] <= edits + 1
    BY <1>w, <2>2, <2>3 DEF Merge
  <2>5. \A q \in Editor, p \in Part : content'[q][p] <= edits + 1
    BY <1>t, <2>1, <2>3, <2>4 DEF SectionsTypeOK, Bounded
  <2>6. \A q \in Section, p \in Part :
          value[q][p] <= edits + 1 /\ (draft[q] # NoDraft => draft[q][p] <= edits + 1)
    BY <1>w, <2>3 DEF Bounded
  <2>. QED
    BY <2>1, <2>5, <2>6 DEF Bounded, Sent
<1>2. ASSUME NEW r \in Editor, NEW k \in Section,
             PublishRead(r, k) \/ DiscardRead(r, k) \/ AllPublishRead(r, k)
      PROVE  Bounded'
  <2>1. /\ UNCHANGED <<value, draft, edits>> /\ draft[k] # NoDraft
        /\ content' = [content EXCEPT ![r] = draft[k]]
    BY <1>2 DEF PublishRead, DiscardRead, AllPublishRead, Begin, settings
  <2>. QED
    BY <1>t, <2>1 DEF Bounded, Sent, SectionsTypeOK
<1>3. ASSUME NEW r \in Editor, AllRead(r) \/ \E k \in Section : AllStops(r, k)
      PROVE  Bounded'
  <2>1. /\ UNCHANGED <<value, draft, edits>>
        /\ content' = [content EXCEPT ![r] = Default]
    BY <1>3 DEF AllRead, AllStops, Begin, End, settings
  <2>. QED
    BY <1>t, <1>w, <1>d, <2>1 DEF Bounded, Sent, SectionsTypeOK
<1>4. ASSUME NEW r \in Editor, UpdateWrite(r)
      PROVE  Bounded'
  <2>1. /\ UNCHANGED <<value, edits>>
        /\ draft' = [draft EXCEPT ![section[r]] = content[r]]
        /\ content' = [content EXCEPT ![r] = Default]
    BY <1>4 DEF UpdateWrite, ValueOnUpdate, End
  <2>. QED
    BY <1>t, <1>w, <1>d, <2>1 DEF Bounded, Sent, SectionsTypeOK
<1>5. ASSUME NEW r \in Editor, PublishWrite(r) \/ AllPublishWrite(r)
      PROVE  Bounded'
  <2>1. /\ UNCHANGED edits
        /\ value' = [value EXCEPT ![section[r]] = content[r]]
        /\ draft' = [draft EXCEPT ![section[r]] = NoDraft]
        /\ content' = [content EXCEPT ![r] = Default]
    BY <1>5 DEF PublishWrite, AllPublishWrite, DraftOnPublish, End
  <2>. QED
    BY <1>t, <1>w, <1>d, <2>1 DEF Bounded, Sent, SectionsTypeOK
<1>6. ASSUME NEW r \in Editor, DiscardWrite(r)
      PROVE  Bounded'
  <2>1. /\ UNCHANGED <<value, edits>>
        /\ draft' = [draft EXCEPT ![section[r]] = NoDraft]
        /\ content' = [content EXCEPT ![r] = Default]
    BY <1>6 DEF DiscardWrite, End
  <2>. QED
    BY <1>t, <1>w, <1>d, <2>1 DEF Bounded, Sent, SectionsTypeOK
<1>. QED
  BY <1>1, <1>2, <1>3, <1>4, <1>5, <1>6, SomebodyActs DEF Acts

\* The image of an edit that is only sent is in no use.
LEMMA NewPicture ==
  ASSUME LibraryInv, NEW r \in Editor, NEW k \in Section, NEW parts \in SUBSET Part,
         NEW m \in Media \cup {NoMedia}, UpdateWithPicture(r, k, parts, m)
  PROVE  InSettings' = InSettings
<1>1. /\ UNCHANGED <<value, draft>> /\ picture' = [picture EXCEPT ![edits + 1] = m]
  BY DEF UpdateWithPicture, UpdateRead
<1>2. /\ edits \in Nat /\ SectionsTypeOK /\ Bounded
      /\ picture \in [1..MaxEdits -> Media \cup {NoMedia}]
  BY EditsAssumption DEF LibraryInv, SectionsInv, SectionsTypeOK, MediaTypeOK
<1>3. ASSUME NEW c \in Content, Sent(c), NEW p \in Part
      PROVE  c[p] # 0 => picture'[c[p]] = picture[c[p]]
  <2>1. c[p] \in 0..MaxEdits /\ c[p] <= edits
    BY <1>3 DEF Content, Sent
  <2>2. c[p] # edits + 1
    BY <1>2, <2>1
  <2>. QED
    BY <1>1, <1>2, <2>1, <2>2, EditsAssumption
<1>4. \A q \in Section :
        /\ value[q] \in Content /\ Sent(value[q])
        /\ draft[q] # NoDraft => draft[q] \in Content /\ Sent(draft[q])
  BY <1>2 DEF SectionsTypeOK, Bounded
<1>5. \A n : Refers(n)' <=> Refers(n)
  BY <1>1, <1>3, <1>4 DEF Refers
<1>. QED
  BY <1>5, InSettingsMeans, InSettingsNext

LEMMA SameSettings ==
  ASSUME UNCHANGED <<value, draft, picture>>
  PROVE  InSettings' = InSettings
BY InSettingsMeans, InSettingsNext DEF Refers

-----------------------------------------------------------------------------
(* What an action on the library leaves of the rest *)

\* The sections rest, and so do their images.
LEMMA SectionsAtRest ==
  ASSUME LibraryInv, UNCHANGED <<sectionsVars, picture>>
  PROVE  /\ SectionsInv' /\ Bounded' /\ InSettings' = InSettings
         /\ UNCHANGED <<value, draft>>
<1>1. UNCHANGED <<value, draft, edits, content, picture>>
  BY DEF sectionsVars, settings, editors
<1>2. SectionsInv'
  BY SectionsNextInv DEF LibraryInv
<1>3. Bounded'
  BY <1>1 DEF LibraryInv, Bounded, Sent
<1>. QED
  BY <1>1, <1>2, <1>3, SameSettings

\* A deletion under way keeps what it goes by: nothing comes into use ...
LEMMA LookedNoClaim ==
  ASSUME LibraryInv, NEW p \in Librarian,
         job'[p] = job[p], item'[p] = item[p], orphans'[p] = orphans[p],
         NoClaim, linked' \subseteq linked, InSettings' = InSettings
  PROVE  Looked(p)'
<1>1. Looked(p) /\ (job[p] # "none" => claimed'[p] = claimed[p])
  BY DEF LibraryInv, NoClaim
<1>. QED
  BY <1>1 DEF Looked, Purging

\* ... or what does is claimed.
LEMMA LookedClaims ==
  ASSUME LibraryInv, NEW p \in Librarian, UNCHANGED jobs, Claims
  PROVE  Looked(p)'
<1>1. /\ Looked(p)
      /\ job[p] # "none" =>
           claimed'[p] = claimed[p] \cup (linked' \ linked) \cup (InSettings' \ InSettings)
                           \cup (mailed' \ mailed)
      /\ job'[p] = job[p] /\ item'[p] = item[p] /\ orphans'[p] = orphans[p]
  BY DEF LibraryInv, Claims, jobs
<1>. QED
  BY <1>1 DEF Looked, Purging

LEMMA AtWorkType ==
  ASSUME MediaTypeOK, NEW q \in Librarian, NEW j \in Job, NEW m \in Media \cup {NoMedia},
         NEW o \in SUBSET Media, AtWork(q, j, m, o)
  PROVE  /\ job' \in [Librarian -> Job] /\ item' \in [Librarian -> Media \cup {NoMedia}]
         /\ orphans' \in [Librarian -> SUBSET Media]
         /\ job'[q] = j /\ item'[q] = m /\ orphans'[q] = o
         /\ \A p \in Librarian \ {q} :
              job'[p] = job[p] /\ item'[p] = item[p] /\ orphans'[p] = orphans[p]
BY DEF MediaTypeOK, AtWork

LEMMA NoClaimType ==
  ASSUME MediaTypeOK, NoClaim
  PROVE  claimed' \in [Librarian -> SUBSET Media]
BY DEF MediaTypeOK, NoClaim

LEMMA ClaimsType ==
  ASSUME MediaTypeOK, Claims, linked' \subseteq Media, mailed' \subseteq Media,
         InSettings' \subseteq Media
  PROVE  claimed' \in [Librarian -> SUBSET Media]
BY DEF MediaTypeOK, Claims

\* A step of one request to the library: it moves from one stage to another,
\* and what it does to rows and objects concerns the image it is at, before or
\* after.
LEMMA LibraryStepInv ==
  ASSUME LibraryInv, NEW q \in Librarian, NEW j \in Job, NEW m \in Media \cup {NoMedia},
         NEW o \in SUBSET Media, AtWork(q, j, m, o), NoClaim,
         UNCHANGED <<sectionsVars, mailed, picture, crashes>>,
         row' \subseteq Media, object' \subseteq Media, known' \subseteq Media,
         linked' \subseteq linked, halfway' \subseteq Media,
         halfway \subseteq halfway', known \subseteq known',
         \* What was anywhere is known, and what the request takes up.
         row' \subseteq known', object' \subseteq known', o \subseteq known',
         m \in known' \cup {NoMedia},
         \* Rows and objects come only with what is new, or is one's own.
         \A n \in object' \ object : n \notin known,
         \A n \in row' \ row : job[q] = "register" /\ n = item[q],
         \* Objects go only from images that are in no uploader's hands.
         \A n \in object \ object' : \A p \in Librarian : job[p] = "register" => item[p] # n,
         Paired', Stands(q)', Looked(q)',
         \* What the request takes up is in no uploader's hands.
         \A p \in Librarian \ {q} : job[p] = "register" => item[p] # m /\ item[p] \notin o
  PROVE  LibraryInv'
<1>i. /\ MediaTypeOK /\ Uploaded /\ \A p \in Librarian : Stands(p) /\ Looked(p)
  BY DEF LibraryInv
<1>1. SectionsInv' /\ Bounded' /\ InSettings' = InSettings
  BY SectionsAtRest
<1>2. /\ job' \in [Librarian -> Job] /\ item' \in [Librarian -> Media \cup {NoMedia}]
      /\ orphans' \in [Librarian -> SUBSET Media]
      /\ job'[q] = j /\ item'[q] = m /\ orphans'[q] = o
  BY <1>i, AtWorkType
<1>3. ASSUME NEW p \in Librarian, p # q
      PROVE  job'[p] = job[p] /\ item'[p] = item[p] /\ orphans'[p] = orphans[p]
  BY <1>i, <1>3, AtWorkType
<1>4. MediaTypeOK'
  BY <1>i, <1>2, NoClaimType DEF MediaTypeOK
<1>5. Uploaded'
  BY <1>i, <1>2, <1>3 DEF Uploaded
<1>6. ASSUME NEW p \in Librarian, p # q PROVE Looked(p)'
  BY <1>1, <1>3, <1>6, LookedNoClaim
<1>7. ASSUME NEW p \in Librarian, p # q PROVE Stands(p)'
  <2>1. Stands(p) /\ job'[p] = job[p] /\ item'[p] = item[p] /\ orphans'[p] = orphans[p]
    BY <1>i, <1>3, <1>7
  <2>2. job[p] \in {"register", "remove", "removeRow", "purgeRow"} => item'[p] \in Media
    BY <2>1 DEF Stands
  <2>3. job[p] = "register" => item'[p] \in object' \ row'
    BY <1>i, <2>1, <1>7 DEF Stands
  <2>4. job[p] = "register" =>
          \A r \in Librarian : item'[p] \notin orphans'[r] /\ (r # p => item'[r] # item'[p])
    BY <1>2, <1>3, <1>7, <2>1 DEF Stands
  <2>5. job[p] \in {"removeRow", "purgeRow"} => item'[p] \in halfway' \/ item'[p] \notin object'
    <3>1. job[p] \in {"removeRow", "purgeRow"} => item[p] \in known
      BY <1>i, <2>1, MediaAssumption DEF Stands, Uploaded
    <3>. QED
      BY <2>1, <3>1 DEF Stands
  <2>. QED
    BY <2>1, <2>2, <2>3, <2>4, <2>5 DEF Stands
<1>. QED
  BY <1>1, <1>4, <1>5, <1>6, <1>7 DEF LibraryInv

\* Nothing of the library moves but the links: content, or the sections.
LEMMA ContentInv ==
  ASSUME LibraryInv, UNCHANGED <<object, row, jobs, known, halfway, crashes>>,
         SectionsInv', Bounded', linked' \subseteq Media, mailed' \subseteq Media,
         picture' \in [1..MaxEdits -> Media \cup {NoMedia}],
         claimed' \in [Librarian -> SUBSET Media],
         \A p \in Librarian : Looked(p)'
  PROVE  LibraryInv'
<1>1. MediaTypeOK'
  BY DEF LibraryInv, MediaTypeOK, jobs
<1>2. Paired' /\ Uploaded' /\ \A p \in Librarian : Stands(p)'
  BY DEF LibraryInv, Paired, Between, Uploaded, Stands, jobs
<1>. QED
  BY <1>1, <1>2 DEF LibraryInv

-----------------------------------------------------------------------------
(* The actions of the library *)

\* Row and object of every other image stay as they were, and so does whoever
\* stands between them.
LEMMA PairedStays ==
  ASSUME LibraryInv, NEW q \in Librarian, NEW m,
         \A n \in Media \ {m} : (n \in row' <=> n \in row) /\ (n \in object' <=> n \in object),
         halfway \subseteq halfway',
         \A p \in Librarian \ {q} : job'[p] = job[p] /\ item'[p] = item[p],
         ~Between(q) \/ item[q] = m \/ (Between(q)' /\ item'[q] = item[q]),
         m \in Media \ halfway' =>
           (m \in row' <=> m \in object') \/ (Between(q)' /\ item'[q] = m)
  PROVE  Paired'
<1>. SUFFICES ASSUME NEW n \in Media, n \notin halfway'
              PROVE  (n \in row' <=> n \in object') \/ \E p \in Librarian : Between(p)' /\ item'[p] = n
  BY DEF Paired
<1>1. CASE n = m
  BY <1>1
<1>2. CASE n # m
  <2>1. (n \in row <=> n \in object) \/ \E p \in Librarian : Between(p) /\ item[p] = n
    BY DEF LibraryInv, Paired
  <2>2. CASE n \in row <=> n \in object
    BY <1>2, <2>2
  <2>3. ASSUME NEW p \in Librarian, Between(p), item[p] = n
        PROVE  Between(p)' /\ item'[p] = n
    <3>1. CASE p = q
      BY <1>2, <2>3, <3>1
    <3>2. CASE p # q
      BY <2>3, <3>2 DEF Between
    <3>. QED
      BY <3>1, <3>2
  <2>. QED
    BY <2>1, <2>2, <2>3
<1>. QED
  BY <1>1, <1>2

LEMMA UploadInv ==
  ASSUME LibraryInv, NEW q \in Librarian, NEW m \in Media, Upload(q, m)
  PROVE  LibraryInv'
<1>i. MediaTypeOK /\ Uploaded /\ \A p \in Librarian : Stands(p)
  BY DEF LibraryInv
<1>1. /\ job[q] = "none" /\ m \notin known /\ known' = known \cup {m} /\ object' = object \cup {m}
      /\ AtWork(q, "register", m, {}) /\ NoClaim
      /\ UNCHANGED <<sectionsVars, row, linked, mailed, picture, halfway, crashes>>
  BY DEF Upload
<1>2. "register" \in Job
  BY DEF Job
<1>3. /\ job'[q] = "register" /\ item'[q] = m /\ orphans'[q] = {}
      /\ \A p \in Librarian \ {q} :
           job'[p] = job[p] /\ item'[p] = item[p] /\ orphans'[p] = orphans[p]
  BY <1>i, <1>1, <1>2, AtWorkType
<1>4. Paired'
  BY <1>1, <1>3, PairedStays DEF Between
<1>5. Stands(q)'
  <2>1. m \in object' \ row'
    BY <1>i, <1>1 DEF Uploaded
  <2>2. \A p \in Librarian : m \notin orphans'[p] /\ (p # q => item'[p] # m)
    BY <1>i, <1>1, <1>3, MediaAssumption DEF Uploaded
  <2>. QED
    BY <1>3, <2>1, <2>2 DEF Stands
<1>6. Looked(q)'
  BY <1>3 DEF Looked, Purging
<1>7. \A p \in Librarian \ {q} : job[p] = "register" => item[p] # m /\ item[p] \notin {}
  BY <1>i, <1>1, MediaAssumption DEF Stands, Uploaded
<1>8. /\ row' \subseteq Media /\ object' \subseteq Media /\ known' \subseteq Media
      /\ linked' \subseteq linked /\ halfway' \subseteq Media
      /\ halfway \subseteq halfway' /\ known \subseteq known'
      /\ row' \subseteq known' /\ object' \subseteq known' /\ m \in known'
      /\ \A n \in object' \ object : n \notin known
      /\ row' = row /\ object \subseteq object'
  BY <1>i, <1>1 DEF MediaTypeOK, Uploaded
<1>. QED
  BY <1>1, <1>2, <1>4, <1>5, <1>6, <1>7, <1>8, LibraryStepInv

LEMMA RegisterInv ==
  ASSUME LibraryInv, NEW q \in Librarian, Register(q)
  PROVE  LibraryInv'
<1>i. MediaTypeOK /\ Uploaded /\ \A p \in Librarian : Stands(p)
  BY DEF LibraryInv
<1>1. /\ job[q] = "register"
      /\ \/ row' = row \cup {item[q]} /\ UNCHANGED halfway
         \/ halfway' = halfway \cup {item[q]} /\ UNCHANGED row
      /\ AtWork(q, "none", NoMedia, {}) /\ NoClaim
      /\ UNCHANGED <<sectionsVars, object, linked, mailed, picture, known, crashes>>
  BY DEF Register, Done
<1>2. "none" \in Job
  BY DEF Job
<1>3. /\ job'[q] = "none" /\ item'[q] = NoMedia /\ orphans'[q] = {}
      /\ \A p \in Librarian \ {q} :
           job'[p] = job[p] /\ item'[p] = item[p] /\ orphans'[p] = orphans[p]
  BY <1>i, <1>1, <1>2, AtWorkType
<1>4. item[q] \in Media /\ item[q] \in object \ row
  BY <1>i, <1>1 DEF Stands
<1>5. Paired'
  BY <1>1, <1>3, <1>4, PairedStays
<1>6. Stands(q)' /\ Looked(q)'
  BY <1>3 DEF Stands, Looked, Purging
<1>7. \A p \in Librarian \ {q} : job[p] = "register" => item[p] # NoMedia /\ item[p] \notin {}
  BY <1>i, MediaAssumption DEF Stands
<1>8. /\ row' \subseteq Media /\ object' \subseteq Media /\ known' \subseteq Media
      /\ linked' \subseteq linked /\ halfway' \subseteq Media
      /\ halfway \subseteq halfway' /\ known \subseteq known'
      /\ row' \subseteq known' /\ object' \subseteq known'
      /\ object' = object
      /\ \A n \in row' \ row : job[q] = "register" /\ n = item[q]
  BY <1>i, <1>1, <1>4 DEF MediaTypeOK, Uploaded
<1>. QED
  BY <1>1, <1>2, <1>5, <1>6, <1>7, <1>8, LibraryStepInv

LEMMA RemoveInv ==
  ASSUME LibraryInv, NEW q \in Librarian, NEW m \in Media, Remove(q, m)
  PROVE  LibraryInv'
<1>i. MediaTypeOK /\ Uploaded /\ \A p \in Librarian : Stands(p)
  BY DEF LibraryInv
<1>1. /\ job[q] = "none" /\ m \in row /\ m \notin linked
      /\ AtWork(q, "remove", m, {}) /\ NoClaim
      /\ UNCHANGED <<sectionsVars, object, row, linked, mailed, picture, known, halfway, crashes>>
  BY DEF Remove, CountedInUse, library
<1>2. "remove" \in Job
  BY DEF Job
<1>3. /\ job'[q] = "remove" /\ item'[q] = m /\ orphans'[q] = {}
      /\ \A p \in Librarian \ {q} :
           job'[p] = job[p] /\ item'[p] = item[p] /\ orphans'[p] = orphans[p]
  BY <1>i, <1>1, <1>2, AtWorkType
<1>4. Paired'
  <2>1. ~Between(q)
    BY <1>1 DEF Between
  <2>. QED
    BY <1>1, <1>3, <2>1, PairedStays DEF LibraryInv, Paired, Between
<1>5. Stands(q)' /\ Looked(q)'
  BY <1>1, <1>3 DEF Stands, Looked, Purging
<1>6. \A p \in Librarian \ {q} : job[p] = "register" => item[p] # m /\ item[p] \notin {}
  BY <1>i, <1>1 DEF Stands
<1>7. /\ row' \subseteq Media /\ object' \subseteq Media /\ known' \subseteq Media
      /\ halfway' \subseteq Media
      /\ row' \subseteq known' /\ object' \subseteq known' /\ m \in known'
      /\ row' = row /\ object' = object /\ linked' = linked /\ halfway' = halfway /\ known' = known
  BY <1>i, <1>1 DEF MediaTypeOK, Uploaded
<1>. QED
  BY <1>1, <1>2, <1>4, <1>5, <1>6, <1>7, LibraryStepInv

\* The object goes, and the row is next: of remove and of the purge.
LEMMA ObjectGoes ==
  ASSUME LibraryInv, NEW q \in Librarian, NEW m \in Media, NEW o \in SUBSET Media,
         NEW j \in {"removeRow", "purgeRow"}, AtWork(q, j, m, o), NoClaim,
         \/ object' = object \ {m} /\ UNCHANGED halfway
         \/ halfway' = halfway \cup {m} /\ UNCHANGED object,
         UNCHANGED <<sectionsVars, row, linked, mailed, picture, known, crashes>>,
         ~Between(q), m \in known, o \subseteq known,
         \A p \in Librarian : job[p] = "register" => item[p] # m /\ item[p] \notin o,
         Looked(q)'
  PROVE  LibraryInv'
<1>i. MediaTypeOK /\ Uploaded
  BY DEF LibraryInv
<1>2. j \in Job
  BY DEF Job
<1>3. /\ job'[q] = j /\ item'[q] = m /\ orphans'[q] = o
      /\ \A p \in Librarian \ {q} :
           job'[p] = job[p] /\ item'[p] = item[p] /\ orphans'[p] = orphans[p]
  BY <1>i, <1>2, AtWorkType
<1>4. Paired'
  <2>1. Between(q)' /\ item'[q] = m
    BY <1>3 DEF Between
  <2>2. \A n \in Media \ {m} : (n \in row' <=> n \in row) /\ (n \in object' <=> n \in object)
    OBVIOUS
  <2>. QED
    BY <1>3, <2>1, <2>2, PairedStays
<1>5. Stands(q)'
  BY <1>3 DEF Stands
<1>6. /\ row' \subseteq Media /\ object' \subseteq Media /\ known' \subseteq Media
      /\ halfway' \subseteq Media /\ halfway \subseteq halfway'
      /\ row' \subseteq known' /\ object' \subseteq known' /\ m \in known' /\ o \subseteq known'
      /\ row' = row /\ linked' = linked /\ known' = known
      /\ \A n \in object' \ object : n \notin known
      /\ \A n \in object \ object' : n = m
  BY <1>i DEF MediaTypeOK, Uploaded
<1>. QED
  BY <1>2, <1>4, <1>5, <1>6, LibraryStepInv

LEMMA RemoveObjectInv ==
  ASSUME LibraryInv, NEW q \in Librarian, RemoveObject(q)
  PROVE  LibraryInv'
<1>i. MediaTypeOK /\ Uploaded /\ \A p \in Librarian : Stands(p)
  BY DEF LibraryInv
<1>1. /\ job[q] = "remove" /\ AtWork(q, "removeRow", item[q], {}) /\ NoClaim
      /\ \/ object' = object \ {item[q]} /\ UNCHANGED halfway
         \/ halfway' = halfway \cup {item[q]} /\ UNCHANGED object
      /\ UNCHANGED <<sectionsVars, row, linked, mailed, picture, known, crashes>>
  BY DEF RemoveObject
<1>2. item[q] \in Media /\ item[q] \in known /\ ~Between(q)
  BY <1>i, <1>1, MediaAssumption DEF Stands, Uploaded, Between
<1>3. \A p \in Librarian : job[p] = "register" => item[p] # item[q] /\ item[p] \notin {}
  BY <1>i, <1>1 DEF Stands
<1>4. Looked(q)'
  BY <1>i, <1>1, <1>2, AtWorkType DEF Looked, Purging, Job
<1>. QED
  BY <1>1, <1>2, <1>3, <1>4, ObjectGoes

LEMMA PurgeObjectInv ==
  ASSUME LibraryInv, NEW q \in Librarian, NEW m \in Media, PurgeObject(q, m)
  PROVE  LibraryInv'
<1>i. MediaTypeOK /\ Uploaded /\ Looked(q) /\ \A p \in Librarian : Stands(p)
  BY DEF LibraryInv
<1>1. /\ job[q] = "purge" /\ m \in orphans[q] /\ AtWork(q, "purgeRow", m, orphans[q] \ {m})
      /\ NoClaim
      /\ \/ object' = object \ {m} /\ UNCHANGED halfway
         \/ halfway' = halfway \cup {m} /\ UNCHANGED object
      /\ UNCHANGED <<sectionsVars, row, linked, mailed, picture, known, crashes>>
  BY DEF PurgeObject
<1>2. /\ m \in known /\ orphans[q] \ {m} \subseteq known /\ ~Between(q)
      /\ orphans[q] \ {m} \in SUBSET Media
  BY <1>i, <1>1 DEF Uploaded, Between, MediaTypeOK
<1>3. \A p \in Librarian : job[p] = "register" => item[p] # m /\ item[p] \notin orphans[q] \ {m}
  BY <1>i, <1>1 DEF Stands
<1>4. Looked(q)'
  <2>1. job'[q] = "purgeRow" /\ orphans'[q] = orphans[q] \ {m}
    BY <1>i, <1>1, <1>2, AtWorkType DEF Job
  <2>2. claimed'[q] = claimed[q]
    BY <1>1, <2>1 DEF NoClaim
  <2>3. InSettings' = InSettings
    BY <1>1, SectionsAtRest
  <2>. QED
    BY <1>i, <1>1, <2>1, <2>2, <2>3 DEF Looked, Purging
<1>. QED
  BY <1>1, <1>2, <1>3, <1>4, ObjectGoes

\* The row goes, and its object is gone or was left behind.
LEMMA RowGoes ==
  ASSUME LibraryInv, NEW q \in Librarian, job[q] \in {"removeRow", "purgeRow"},
         NEW j \in {"none", "purge"}, NEW o \in SUBSET Media,
         AtWork(q, j, NoMedia, o), o \subseteq orphans[q], NoClaim,
         row' = row \ {item[q]}, linked' = linked \ {item[q]},
         UNCHANGED <<sectionsVars, object, mailed, picture, known, halfway, crashes>>,
         Looked(q)'
  PROVE  LibraryInv'
<1>i. MediaTypeOK /\ Uploaded /\ \A p \in Librarian : Stands(p)
  BY DEF LibraryInv
<1>2. j \in Job
  BY DEF Job
<1>3. /\ job'[q] = j /\ item'[q] = NoMedia /\ orphans'[q] = o
      /\ \A p \in Librarian \ {q} :
           job'[p] = job[p] /\ item'[p] = item[p] /\ orphans'[p] = orphans[p]
  BY <1>i, <1>2, AtWorkType
<1>4. item[q] \in halfway \/ item[q] \notin object
  BY <1>i DEF Stands
<1>5. Paired'
  BY <1>3, <1>4, PairedStays
<1>6. Stands(q)'
  BY <1>3 DEF Stands
<1>7. \A p \in Librarian \ {q} : job[p] = "register" => item[p] # NoMedia /\ item[p] \notin o
  BY <1>i, MediaAssumption DEF Stands
<1>8. /\ row' \subseteq Media /\ object' \subseteq Media /\ known' \subseteq Media
      /\ linked' \subseteq linked /\ halfway' \subseteq Media
      /\ row' \subseteq known' /\ object' \subseteq known' /\ o \subseteq known'
      /\ row' \subseteq row /\ object' = object /\ halfway' = halfway /\ known' = known
  BY <1>i DEF MediaTypeOK, Uploaded
<1>. QED
  BY <1>2, <1>5, <1>6, <1>7, <1>8, LibraryStepInv

LEMMA RemoveRowInv ==
  ASSUME LibraryInv, NEW q \in Librarian, RemoveRow(q)
  PROVE  LibraryInv'
<1>1. /\ job[q] = "removeRow" /\ AtWork(q, "none", NoMedia, {}) /\ NoClaim
      /\ row' = row \ {item[q]} /\ linked' = linked \ {item[q]}
      /\ UNCHANGED <<sectionsVars, object, mailed, picture, known, halfway, crashes>>
  BY DEF RemoveRow, RowsWithout, Done
<1>2. Looked(q)'
  BY <1>1, AtWorkType DEF LibraryInv, Looked, Purging, Job
<1>. QED
  BY <1>1, <1>2, RowGoes

LEMMA PurgeRowInv ==
  ASSUME LibraryInv, NEW q \in Librarian, PurgeRow(q)
  PROVE  LibraryInv'
<1>i. MediaTypeOK /\ Looked(q)
  BY DEF LibraryInv
<1>1. /\ job[q] = "purgeRow" /\ NoClaim
      /\ row' = row \ {item[q]} /\ linked' = linked \ {item[q]}
      /\ UNCHANGED <<sectionsVars, object, mailed, picture, known, halfway, crashes>>
      /\ AtWork(q, "none", NoMedia, {}) \/ AtWork(q, "purge", NoMedia, orphans[q])
  BY DEF PurgeRow, RowsWithout, Done
<1>2. orphans[q] \in SUBSET Media /\ {"none", "purge"} \subseteq Job
  BY <1>i DEF MediaTypeOK, Job
<1>3. CASE AtWork(q, "none", NoMedia, {})
  <2>1. job'[q] = "none"
    BY <1>i, <1>2, <1>3, AtWorkType
  <2>2. Looked(q)'
    BY <2>1 DEF Looked, Purging
  <2>. QED
    BY <1>1, <1>3, <2>2, RowGoes
<1>4. CASE AtWork(q, "purge", NoMedia, orphans[q])
  <2>1. job'[q] = "purge" /\ orphans'[q] = orphans[q]
    BY <1>i, <1>2, <1>4, AtWorkType
  <2>2. claimed'[q] = claimed[q]
    BY <1>1, <2>1 DEF NoClaim
  <2>3. InSettings' = InSettings
    BY <1>1, SectionsAtRest
  <2>4. Looked(q)'
    BY <1>i, <1>1, <2>1, <2>2, <2>3 DEF Looked, Purging
  <2>. QED
    BY <1>1, <1>2, <1>4, <2>4, RowGoes
<1>. QED
  BY <1>1, <1>3, <1>4

\* A purge looks: first at the tables, then at the settings.
LEMMA LooksInv ==
  ASSUME LibraryInv, NEW q \in Librarian, ~Between(q),
         NEW j \in {"none", "purgeSettings", "purge"}, NEW o \in SUBSET Media,
         AtWork(q, j, NoMedia, o), NoClaim, o \subseteq row \cup orphans[q],
         UNCHANGED <<sectionsVars, library, known, halfway, crashes>>,
         Looked(q)'
  PROVE  LibraryInv'
<1>i. MediaTypeOK /\ Uploaded /\ \A p \in Librarian : Stands(p)
  BY DEF LibraryInv
<1>1. UNCHANGED <<object, row, linked, mailed, picture>>
  BY DEF library
<1>2. j \in Job
  BY DEF Job
<1>3. /\ job'[q] = j /\ item'[q] = NoMedia /\ orphans'[q] = o
      /\ \A p \in Librarian \ {q} :
           job'[p] = job[p] /\ item'[p] = item[p] /\ orphans'[p] = orphans[p]
  BY <1>i, <1>2, AtWorkType
<1>4. Paired'
  BY <1>1, <1>3, MediaAssumption, PairedStays
<1>5. Stands(q)'
  BY <1>3 DEF Stands
<1>6. \A p \in Librarian \ {q} : job[p] = "register" => item[p] # NoMedia /\ item[p] \notin o
  BY <1>i, MediaAssumption DEF Stands
<1>7. /\ row' \subseteq Media /\ object' \subseteq Media /\ known' \subseteq Media
      /\ halfway' \subseteq Media
      /\ row' \subseteq known' /\ object' \subseteq known' /\ o \subseteq known'
  BY <1>i, <1>1 DEF MediaTypeOK, Uploaded
<1>. QED
  BY <1>1, <1>2, <1>4, <1>5, <1>6, <1>7, LibraryStepInv

LEMMA PurgeInv ==
  ASSUME LibraryInv, NEW q \in Librarian, Purge(q)
  PROVE  LibraryInv'
<1>1. /\ job[q] = "none" /\ AtWork(q, "purgeSettings", NoMedia, row \ linked) /\ NoClaim
      /\ UNCHANGED <<sectionsVars, library, known, halfway, crashes>>
      /\ row \ linked \in SUBSET Media /\ "purgeSettings" \in Job /\ MediaTypeOK
  BY DEF Purge, LibraryInv, MediaTypeOK, Job
<1>2. job'[q] = "purgeSettings" /\ orphans'[q] = row \ linked /\ linked' = linked
  BY <1>1, AtWorkType DEF library
<1>3. Looked(q)' /\ ~Between(q)
  BY <1>1, <1>2 DEF Looked, Purging, Between
<1>. QED
  BY <1>1, <1>3, LooksInv

LEMMA PurgeSettingsInv ==
  ASSUME LibraryInv, NEW q \in Librarian, PurgeSettings(q)
  PROVE  LibraryInv'
<1>. DEFINE o == orphans[q] \ InSettings
<1>i. MediaTypeOK /\ Looked(q)
  BY DEF LibraryInv
<1>1. /\ job[q] = "purgeSettings" /\ NoClaim
      /\ AtWork(q, "none", NoMedia, {}) \/ AtWork(q, "purge", NoMedia, o)
      /\ UNCHANGED <<sectionsVars, library, known, halfway, crashes>>
  BY DEF PurgeSettings, SeenInSettings, Done
<1>2. ~Between(q) /\ o \in SUBSET Media /\ {"none", "purge"} \subseteq Job
  BY <1>i, <1>1 DEF Between, MediaTypeOK, Job
<1>3. linked' = linked /\ InSettings' = InSettings
  BY <1>1, SectionsAtRest DEF library
<1>4. CASE AtWork(q, "none", NoMedia, {})
  <2>1. job'[q] = "none"
    BY <1>i, <1>2, <1>4, AtWorkType
  <2>2. Looked(q)'
    BY <2>1 DEF Looked, Purging
  <2>. QED
    BY <1>1, <1>2, <1>4, <2>2, LooksInv
<1>5. CASE AtWork(q, "purge", NoMedia, o)
  <2>1. job'[q] = "purge" /\ orphans'[q] = o
    BY <1>i, <1>2, <1>5, AtWorkType
  <2>2. claimed'[q] = claimed[q]
    BY <1>1, <2>1 DEF NoClaim
  <2>3. Looked(q)'
    BY <1>i, <1>1, <1>3, <2>1, <2>2 DEF Looked, Purging
  <2>. QED
    BY <1>1, <1>2, <1>5, <2>3, LooksInv
<1>. QED
  BY <1>1, <1>4, <1>5

\* Content and campaigns refer to images, or cease to.
LEMMA LinkInv ==
  ASSUME LibraryInv, NEW m \in Media,
         Link(m) \/ Unlink(m) \/ PutInCampaign(m) \/ TakeFromCampaign(m)
  PROVE  LibraryInv'
<1>i. MediaTypeOK
  BY DEF LibraryInv
<1>1. /\ UNCHANGED <<sectionsVars, object, row, picture, jobs, known, halfway, crashes>>
      /\ Claims \/ (claimed' = claimed /\ linked' \subseteq linked)
      /\ linked' \subseteq Media /\ mailed' \subseteq Media
  BY <1>i DEF Link, Unlink, PutInCampaign, TakeFromCampaign, traces, MediaTypeOK
<1>2. SectionsInv' /\ Bounded' /\ InSettings' = InSettings
  BY <1>1, SectionsAtRest
<1>3. picture' \in [1..MaxEdits -> Media \cup {NoMedia}] /\ InSettings' \subseteq Media
  BY <1>i, <1>1, <1>2, UsedIsMedia DEF MediaTypeOK, SectionsInv
<1>4. claimed' \in [Librarian -> SUBSET Media]
  BY <1>i, <1>1, <1>3, ClaimsType DEF MediaTypeOK
<1>5. ASSUME NEW p \in Librarian PROVE Looked(p)'
  <2>1. CASE Claims
    BY <1>1, <2>1, LookedClaims
  <2>2. CASE claimed' = claimed /\ linked' \subseteq linked
    BY <1>1, <1>2, <2>2 DEF LibraryInv, Looked, Purging, jobs
  <2>. QED
    BY <1>1, <2>1, <2>2
<1>. QED
  BY <1>1, <1>2, <1>3, <1>4, <1>5, ContentInv

LEMMA UpdateWithPictureInv ==
  ASSUME LibraryInv, NEW r \in Editor, NEW k \in Section, NEW parts \in SUBSET Part,
         NEW m \in Media \cup {NoMedia}, UpdateWithPicture(r, k, parts, m)
  PROVE  LibraryInv'
<1>i. MediaTypeOK /\ SectionsInv /\ Bounded
  BY DEF LibraryInv
<1>1. /\ UpdateRead(r, k, parts)
      /\ picture' = [picture EXCEPT ![edits + 1] = m]
      /\ UNCHANGED <<object, row, linked, mailed, jobs, known, claimed, halfway, crashes>>
  BY DEF UpdateWithPicture, traces
<1>2. SectionsInv' /\ Bounded'
  <2>1. SectionsNext
    BY <1>1 DEF SectionsNext, UpdateStarts
  <2>. QED
    BY <1>i, <2>1, SectionsNextInv, BoundedNext
<1>3. InSettings' = InSettings
  BY NewPicture
<1>4. /\ linked' \subseteq Media /\ mailed' \subseteq Media /\ claimed' \in [Librarian -> SUBSET Media]
      /\ picture' \in [1..MaxEdits -> Media \cup {NoMedia}]
  BY <1>i, <1>1 DEF MediaTypeOK
<1>5. \A p \in Librarian : Looked(p)'
  BY <1>1, <1>3 DEF LibraryInv, Looked, Purging, jobs
<1>. QED
  BY <1>1, <1>2, <1>4, <1>5, ContentInv

LEMMA SectionMovesInv ==
  ASSUME LibraryInv, SectionMoves
  PROVE  LibraryInv'
<1>i. MediaTypeOK /\ SectionsInv /\ Bounded
  BY DEF LibraryInv
<1>1. /\ SectionsNext /\ Claims
      /\ UNCHANGED <<object, row, linked, mailed, picture, jobs, known, halfway, crashes>>
  BY DEF SectionMoves, SectionsNext, library
<1>2. SectionsInv' /\ Bounded'
  BY <1>i, <1>1, SectionsNextInv, BoundedNext
<1>3. /\ linked' \subseteq Media /\ mailed' \subseteq Media /\ picture' \in [1..MaxEdits -> Media \cup {NoMedia}]
      /\ claimed' \in [Librarian -> SUBSET Media]
  BY <1>i, <1>1, <1>2, UsedIsMedia, ClaimsType DEF MediaTypeOK, SectionsInv
<1>4. \A p \in Librarian : Looked(p)'
  BY <1>1, LookedClaims
<1>. QED
  BY <1>1, <1>2, <1>3, <1>4, ContentInv

\* The process stops: whoever stood between row and object is remembered.
LEMMA CrashInv ==
  ASSUME LibraryInv, Crash
  PROVE  LibraryInv'
<1>i. MediaTypeOK /\ SectionsInv /\ Bounded /\ Uploaded /\ \A p \in Librarian : Stands(p)
  BY DEF LibraryInv
<1>1. /\ crashes < MaxCrashes /\ crashes' = crashes + 1
      /\ job' = [q \in Librarian |-> "none"] /\ item' = [q \in Librarian |-> NoMedia]
      /\ orphans' = [q \in Librarian |-> {}]
      /\ task' = [r \in Editor |-> "none"] /\ section' = [r \in Editor |-> NoSection]
      /\ content' = [r \in Editor |-> Default]
      /\ sent' = [r \in Editor |-> {}] /\ todo' = [r \in Editor |-> {}]
      /\ overtaken' = {} /\ disturbed' = {}
      /\ halfway' = halfway \cup {item[q] : q \in {p \in Librarian : Between(p)}}
      /\ NoClaim /\ UNCHANGED <<value, draft, edits, saved, object, row, linked, mailed, picture, known>>
  BY DEF Crash, Between, settings, library
<1>2. SectionsInv'
  <2>1. SectionsTypeOK'
    BY <1>i, <1>1, DefaultIsContent DEF SectionsInv, SectionsTypeOK, Task
  <2>2. Kept'
    BY <1>i, <1>1 DEF SectionsInv, Kept
  <2>3. ASSUME NEW r \in Editor PROVE RequestInv(r)'
    BY <1>1, RequestEnded
  <2>. QED
    BY <2>1, <2>2, <2>3 DEF SectionsInv
<1>3. Bounded'
  <2>1. edits \in Nat /\ \A p \in Part : Default[p] <= edits
    BY <1>i, EditsAssumption DEF SectionsInv, SectionsTypeOK, Default
  <2>. QED
    BY <1>i, <1>1, <2>1 DEF Bounded, Sent
<1>4. halfway' \subseteq Media
  BY <1>i, <1>1 DEF MediaTypeOK, Stands, Between
<1>5. crashes' \in 0..MaxCrashes
  BY <1>i, <1>1, CrashAssumption DEF MediaTypeOK
<1>6. MediaTypeOK'
  BY <1>i, <1>1, <1>4, <1>5, NoClaimType DEF MediaTypeOK, Job
<1>7. Paired'
  BY <1>1 DEF LibraryInv, Paired
<1>8. Uploaded'
  BY <1>i, <1>1 DEF Uploaded
<1>9. \A p \in Librarian : Stands(p)' /\ Looked(p)'
  BY <1>1 DEF Stands, Looked, Purging
<1>. QED
  BY <1>2, <1>3, <1>6, <1>7, <1>8, <1>9 DEF LibraryInv

-----------------------------------------------------------------------------
(* The invariant *)

LEMMA LibraryInitInv == MediaInit => LibraryInv
<1>. SUFFICES ASSUME MediaInit PROVE LibraryInv
  OBVIOUS
<1>1. SectionsInv
  BY SectionsInitInv DEF MediaInit
<1>2. MediaTypeOK
  BY CrashAssumption DEF MediaInit, MediaTypeOK, Job
<1>3. Bounded
  <2>1. edits = 0 /\ \A p \in Part : Default[p] = 0
    BY DEF MediaInit, SectionsInit, Default
  <2>. QED
    BY <2>1 DEF MediaInit, SectionsInit, Bounded, Sent
<1>4. Paired /\ Uploaded
  BY DEF MediaInit, Paired, Uploaded
<1>5. \A q \in Librarian : Stands(q) /\ Looked(q)
  BY DEF MediaInit, Stands, Looked, Purging
<1>. QED
  BY <1>1, <1>2, <1>3, <1>4, <1>5 DEF LibraryInv

LEMMA LibraryNextInv == LibraryInv /\ [MediaNext]_mediaVars => LibraryInv'
<1>. SUFFICES ASSUME LibraryInv, [MediaNext]_mediaVars PROVE LibraryInv'
  OBVIOUS
<1>1. ASSUME NEW q \in Librarian, NEW m \in Media, Upload(q, m) \/ Remove(q, m)
      PROVE  LibraryInv'
  BY <1>1, UploadInv, RemoveInv
<1>2. ASSUME NEW q \in Librarian, Purge(q) \/ LibraryStep(q)
      PROVE  LibraryInv'
  BY <1>2, PurgeInv, RegisterInv, RemoveObjectInv, RemoveRowInv, PurgeSettingsInv,
     PurgeObjectInv, PurgeRowInv DEF LibraryStep
<1>3. ASSUME NEW m \in Media,
             Link(m) \/ Unlink(m) \/ PutInCampaign(m) \/ TakeFromCampaign(m)
      PROVE  LibraryInv'
  BY <1>3, LinkInv
<1>4. ASSUME NEW r \in Editor, NEW k \in Section, NEW parts \in SUBSET Part,
             NEW m \in Media \cup {NoMedia}, UpdateWithPicture(r, k, parts, m)
      PROVE  LibraryInv'
  BY <1>4, UpdateWithPictureInv
<1>5. CASE UNCHANGED mediaVars
  <2>1. UNCHANGED <<sectionsVars, object, row, linked, mailed, picture, jobs, known, claimed, halfway, crashes>>
    BY <1>5 DEF mediaVars, library, traces
  <2>2. SectionsInv' /\ Bounded' /\ InSettings' = InSettings
    BY <2>1, SectionsAtRest
  <2>3. /\ linked' \subseteq Media /\ mailed' \subseteq Media /\ picture' \in [1..MaxEdits -> Media \cup {NoMedia}]
        /\ claimed' \in [Librarian -> SUBSET Media]
    BY <2>1 DEF LibraryInv, MediaTypeOK
  <2>4. \A p \in Librarian : Looked(p)'
    BY <2>1, <2>2 DEF LibraryInv, Looked, Purging, jobs
  <2>. QED
    BY <2>1, <2>2, <2>3, <2>4, ContentInv
<1>. QED
  BY <1>1, <1>2, <1>3, <1>4, <1>5, SectionMovesInv, CrashInv DEF MediaNext

THEOREM LibraryInvariance == MediaSpec => []LibraryInv
BY LibraryInitInv, LibraryNextInv, PTL DEF MediaSpec

-----------------------------------------------------------------------------
(* The results *)

\* Images, requests and what they hold are of their types (media.service).
THEOREM LibraryTyped == MediaSpec => [](SectionsTypeOK /\ MediaTypeOK)
<1>1. LibraryInv => SectionsTypeOK /\ MediaTypeOK
  BY DEF LibraryInv, SectionsInv
<1>. QED
  BY <1>1, LibraryInvariance, PTL

\* A row has its file and a file its row, but where a request is at it, or a
\* failure or a stop left it (upload, remove, purgeOrphans).
THEOREM FileAndRowHolds == MediaSpec => []FileAndRow
<1>1. LibraryInv => FileAndRow
  BY DEF LibraryInv, Paired, FileAndRow
<1>. QED
  BY <1>1, LibraryInvariance, PTL

\* Only the two actions that delete an object move a request to its row.
LEMMA WhoDeletes ==
  ASSUME LibraryInv, MediaNext, NEW q \in Librarian,
         job[q] \in {"remove", "purge"}, job'[q] \in {"removeRow", "purgeRow"}
  PROVE  RemoveObject(q) \/ \E m \in Media : PurgeObject(q, m)
<1>t. MediaTypeOK
  BY DEF LibraryInv
<1>1. ASSUME NEW p \in Librarian, p # q, NEW j, NEW m, NEW o, AtWork(p, j, m, o)
      PROVE  FALSE
  BY <1>t, <1>1 DEF AtWork, MediaTypeOK
<1>2. ASSUME NEW p \in Librarian, NEW m \in Media, Upload(p, m) \/ Remove(p, m)
      PROVE  FALSE
  BY <1>1, <1>2 DEF Upload, Remove
<1>3. ASSUME NEW p \in Librarian, Purge(p)
      PROVE  FALSE
  BY <1>1, <1>3 DEF Purge
<1>4. ASSUME NEW p \in Librarian, LibraryStep(p)
      PROVE  p = q /\ (RemoveObject(q) \/ \E m \in Media : PurgeObject(q, m))
  <2>1. p = q
    <3>1. \E j, m, o : AtWork(p, j, m, o)
      BY <1>4 DEF LibraryStep, Register, RemoveObject, RemoveRow, PurgeSettings, PurgeObject,
                  PurgeRow, Done
    <3>. QED
      BY <1>1, <3>1
  <2>2. ~(Register(q) \/ RemoveRow(q) \/ PurgeSettings(q) \/ PurgeRow(q))
    BY DEF Register, RemoveRow, PurgeSettings, PurgeRow
  <2>. QED
    BY <1>4, <2>1, <2>2 DEF LibraryStep
<1>5. ASSUME UNCHANGED job
      PROVE  FALSE
  BY <1>5
<1>6. ASSUME NEW m \in Media,
             Link(m) \/ Unlink(m) \/ PutInCampaign(m) \/ TakeFromCampaign(m)
      PROVE  FALSE
  BY <1>5, <1>6 DEF Link, Unlink, PutInCampaign, TakeFromCampaign, jobs
<1>7. ASSUME NEW r \in Editor, NEW k \in Section, NEW parts \in SUBSET Part,
             NEW m \in Media \cup {NoMedia}, UpdateWithPicture(r, k, parts, m)
      PROVE  FALSE
  BY <1>5, <1>7 DEF UpdateWithPicture, jobs
<1>8. ~SectionMoves
  BY <1>5 DEF SectionMoves, jobs
<1>9. ~Crash
  BY DEF Crash
<1>. QED
  BY <1>2, <1>3, <1>4, <1>6, <1>7, <1>8, <1>9 DEF MediaNext

LEMMA StepInUse ==
  ASSUME LibraryInv, MediaNext, NEW q \in Librarian, NEW m \in Media,
         Deletes(q, m), m \in InUse
  PROVE  m \in claimed[q] \/ (job[q] = "remove" /\ m \notin linked) \/ m \in OnlyMailed
<1>i. Looked(q) /\ MediaTypeOK
  BY DEF LibraryInv
<1>d. job[q] \in {"remove", "purge"} /\ job'[q] \in {"removeRow", "purgeRow"} /\ item'[q] = m
  BY DEF Deletes
<1>1. CASE RemoveObject(q)
  <2>1. job[q] = "remove" /\ item[q] = m
    BY <1>i, <1>d, <1>1 DEF RemoveObject, AtWork, MediaTypeOK
  <2>. QED
    BY <1>i, <2>1 DEF Looked
<1>2. ASSUME NEW n \in Media, PurgeObject(q, n)
      PROVE  m \in claimed[q] \/ m \in OnlyMailed
  <2>1. job[q] = "purge" /\ n = m /\ m \in orphans[q]
    BY <1>i, <1>d, <1>2 DEF PurgeObject, AtWork, MediaTypeOK
  <2>. QED
    BY <1>i, <2>1 DEF Looked, Purging, InUse, OnlyMailed
<1>. QED
  BY <1>d, <1>1, <1>2, WhoDeletes

\* An object is deleted under what refers to it only by a request that looked
\* before, by remove under the settings, or where nothing but a campaign shows
\* the image (remove, purgeOrphans).
THEOREM InUseKeptHolds == MediaSpec => InUseKept
<1>1. ASSUME LibraryInv, [MediaNext]_mediaVars
      PROVE  [\A q \in Librarian, m \in Media : Deletes(q, m) /\ m \in InUse =>
               m \in claimed[q] \/ (job[q] = "remove" /\ m \notin linked) \/ m \in OnlyMailed]_mediaVars
  BY <1>1, StepInUse
<1>. QED
  BY <1>1, LibraryInvariance, PTL DEF MediaSpec, InUseKept
=============================================================================
