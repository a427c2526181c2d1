--------------------------- MODULE SectionsProofs ---------------------------
(***************************************************************************)
(* Proofs about the sections of the site's settings, for every set of      *)
(* sections, parts and requests and any number of edits.                   *)
(*                                                                         *)
(* What a request holds is what the row holds as long as nobody has        *)
(* written the row since (Current); that it was ever somebody's draft      *)
(* holds however old it is (Drafted).  The list of publishAll keeps its    *)
(* drafts as long as nobody writes a section of it (ListHolds).               *)
(***************************************************************************)
EXTENDS Sections, TLAPS

Placed(r) ==
  /\ task[r] \in {"update", "publish", "discard", "allPublish"} => section[r] \in Section
  /\ task[r] = "allPublish" => section[r] \notin todo[r]

\* What the request relies on of the row it has read.
Current(r) ==
  r \notin overtaken =>
    /\ task[r] = "update" =>
         \A p \in Part \ sent[r] : content[r][p] = OnScreen(section[r])[p]
    /\ task[r] \in {"publish", "discard", "allPublish"} => content[r] = draft[section[r]]

\* Everything that may be published was somebody's draft.
Drafted(r) ==
  task[r] \in {"publish", "allPublish"} => content[r] \in saved[section[r]]

Kept == \A k \in Section : draft[k] # NoDraft => draft[k] \in saved[k]

ListHolds(r) ==
  task[r] \in {"all", "allPublish"} /\ r \notin disturbed =>
    \A k \in todo[r] : draft[k] # NoDraft

RequestInv(r) == Placed(r) /\ Current(r) /\ Drafted(r) /\ ListHolds(r)

SectionsInv ==
  /\ SectionsTypeOK
  /\ Kept
  /\ \A r \in Editor : RequestInv(r)

-----------------------------------------------------------------------------
(* Contents *)

LEMMA DefaultIsContent == Default \in Content
BY EditsAssumption DEF Default, Content

LEMMA NoDraftIsNoContent == NoDraft \notin Content
BY DraftAssumption, EditsAssumption DEF Content

LEMMA MergeIsContent ==
  ASSUME NEW base \in Content, NEW parts \in SUBSET Part, NEW n \in 0..MaxEdits
  PROVE  /\ Merge(base, parts, n) \in Content
         /\ \A p \in Part \ parts : Merge(base, parts, n)[p] = base[p]
BY DEF Merge, Content

\* A draft, or what visitors see: either way a content.
LEMMA BaseIsContent ==
  ASSUME SectionsTypeOK, NEW k \in Section
  PROVE  Base(k) \in Content /\ OnScreen(k) = Base(k)
BY DEF SectionsTypeOK, Base, OnScreen

-----------------------------------------------------------------------------
(* The two kinds of steps: a request reads, or it writes *)

\* A step that reads: the rows stay, and so does every other request.
LEMMA ReadInv ==
  ASSUME SectionsInv, NEW r \in Editor,
         NEW t \in Task, NEW k \in Section \cup {NoSection}, NEW c \in Content,
         NEW s \in SUBSET Part, NEW d \in SUBSET Section,
         Begin(r, t, k, c, s, d),
         UNCHANGED <<value, draft, saved, disturbed>>, edits' \in 0..MaxEdits,
         t \in {"update", "publish", "discard", "allPublish"} => k \in Section,
         t = "allPublish" => k \notin d,
         t = "update" => \A p \in Part \ s : c[p] = OnScreen(k)[p],
         t \in {"publish", "discard", "allPublish"} => c = draft[k] /\ draft[k] # NoDraft,
         t \in {"all", "allPublish"} /\ r \notin disturbed => \A q \in d : draft[q] # NoDraft
  PROVE  SectionsInv'
<1>1. SectionsTypeOK'
  BY DEF SectionsInv, SectionsTypeOK, Begin
<1>2. Kept'
  BY DEF SectionsInv, Kept
<1>3. /\ task'[r] = t /\ section'[r] = k /\ content'[r] = c /\ sent'[r] = s /\ todo'[r] = d
  BY DEF SectionsInv, SectionsTypeOK, Begin
<1>4. RequestInv(r)'
  <2>1. Placed(r)'
    BY <1>3 DEF Placed
  <2>2. Current(r)'
    BY <1>3 DEF Current, OnScreen
  <2>3. Drafted(r)'
    BY <1>3 DEF Drafted, SectionsInv, Kept
  <2>4. ListHolds(r)'
    BY <1>3 DEF ListHolds
  <2>. QED
    BY <2>1, <2>2, <2>3, <2>4 DEF RequestInv
<1>5. ASSUME NEW q \in Editor, q # r PROVE RequestInv(q)'
  <2>1. /\ task'[q] = task[q] /\ section'[q] = section[q] /\ content'[q] = content[q]
        /\ sent'[q] = sent[q] /\ todo'[q] = todo[q]
        /\ q \in overtaken' <=> q \in overtaken
    BY <1>5 DEF SectionsInv, SectionsTypeOK, Begin
  <2>2. RequestInv(q)
    BY DEF SectionsInv
  <2>. QED
    BY <2>1, <2>2 DEF RequestInv, Placed, Current, Drafted, ListHolds, OnScreen
<1>. QED
  BY <1>1, <1>2, <1>4, <1>5 DEF SectionsInv

\* A step that writes: whoever had read the row is overtaken, whoever has it
\* on a list is disturbed, and nobody else had anything of it.
LEMMA WriteFrame ==
  ASSUME SectionsInv, NEW r \in Editor, NEW q \in Editor, q # r,
         section[r] \in Section, Overtake(r),
         \A k \in Section \ {section[r]} : value'[k] = value[k] /\ draft'[k] = draft[k],
         \A k \in Section : saved[k] \subseteq saved'[k],
         task'[q] = task[q], section'[q] = section[q], content'[q] = content[q],
         sent'[q] = sent[q], todo'[q] = todo[q]
  PROVE  RequestInv(q)'
<1>1. RequestInv(q) /\ todo[q] \subseteq Section
  BY DEF SectionsInv, SectionsTypeOK
<1>2. Placed(q)'
  BY <1>1 DEF RequestInv, Placed
<1>3. Current(q)'
  <2>1. CASE section[q] = section[r]
    BY <2>1 DEF Current, Overtake
  <2>2. CASE section[q] # section[r]
    BY <1>1, <2>2 DEF RequestInv, Placed, Current, Overtake, OnScreen
  <2>. QED
    BY <2>1, <2>2
<1>4. Drafted(q)'
  BY <1>1 DEF RequestInv, Placed, Drafted
<1>5. ListHolds(q)'
  <2>1. CASE section[r] \in todo[q]
    BY <2>1 DEF ListHolds, Overtake
  <2>2. CASE section[r] \notin todo[q]
    BY <1>1, <2>2 DEF RequestInv, ListHolds, Overtake
  <2>. QED
    BY <2>1, <2>2
<1>. QED
  BY <1>2, <1>3, <1>4, <1>5 DEF RequestInv

LEMMA EndType ==
  ASSUME SectionsTypeOK, NEW r \in Editor, End(r)
  PROVE  /\ task' \in [Editor -> Task] /\ section' \in [Editor -> Section \cup {NoSection}]
         /\ content' \in [Editor -> Content] /\ sent' \in [Editor -> SUBSET Part]
         /\ todo' \in [Editor -> SUBSET Section]
         /\ task'[r] = "none"
         /\ \A q \in Editor \ {r} :
              /\ task'[q] = task[q] /\ section'[q] = section[q] /\ content'[q] = content[q]
              /\ sent'[q] = sent[q] /\ todo'[q] = todo[q]
BY DefaultIsContent DEF SectionsTypeOK, End, Task

\* A request that is over has nothing to keep.
LEMMA RequestEnded ==
  ASSUME NEW r \in Editor, task'[r] = "none"
  PROVE  RequestInv(r)'
BY DEF RequestInv, Placed, Current, Drafted, ListHolds

\* A write that ends its request.
LEMMA WriteInv ==
  ASSUME SectionsInv, NEW r \in Editor, section[r] \in Section, End(r), Overtake(r),
         value' \in [Section -> Content], draft' \in [Section -> Content \cup {NoDraft}],
         saved' \in [Section -> SUBSET Content], UNCHANGED edits, Kept',
         \A k \in Section \ {section[r]} : value'[k] = value[k] /\ draft'[k] = draft[k],
         \A k \in Section : saved[k] \subseteq saved'[k]
  PROVE  SectionsInv'
<1>1. SectionsTypeOK'
  BY EndType DEF SectionsInv, SectionsTypeOK, Overtake
<1>2. RequestInv(r)'
  BY EndType, RequestEnded DEF SectionsInv
<1>3. ASSUME NEW q \in Editor, q # r PROVE RequestInv(q)'
  BY <1>3, EndType, WriteFrame DEF SectionsInv
<1>. QED
  BY <1>1, <1>2, <1>3 DEF SectionsInv

-----------------------------------------------------------------------------
(* The invariant *)

LEMMA SectionsInitInv == SectionsInit => SectionsInv
<1>. SUFFICES ASSUME SectionsInit PROVE SectionsInv
  OBVIOUS
<1>1. SectionsTypeOK
  BY DefaultIsContent, EditsAssumption DEF SectionsInit, SectionsTypeOK, Task
<1>2. Kept
  BY DEF SectionsInit, Kept
<1>3. ASSUME NEW r \in Editor PROVE RequestInv(r)
  BY DEF SectionsInit, RequestInv, Placed, Current, Drafted, ListHolds
<1>. QED
  BY <1>1, <1>2, <1>3 DEF SectionsInv

LEMMA UpdateReadInv ==
  ASSUME SectionsInv, NEW r \in Editor, NEW k \in Section, NEW parts \in SUBSET Part,
         UpdateRead(r, k, parts)
  PROVE  SectionsInv'
<1>1. /\ edits < MaxEdits /\ edits' = edits + 1
      /\ Begin(r, "update", k, Merge(Base(k), parts, edits + 1), parts, {})
      /\ UNCHANGED <<value, draft, saved, disturbed>>
  BY DEF UpdateRead
<1>2. edits + 1 \in 0..MaxEdits
  BY <1>1, EditsAssumption DEF SectionsInv, SectionsTypeOK
<1>3. Base(k) \in Content /\ OnScreen(k) = Base(k)
  BY BaseIsContent DEF SectionsInv
<1>4. PICK n \in 0..MaxEdits : n = edits + 1
  BY <1>2
<1>5. /\ Merge(Base(k), parts, n) \in Content
      /\ \A p \in Part \ parts : Merge(Base(k), parts, n)[p] = OnScreen(k)[p]
  BY <1>3, MergeIsContent
<1>6. /\ Begin(r, "update", k, Merge(Base(k), parts, n), parts, {})
      /\ UNCHANGED <<value, draft, saved, disturbed>> /\ edits' \in 0..MaxEdits
  BY <1>1, <1>4
<1>. QED
  BY <1>5, <1>6, ReadInv DEF Task

LEMMA UpdateWriteInv ==
  ASSUME SectionsInv, NEW r \in Editor, UpdateWrite(r)
  PROVE  SectionsInv'
<1>t. /\ SectionsTypeOK /\ Kept /\ section[r] \in Section /\ content[r] \in Content
  BY DEF UpdateWrite, SectionsInv, SectionsTypeOK, RequestInv, Placed
<1>1. /\ End(r) /\ Overtake(r) /\ UNCHANGED edits /\ value' = value
      /\ draft' = [draft EXCEPT ![section[r]] = content[r]]
      /\ saved' = [saved EXCEPT ![section[r]] = @ \cup {content[r]}]
  BY DEF UpdateWrite, ValueOnUpdate
<1>2. /\ draft' \in [Section -> Content \cup {NoDraft}] /\ saved' \in [Section -> SUBSET Content]
      /\ value' \in [Section -> Content]
  BY <1>t, <1>1 DEF SectionsTypeOK
<1>3. /\ \A k \in Section \ {section[r]} : value'[k] = value[k] /\ draft'[k] = draft[k]
      /\ \A k \in Section : saved[k] \subseteq saved'[k]
  BY <1>t, <1>1 DEF SectionsTypeOK
<1>4. Kept'
  BY <1>t, <1>1 DEF Kept, SectionsTypeOK
<1>. QED
  BY <1>t, <1>1, <1>2, <1>3, <1>4, WriteInv

LEMMA PublishWriteInv ==
  ASSUME SectionsInv, NEW r \in Editor, PublishWrite(r)
  PROVE  SectionsInv'
<1>t. /\ SectionsTypeOK /\ Kept /\ section[r] \in Section /\ content[r] \in Content
  BY DEF PublishWrite, SectionsInv, SectionsTypeOK, RequestInv, Placed
<1>1. /\ End(r) /\ Overtake(r) /\ UNCHANGED <<edits, saved>>
      /\ value' = [value EXCEPT ![section[r]] = content[r]]
      /\ draft' = [draft EXCEPT ![section[r]] = NoDraft]
  BY DEF PublishWrite, DraftOnPublish
<1>2. /\ draft' \in [Section -> Content \cup {NoDraft}] /\ saved' \in [Section -> SUBSET Content]
      /\ value' \in [Section -> Content]
  BY <1>t, <1>1 DEF SectionsTypeOK
<1>3. /\ \A k \in Section \ {section[r]} : value'[k] = value[k] /\ draft'[k] = draft[k]
      /\ \A k \in Section : saved[k] \subseteq saved'[k]
  BY <1>t, <1>1 DEF SectionsTypeOK
<1>4. Kept'
  BY <1>t, <1>1 DEF Kept, SectionsTypeOK
<1>. QED
  BY <1>t, <1>1, <1>2, <1>3, <1>4, WriteInv

LEMMA DiscardWriteInv ==
  ASSUME SectionsInv, NEW r \in Editor, DiscardWrite(r)
  PROVE  SectionsInv'
<1>t. /\ SectionsTypeOK /\ Kept /\ section[r] \in Section
  BY DEF DiscardWrite, SectionsInv, SectionsTypeOK, RequestInv, Placed
<1>1. /\ End(r) /\ Overtake(r) /\ UNCHANGED <<value, edits, saved>>
      /\ draft' = [draft EXCEPT ![section[r]] = NoDraft]
  BY DEF DiscardWrite
<1>2. /\ draft' \in [Section -> Content \cup {NoDraft}] /\ saved' \in [Section -> SUBSET Content]
      /\ value' \in [Section -> Content]
  BY <1>t, <1>1 DEF SectionsTypeOK
<1>3. /\ \A k \in Section \ {section[r]} : value'[k] = value[k] /\ draft'[k] = draft[k]
      /\ \A k \in Section : saved[k] \subseteq saved'[k]
  BY <1>t, <1>1 DEF SectionsTypeOK
<1>4. Kept'
  BY <1>t, <1>1 DEF Kept, SectionsTypeOK
<1>. QED
  BY <1>t, <1>1, <1>2, <1>3, <1>4, WriteInv

\* publishAll at a section: it is no longer on the list, so that its own write
\* takes no draft from the rest.
LEMMA AllPublishWriteInv ==
  ASSUME SectionsInv, NEW r \in Editor, AllPublishWrite(r)
  PROVE  SectionsInv'
<1>t. /\ SectionsTypeOK /\ Kept /\ RequestInv(r) /\ task[r] = "allPublish"
      /\ section[r] \in Section /\ content[r] \in Content /\ section[r] \notin todo[r]
  BY DEF AllPublishWrite, SectionsInv, SectionsTypeOK, RequestInv, Placed
<1>1. /\ Overtake(r) /\ UNCHANGED <<edits, saved>>
      /\ value' = [value EXCEPT ![section[r]] = content[r]]
      /\ draft' = [draft EXCEPT ![section[r]] = NoDraft]
  BY DEF AllPublishWrite, DraftOnPublish
<1>2. /\ draft' \in [Section -> Content \cup {NoDraft}] /\ saved' \in [Section -> SUBSET Content]
      /\ value' \in [Section -> Content]
  BY <1>t, <1>1 DEF SectionsTypeOK
<1>3. /\ \A k \in Section \ {section[r]} : value'[k] = value[k] /\ draft'[k] = draft[k]
      /\ \A k \in Section : saved[k] \subseteq saved'[k]
  BY <1>t, <1>1 DEF SectionsTypeOK
<1>4. Kept'
  BY <1>t, <1>1 DEF Kept, SectionsTypeOK
<1>5. CASE todo[r] = {}
  BY <1>t, <1>1, <1>2, <1>3, <1>4, <1>5, WriteInv DEF AllPublishWrite
<1>6. CASE todo[r] # {}
  <2>1. /\ task' = [task EXCEPT ![r] = "all"]
        /\ section' = [section EXCEPT ![r] = NoSection]
        /\ content' = [content EXCEPT ![r] = Default]
        /\ UNCHANGED <<sent, todo>>
    BY <1>6 DEF AllPublishWrite
  <2>2. SectionsTypeOK'
    BY <1>t, <1>1, <1>2, <2>1, DefaultIsContent DEF SectionsTypeOK, Overtake, Task
  <2>3. RequestInv(r)'
    <3>1. task'[r] = "all" /\ todo'[r] = todo[r]
      BY <1>t, <2>1 DEF SectionsTypeOK
    <3>2. ListHolds(r)'
      BY <1>t, <1>1, <1>3, <1>6, <3>1 DEF RequestInv, ListHolds, Overtake, SectionsTypeOK
    <3>. QED
      BY <3>1, <3>2 DEF RequestInv, Placed, Current, Drafted
  <2>4. ASSUME NEW q \in Editor, q # r PROVE RequestInv(q)'
    <3>1. /\ task'[q] = task[q] /\ section'[q] = section[q] /\ content'[q] = content[q]
          /\ sent'[q] = sent[q] /\ todo'[q] = todo[q]
      BY <1>t, <2>1, <2>4 DEF SectionsTypeOK
    <3>. QED
      BY <1>t, <1>1, <1>3, <2>4, <3>1, WriteFrame
  <2>. QED
    BY <1>4, <2>2, <2>3, <2>4 DEF SectionsInv
<1>. QED
  BY <1>5, <1>6

LEMMA AllStopsInv ==
  ASSUME SectionsInv, NEW r \in Editor, NEW k \in Section, AllStops(r, k)
  PROVE  SectionsInv'
<1>1. /\ End(r) /\ overtaken' = overtaken \ {r} /\ disturbed' = disturbed \ {r}
      /\ UNCHANGED <<value, draft, edits, saved>>
  BY DEF AllStops, settings
<1>2. SectionsTypeOK'
  BY <1>1, EndType DEF SectionsInv, SectionsTypeOK
<1>3. Kept'
  BY <1>1 DEF SectionsInv, Kept
<1>4. RequestInv(r)'
  BY <1>1, EndType, RequestEnded DEF SectionsInv
<1>5. ASSUME NEW q \in Editor, q # r PROVE RequestInv(q)'
  <2>1. /\ task'[q] = task[q] /\ section'[q] = section[q] /\ content'[q] = content[q]
        /\ sent'[q] = sent[q] /\ todo'[q] = todo[q]
        /\ q \in overtaken' <=> q \in overtaken
        /\ q \in disturbed' <=> q \in disturbed
    BY <1>1, <1>5, EndType DEF SectionsInv
  <2>2. RequestInv(q)
    BY DEF SectionsInv
  <2>. QED
    BY <1>1, <2>1, <2>2 DEF RequestInv, Placed, Current, Drafted, ListHolds, OnScreen
<1>. QED
  BY <1>2, <1>3, <1>4, <1>5 DEF SectionsInv

LEMMA SectionsNextInv == SectionsInv /\ [SectionsNext]_sectionsVars => SectionsInv'
<1>. SUFFICES ASSUME SectionsInv, [SectionsNext]_sectionsVars PROVE SectionsInv'
  OBVIOUS
<1>t. SectionsTypeOK
  BY DEF SectionsInv
<1>0. CASE UNCHANGED sectionsVars
  <2>1. SectionsTypeOK'
    BY <1>0 DEF SectionsInv, SectionsTypeOK, sectionsVars, settings, editors
  <2>2. Kept'
    BY <1>0 DEF SectionsInv, Kept, sectionsVars, settings
  <2>3. ASSUME NEW r \in Editor PROVE RequestInv(r)'
    BY <1>0 DEF SectionsInv, RequestInv, Placed, Current, Drafted, ListHolds, OnScreen,
                sectionsVars, settings, editors
  <2>. QED
    BY <2>1, <2>2, <2>3 DEF SectionsInv
<1>1. CASE UpdateStarts
  BY <1>1, UpdateReadInv DEF UpdateStarts
<1>2. ASSUME NEW r \in Editor, NEW k \in Section, PublishRead(r, k) PROVE SectionsInv'
  <2>1. /\ Begin(r, "publish", k, draft[k], {}, {})
        /\ UNCHANGED <<value, draft, edits, saved, disturbed>>
        /\ draft[k] # NoDraft /\ draft[k] \in Content
    BY <1>2, <1>t DEF PublishRead, settings, SectionsTypeOK
  <2>. QED
    BY <2>1, <1>t, ReadInv DEF SectionsTypeOK, Task
<1>3. ASSUME NEW r \in Editor, NEW k \in Section, DiscardRead(r, k) PROVE SectionsInv'
  <2>1. /\ Begin(r, "discard", k, draft[k], {}, {})
        /\ UNCHANGED <<value, draft, edits, saved, disturbed>>
        /\ draft[k] # NoDraft /\ draft[k] \in Content
    BY <1>3, <1>t DEF DiscardRead, settings, SectionsTypeOK
  <2>. QED
    BY <2>1, <1>t, ReadInv DEF SectionsTypeOK, Task
<1>4. ASSUME NEW r \in Editor, AllRead(r) PROVE SectionsInv'
  <2>1. /\ Begin(r, "all", NoSection, Default, {}, Pending)
        /\ UNCHANGED <<value, draft, edits, saved, disturbed>>
    BY <1>4 DEF AllRead, settings
  <2>2. Pending \in SUBSET Section /\ \A q \in Pending : draft[q] # NoDraft
    BY DEF Pending
  <2>. QED
    BY <2>1, <2>2, <1>t, ReadInv, DefaultIsContent DEF SectionsTypeOK, Task
<1>5. ASSUME NEW r \in Editor, NEW k \in Section, AllPublishRead(r, k) PROVE SectionsInv'
  <2>1. /\ Begin(r, "allPublish", k, draft[k], {}, todo[r] \ {k})
        /\ UNCHANGED <<value, draft, edits, saved, disturbed>>
        /\ draft[k] # NoDraft /\ draft[k] \in Content /\ todo[r] \ {k} \in SUBSET Section
    BY <1>5, <1>t DEF AllPublishRead, Remaining, settings, SectionsTypeOK
  <2>2. r \notin disturbed => \A q \in todo[r] \ {k} : draft[q] # NoDraft
    BY <1>5 DEF AllPublishRead, SectionsInv, RequestInv, ListHolds
  <2>. QED
    BY <2>1, <2>2, <1>t, ReadInv DEF SectionsTypeOK, Task
<1>. QED
  BY <1>0, <1>1, <1>2, <1>3, <1>4, <1>5, UpdateWriteInv, PublishWriteInv, DiscardWriteInv,
     AllPublishWriteInv, AllStopsInv DEF SectionsNext, SectionsRest

THEOREM SectionsInvariance == SectionsSpec => []SectionsInv
BY SectionsInitInv, SectionsNextInv, PTL DEF SectionsSpec

-----------------------------------------------------------------------------
(* What a step may do *)

\* The actions of one request.
Acts(r) ==
  \/ \E k \in Section, parts \in SUBSET Part : UpdateRead(r, k, parts)
  \/ UpdateWrite(r)
  \/ \E k \in Section : PublishRead(r, k)
  \/ PublishWrite(r)
  \/ \E k \in Section : DiscardRead(r, k)
  \/ DiscardWrite(r)
  \/ AllRead(r)
  \/ \E k \in Section : AllPublishRead(r, k)
  \/ AllPublishWrite(r)
  \/ \E k \in Section : AllStops(r, k)

LEMMA SomebodyActs == SectionsNext => \E r \in Editor : Acts(r)
BY DEF SectionsNext, UpdateStarts, SectionsRest, Acts

\* A request that acts leaves the tasks of the others.
LEMMA OthersStay ==
  ASSUME SectionsTypeOK, NEW r \in Editor, NEW q \in Editor, q # r, Acts(r)
  PROVE  task'[q] = task[q]
<1>1. CASE UpdateWrite(r) \/ PublishWrite(r) \/ DiscardWrite(r) \/ \E k \in Section : AllStops(r, k)
  BY <1>1, EndType DEF UpdateWrite, PublishWrite, DiscardWrite, AllStops
<1>2. CASE AllPublishWrite(r)
  <2>1. End(r) \/ task' = [task EXCEPT ![r] = "all"]
    BY <1>2 DEF AllPublishWrite
  <2>. QED
    BY <2>1, EndType DEF SectionsTypeOK
<1>3. CASE \/ \E k \in Section, parts \in SUBSET Part : UpdateRead(r, k, parts)
           \/ \E k \in Section : PublishRead(r, k) \/ DiscardRead(r, k) \/ AllPublishRead(r, k)
           \/ AllRead(r)
  BY <1>3 DEF UpdateRead, PublishRead, DiscardRead, AllPublishRead, AllRead, Begin, SectionsTypeOK
<1>. QED
  BY <1>1, <1>2, <1>3 DEF Acts

\* A request that writes is not one that reads.
LEMMA WhoseWrite ==
  ASSUME SectionsTypeOK, SectionsNext, NEW r \in Editor, Writes(r)
  PROVE  UpdateWrite(r) \/ PublishWrite(r) \/ DiscardWrite(r) \/ AllPublishWrite(r)
<1>1. PICK q \in Editor : Acts(q)
  BY SomebodyActs
<1>2. q = r
  BY <1>1, OthersStay DEF Writes
<1>3. task[r] \notin {"none", "all"} /\ task'[r] \in {"none", "all"}
  BY DEF Writes
<1>. QED
  BY <1>1, <1>2, <1>3 DEF Acts, UpdateRead, PublishRead, DiscardRead, AllRead, AllPublishRead, AllStops

\* What the row holds is what the request had read of it.
LEMMA StepNoEditLost ==
  ASSUME SectionsInv, SectionsNext, NEW r \in Editor, NEW k \in Section,
         Writes(r), section[r] = k, r \notin overtaken
  PROVE  CASE task[r] = "update" -> \A p \in Part \ sent[r] : OnScreen(k)'[p] = OnScreen(k)[p]
           [] task[r] = "discard" -> content[r] = draft[k]
           [] OTHER -> value'[k] = draft[k]
<1>t. SectionsTypeOK /\ RequestInv(r)
  BY DEF SectionsInv
<1>1. CASE UpdateWrite(r)
  <2>1. task[r] = "update" /\ draft'[k] = content[r] /\ content[r] # NoDraft
    BY <1>t, <1>1, NoDraftIsNoContent DEF UpdateWrite, SectionsTypeOK
  <2>2. OnScreen(k)' = content[r]
    BY <2>1 DEF OnScreen
  <2>3. \A p \in Part \ sent[r] : content[r][p] = OnScreen(k)[p]
    BY <1>t, <2>1 DEF RequestInv, Current
  <2>4. \A p \in Part \ sent[r] : OnScreen(k)'[p] = OnScreen(k)[p]
    BY <2>2, <2>3
  <2>. HIDE DEF OnScreen
  <2>. QED
    BY <2>1, <2>4
<1>2. CASE DiscardWrite(r)
  BY <1>t, <1>2 DEF DiscardWrite, RequestInv, Current
<1>3. CASE PublishWrite(r) \/ AllPublishWrite(r)
  <2>1. /\ task[r] \in {"publish", "allPublish"}
        /\ value'[k] = content[r]
    BY <1>t, <1>3 DEF PublishWrite, AllPublishWrite, SectionsTypeOK
  <2>2. content[r] = draft[k]
    BY <1>t, <2>1 DEF RequestInv, Current
  <2>. QED
    BY <2>1, <2>2
<1>. QED
  BY <1>t, <1>1, <1>2, <1>3, WhoseWrite

\* Only a publication changes what visitors see, and it takes the draft away.
LEMMA StepPublication ==
  ASSUME SectionsInv, SectionsNext, NEW k \in Section, value'[k] # value[k]
  PROVE  value'[k] \in saved[k] /\ draft'[k] = NoDraft
<1>1. PICK r \in Editor : Acts(r)
  BY SomebodyActs
<1>t. SectionsTypeOK /\ RequestInv(r)
  BY DEF SectionsInv
<1>2. CASE PublishWrite(r) \/ AllPublishWrite(r)
  <2>1. /\ task[r] \in {"publish", "allPublish"}
        /\ value' = [value EXCEPT ![section[r]] = content[r]]
        /\ draft' = [draft EXCEPT ![section[r]] = NoDraft]
    BY <1>2 DEF PublishWrite, AllPublishWrite, DraftOnPublish
  <2>2. k = section[r]
    BY <1>t, <2>1 DEF SectionsTypeOK
  <2>3. content[r] \in saved[k]
    BY <1>t, <2>1, <2>2 DEF RequestInv, Drafted
  <2>. QED
    BY <1>t, <2>1, <2>2, <2>3 DEF SectionsTypeOK
<1>3. CASE ~(PublishWrite(r) \/ AllPublishWrite(r))
  <2>1. value' = value
    BY <1>1, <1>3 DEF Acts, UpdateRead, UpdateWrite, ValueOnUpdate, PublishRead, DiscardRead,
                      DiscardWrite, AllRead, AllPublishRead, AllStops, settings
  <2>. QED
    BY <2>1
<1>. QED
  BY <1>2, <1>3

\* publishAll stops at a draft somebody else took from its list.
LEMMA StepPublishAll ==
  ASSUME SectionsInv, SectionsNext, NEW r \in Editor, task[r] = "all", task'[r] = "none"
  PROVE  r \in disturbed
<1>1. PICK q \in Editor : Acts(q)
  BY SomebodyActs
<1>t. SectionsTypeOK /\ RequestInv(r)
  BY DEF SectionsInv
<1>2. q = r
  BY <1>t, <1>1, OthersStay
<1>3. CASE \E k \in Section : AllStops(r, k)
  BY <1>t, <1>3 DEF AllStops, RequestInv, ListHolds
<1>4. CASE \E k \in Section : AllPublishRead(r, k)
  BY <1>t, <1>4 DEF AllPublishRead, Begin, SectionsTypeOK
<1>. QED
  BY <1>1, <1>2, <1>3, <1>4 DEF Acts, UpdateRead, UpdateWrite, PublishRead, PublishWrite,
     DiscardRead, DiscardWrite, AllRead, AllPublishWrite

-----------------------------------------------------------------------------
(* The results *)

\* Every section and request is of its type (settings.service).
THEOREM SectionsTyped == SectionsSpec => []SectionsTypeOK
<1>1. SectionsInv => SectionsTypeOK
  BY DEF SectionsInv
<1>. QED
  BY <1>1, SectionsInvariance, PTL

\* An update wipes nothing it was not given, and what leaves the draft is
\* published or was shown to whoever discards it (update, publish, discard).
THEOREM NoEditLostHolds == SectionsSpec => NoEditLost
<1>1. ASSUME SectionsInv, [SectionsNext]_sectionsVars
      PROVE  [\A r \in Editor, k \in Section :
               Writes(r) /\ section[r] = k /\ r \notin overtaken =>
               CASE task[r] = "update" -> \A p \in Part \ sent[r] : OnScreen(k)'[p] = OnScreen(k)[p]
                 [] task[r] = "discard" -> content[r] = draft[k]
                 [] OTHER -> value'[k] = draft[k]]_sectionsVars
  BY <1>1, StepNoEditLost
<1>. QED
  BY <1>1, SectionsInvariance, PTL DEF SectionsSpec, NoEditLost

\* What visitors see changes into a whole draft, and only by a publication
\* (publish, publishAll).
THEOREM PublicationIsWholeHolds == SectionsSpec => PublicationIsWhole
<1>1. ASSUME SectionsInv, [SectionsNext]_sectionsVars
      PROVE  [\A k \in Section : value'[k] # value[k] =>
               value'[k] \in saved[k] /\ draft'[k] = NoDraft]_sectionsVars
  BY <1>1, StepPublication
<1>. QED
  BY <1>1, SectionsInvariance, PTL DEF SectionsSpec, PublicationIsWhole

\* publishAll stops half way only because another request wrote a section of
\* its list (publishAll).
THEOREM PublishAllHolds == SectionsSpec => PublishAllStopsForCause
<1>1. ASSUME SectionsInv, [SectionsNext]_sectionsVars
      PROVE  [\A r \in Editor : task[r] = "all" /\ task'[r] = "none" => r \in disturbed]_sectionsVars
  BY <1>1, StepPublishAll
<1>. QED
  BY <1>1, SectionsInvariance, PTL DEF SectionsSpec, PublishAllStopsForCause

\* All three (settings.service).
THEOREM SectionsHoldProved == SectionsSpec => SectionsHold
BY NoEditLostHolds, PublicationIsWholeHolds, PublishAllHolds DEF SectionsHold, PublicationHolds
=============================================================================
