-------------------------------- MODULE News --------------------------------
(***************************************************************************)
(* The publication of an article (backend/src/news/news.service.ts) by     *)
(* requests of several editors (frontend pages/admin/NewsAdmin.tsx).       *)
(*                                                                         *)
(* A row of the list offers to publish or withdraw the article and to      *)
(* archive it or take it back; the form sends every field it was opened    *)
(* with, and the date of publication only to the minute, as its field holds*)
(* it.  update reads the row, works out the date of publication from what  *)
(* it read, and writes the fields it has.                                  *)
(*                                                                         *)
(* A definition whose name starts with M_ is a mutated form of the one     *)
(* below it, used only to show that a property fails of that bug.          *)
(***************************************************************************)
EXTENDS Integers

CONSTANTS
  Redactor, \* requests that can be in flight at once
  Minute,   \* instants in a minute
  EndOfTime,\* bound: the last instant
  Undated   \* "no date"

ASSUME MinuteAssumption == Minute \in Nat \ {0}
ASSUME EndOfTimeAssumption == EndOfTime \in Nat /\ Undated \notin Nat

VARIABLES
  piece,    \* the article's row
  time,     \* the clock
  step,     \* what a request will do next
  dto,      \* what it sends
  found,    \* the row as update read it
  \* History variables.
  stale,    \* requests whose screen was written over since it was shown
  passed,   \* requests whose row was written since update read it
  changed,  \* what somebody changed on the screen of a request
  muddled   \* a request that another had passed has written the row

newsTraces == <<stale, passed, changed, muddled>>
newsVars   == <<piece, time, step, dto, found, newsTraces>>

Instant == (0..EndOfTime) \cup {Undated}
Piece == [isPublished : BOOLEAN, publishedAt : Instant, archived : BOOLEAN]
Flag == {"yes", "no", "absent"}
Dto == [isPublished : Flag, publishedAt : Instant, archived : Flag]
Draft == [isPublished |-> FALSE, publishedAt |-> Undated, archived |-> FALSE]
NoDto == [isPublished |-> "absent", publishedAt |-> Undated, archived |-> "absent"]
Yes(b) == IF b THEN "yes" ELSE "no"

-----------------------------------------------------------------------------
(* State functions *)

\* The field of a date holds the minute the date is in (toLocalInput), and
\* gives its beginning back.
ToMinute(d) == IF d = Undated THEN Undated ELSE d - (d % Minute)
WholeMinute == {d \in Instant : ToMinute(d) = d}

\* What the form of an article is opened with, and sends if nobody changes it.
M_FormOpensUnpublished == [NoDto EXCEPT !.isPublished = "no"]
AsShown ==
  [NoDto EXCEPT !.isPublished = Yes(piece.isPublished), !.publishedAt = ToMinute(piece.publishedAt)]

\* The date of publication an update leaves.
M_KeepsDateOfDraft(d, e) ==
  IF d.publishedAt # Undated THEN d.publishedAt
  ELSE IF d.isPublished = "yes" /\ ~e.isPublished THEN time ELSE piece.publishedAt
DateOnUpdate(d, e) ==
  IF d.isPublished = "no" THEN Undated
  ELSE IF d.publishedAt # Undated /\ (d.isPublished = "yes" \/ e.isPublished) THEN d.publishedAt
  ELSE IF d.isPublished = "yes" /\ ~e.isPublished THEN time ELSE piece.publishedAt

\* A flag that is not sent is left as it stands; an article that was archived
\* when update read it is not archived again.
After(flag, old) == IF flag = "absent" THEN old ELSE flag = "yes"
ArchivedAfter(flag, e) == After(IF flag = "yes" /\ e.archived THEN "absent" ELSE flag, piece.archived)

Ask(w, d, c) ==
  /\ step[w] = "none" /\ step' = [step EXCEPT ![w] = "sent"]
  /\ dto' = [dto EXCEPT ![w] = d]
  /\ changed' = [changed EXCEPT ![w] = c]
  /\ stale' = stale \ {w} /\ passed' = passed \ {w}
  /\ UNCHANGED <<piece, time, found, muddled>>

-----------------------------------------------------------------------------
\* create: a draft, or an article that goes live at once or on a date, which
\* is a minute of the form.
NewsInit ==
  /\ piece \in {Draft} \cup {[Draft EXCEPT !.isPublished = TRUE, !.publishedAt = d] : d \in WholeMinute \ {Undated}}
  /\ time = 0
  /\ step = [w \in Redactor |-> "none"]
  /\ dto = [w \in Redactor |-> NoDto]
  /\ found = [w \in Redactor |-> Draft]
  /\ stale = {} /\ passed = {} /\ muddled = FALSE
  /\ changed = [w \in Redactor |-> {}]

NewsTick == time < EndOfTime /\ time' = time + 1 /\ UNCHANGED <<piece, step, dto, found, newsTraces>>

\* The buttons of a row, from what the list shows.
TogglePublish(w) ==
  Ask(w, [NoDto EXCEPT !.isPublished = Yes(~piece.isPublished)], {"isPublished"})

ToggleArchive(w) ==
  Ask(w, [NoDto EXCEPT !.archived = Yes(~piece.archived)], {"archived"})

\* The form, whose switch and date may be changed; an emptied date is not sent.
SaveForm(w, c, d) ==
  /\ "date" \in c => d # AsShown.publishedAt
  /\ Ask(w, [AsShown EXCEPT
       !.isPublished = IF "isPublished" \in c THEN Yes(~piece.isPublished) ELSE @,
       !.publishedAt = IF "date" \in c THEN d ELSE @], c)

NewsRead(w) ==
  /\ step[w] = "sent"
  /\ step' = [step EXCEPT ![w] = "read"]
  /\ found' = [found EXCEPT ![w] = piece]
  /\ passed' = passed \ {w}
  /\ UNCHANGED <<piece, time, dto, stale, changed, muddled>>

NewsWrite(w) ==
  LET d == dto[w] IN
  /\ step[w] = "read"
  /\ piece' = [isPublished |-> After(d.isPublished, piece.isPublished),
               publishedAt |-> DateOnUpdate(d, found[w]),
               archived    |-> ArchivedAfter(d.archived, found[w])]
  /\ step' = [step EXCEPT ![w] = "none"]
  /\ dto' = [dto EXCEPT ![w] = NoDto] /\ found' = [found EXCEPT ![w] = Draft]
  /\ changed' = [changed EXCEPT ![w] = {}]
  /\ stale' = {v \in Redactor \ {w} : step[v] # "none"}
  /\ passed' = {v \in Redactor \ {w} : step[v] # "none"}
  /\ muddled' = (muddled \/ w \in passed)
  /\ UNCHANGED time

NewsNext ==
  \/ NewsTick
  \/ \E w \in Redactor :
       \/ TogglePublish(w) \/ ToggleArchive(w)
       \/ \E c \in SUBSET {"isPublished", "date"}, d \in WholeMinute : SaveForm(w, c, d)
       \/ NewsRead(w) \/ NewsWrite(w)

NewsSpec == NewsInit /\ [][NewsNext]_newsVars

-----------------------------------------------------------------------------
(* Properties *)

NewsTypeOK ==
  /\ piece \in Piece /\ time \in 0..EndOfTime
  /\ step \in [Redactor -> {"none", "sent", "read"}]
  /\ dto \in [Redactor -> Dto] /\ found \in [Redactor -> Piece]
  /\ changed \in [Redactor -> SUBSET {"isPublished", "date", "archived"}]
  /\ stale \subseteq Redactor /\ passed \subseteq Redactor /\ muddled \in BOOLEAN

\* "Stamp the publication date the first time the article goes live, and clear
\* it when it goes back to draft so the public ordering stays truthful": an
\* article has a date exactly while it is published, as long as no update was
\* passed by another between its read and its write.
DatedWhilePublished ==
  ~muddled => (piece.isPublished <=> piece.publishedAt # Undated)

\* A date that is past may go back to the beginning of its own minute.
Rounded == piece.publishedAt \in 0..time /\ piece'.publishedAt = ToMinute(piece.publishedAt)

\* Saving a form that nobody has written over since it was opened changes the
\* publication only as its author did: an article neither appears nor
\* disappears because its text was edited, one still to come stays to come for
\* as long, and the date of one that is out moves within its minute only.
EditLeavesPublication ==
  [][\A w \in Redactor : step[w] = "read" /\ step'[w] = "none" /\ w \notin stale =>
       /\ piece'.isPublished # piece.isPublished => "isPublished" \in changed[w]
       /\ piece'.archived # piece.archived => "archived" \in changed[w]
       /\ piece'.publishedAt # piece.publishedAt =>
            changed[w] \cap {"isPublished", "date"} # {} \/ Rounded]_newsVars
=============================================================================
