---------------------------- MODULE Announcements ----------------------------
(***************************************************************************)
(* Where an article is seen as the clock goes on: the filters of the API   *)
(* (backend/src/news/announcement.ts) and the state the editor's list      *)
(* shows (frontend lib/announcementForm.ts), over every article the API    *)
(* would store and every instant.                                          *)
(*                                                                         *)
(* A definition whose name starts with M_ is a mutated form of the one     *)
(* below it, used only to show that a property fails of that bug.          *)
(***************************************************************************)
EXTENDS Integers

CONSTANTS
  LastTick,  \* bound: the last instant
  DayLength, \* instants in a day
  NoDate     \* "no date"

ASSUME ClockAssumption == LastTick \in Nat /\ DayLength \in Nat \ {0}
ASSUME NoDateAssumption == NoDate \notin Nat

VARIABLES
  article,   \* the row of an article
  now        \* the clock

announcementsVars == <<article, now>>

Tick == 0..LastTick
Date == Tick \cup {NoDate}
Article == [isPublished : BOOLEAN, publishedAt : Date, archived : BOOLEAN,
            showInBanner : BOOLEAN, showInUpcoming : BOOLEAN,
            visibleFrom : Date, visibleUntil : Date,
            eventStartsAt : Date, eventEndsAt : Date]
Status == {"draft", "scheduled", "published", "archived"}

-----------------------------------------------------------------------------
(* The filters *)

AtOrBefore(d, t) == d = NoDate \/ d <= t
AtOrAfter(d, t) == d = NoDate \/ d >= t

\* checkDates: an end before a start is refused.
InOrder(a, b) == a = NoDate \/ b = NoDate \/ a <= b
Storable(r) == InOrder(r.eventStartsAt, r.eventEndsAt) /\ InOrder(r.visibleFrom, r.visibleUntil)

M_StrictlyBefore(r, t) == r.isPublished /\ ~r.archived /\ (r.publishedAt = NoDate \/ r.publishedAt < t)
VisibleNow(r, t) == r.isPublished /\ ~r.archived /\ AtOrBefore(r.publishedAt, t)

ReachableNow(r, t) == r.isPublished /\ AtOrBefore(r.publishedAt, t)

InWindow(r, t) == AtOrBefore(r.visibleFrom, t) /\ AtOrAfter(r.visibleUntil, t)

Banner(r, t) == VisibleNow(r, t) /\ r.showInBanner /\ InWindow(r, t)

M_NoDay(t) == t
StartOfToday(t) == t - (t % DayLength)

Upcoming(r, t) ==
  /\ VisibleNow(r, t) /\ r.showInUpcoming /\ InWindow(r, t)
  /\ \/ r.eventEndsAt # NoDate /\ r.eventEndsAt >= t
     \/ r.eventEndsAt = NoDate /\ r.eventStartsAt # NoDate /\ r.eventStartsAt >= StartOfToday(t)
     \/ r.eventEndsAt = NoDate /\ r.eventStartsAt = NoDate

\* The four filters of the editor's list.
StatusWhere(s, r, t) ==
  CASE s = "archived"  -> r.archived
    [] s = "draft"     -> ~r.isPublished /\ ~r.archived
    [] s = "scheduled" -> r.isPublished /\ ~r.archived /\ r.publishedAt # NoDate /\ r.publishedAt > t
    [] s = "published" -> VisibleNow(r, t)

\* The badge the list shows beside an article, on the editor's own clock.
ArticleStatus(r, t) ==
  IF r.archived THEN "archived"
  ELSE IF ~r.isPublished THEN "draft"
  ELSE IF r.publishedAt # NoDate /\ r.publishedAt > t THEN "scheduled" ELSE "published"

-----------------------------------------------------------------------------
AnnouncementsInit == now = 0 /\ article \in {r \in Article : Storable(r)}

ClockTicks == now < LastTick /\ now' = now + 1 /\ UNCHANGED article

AnnouncementsSpec == AnnouncementsInit /\ [][ClockTicks]_announcementsVars

-----------------------------------------------------------------------------
(* Properties *)

\* An article is at every instant in exactly one of the states the editor
\* filters by, the very instant of its publication included, and the badge
\* names that one.
OneState ==
  {s \in Status : StatusWhere(s, article, now)} = {ArticleStatus(article, now)}

\* The activity is over: after its end, or after the day it began.
Over(r, t) ==
  IF r.eventEndsAt # NoDate THEN t > r.eventEndsAt
  ELSE r.eventStartsAt # NoDate /\ t \div DayLength > r.eventStartsAt \div DayLength

\* "An activity that has ended is not upcoming, whatever its window says. One
\* with only a start date stays listed for the whole of that day": what may be
\* announced is upcoming until it is over, and a visitor sent to it from there
\* or from the banner finds the page.
UpcomingUntilOver ==
  /\ VisibleNow(article, now) /\ article.showInUpcoming /\ InWindow(article, now) =>
       (Upcoming(article, now) <=> ~Over(article, now))
  /\ Upcoming(article, now) \/ Banner(article, now) => ReachableNow(article, now)

\* Both: every place that shows the article agrees with the clock.
FiltersAgree == OneState /\ UpcomingUntilOver
=============================================================================
