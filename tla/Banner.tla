--------------------------------- MODULE Banner --------------------------------
(***************************************************************************)
(* The announcements above every page                                      *)
(* (frontend/src/components/public/AnnouncementBanner.tsx).                *)
(*                                                                         *)
(* One line, which turns by itself; what the visitor closed is read from   *)
(* localStorage when the page is loaded and written back from what the tab *)
(* knows.  The position is not corrected when the list gets shorter: it is *)
(* clamped where it is read.                                               *)
(*                                                                         *)
(* A definition whose name starts with M_ is a mutated form of the one     *)
(* below it, used only to show that a property fails of that bug.          *)
(***************************************************************************)

EXTENDS Integers, SequencesExt

CONSTANTS
  Tab,        \* tabs of the site
  Notices,    \* number of announcements there are, in the order of the API
  Capacity,   \* ids kept in storage (20)
  MaxHandled  \* bound: what the visitor and the editors do

ASSUME BannerAssumption ==
  Notices \in Nat \ {0} /\ Capacity \in Nat \ {0} /\ MaxHandled \in Nat

VARIABLES
  stored,     \* DISMISSED_KEY, oldest first
  sealed,     \* localStorage cannot be written
  published,  \* announcements whose display is running
  listed,     \* what each tab was last told: the page as served, then the API
  closed,     \* dismissed, in each tab
  index,      \* the position of each tab
  still,      \* tabs where the banner does not turn: paused, or under the pointer
  handled,
  \* History variables.
  everClosed, \* announcements the visitor closed, in any tab
  overwritten \* storage lost an announcement closed in another tab, or beyond
              \* its capacity

bannerVars ==
  <<stored, sealed, published, listed, closed, index, still, handled, everClosed, overwritten>>

Notice == 1..Notices

-----------------------------------------------------------------------------
(* State functions *)

At(S, k) == CHOOSE i \in S : Cardinality({j \in S : j < i}) = k

\* items: what t may show, in order.
Items(t) == listed[t] \ ToSet(closed[t])

Count(t) == Cardinality(Items(t))

\* Math.min(index, count - 1)
M_NotClamped(t) == index[t]
Position(t) == IF index[t] < Count(t) THEN index[t] ELSE Count(t) - 1

NoNotice == 0

\* current
Current(t) == IF Items(t) = {} THEN NoNotice ELSE At(Items(t), Position(t))

Turning(t) == Count(t) > 1 /\ t \notin still

\* What the interval makes of the position.
M_StopsAtTheEnd(t) == IF index[t] + 1 < Count(t) THEN index[t] + 1 ELSE index[t]
Turned(t) == (index[t] + 1) % Count(t)

\* And the arrows.
M_FromTheIndex(t, step) == (index[t] + step + Count(t)) % Count(t)
Moved(t, step) == (Position(t) + step + Count(t)) % Count(t)

\* slice(-20)
M_KeepsTheFirst(s) == SubSeq(s, 1, IF Len(s) < Capacity THEN Len(s) ELSE Capacity)
LastOf(s) == SubSeq(s, IF Len(s) > Capacity THEN Len(s) - Capacity + 1 ELSE 1, Len(s))

Handles == handled < MaxHandled /\ handled' = handled + 1

-----------------------------------------------------------------------------
BannerInit ==
  /\ stored = <<>> /\ sealed \in BOOLEAN /\ published \in SUBSET Notice
  /\ listed = [t \in Tab |-> published]
  /\ closed = [t \in Tab |-> <<>>] /\ index = [t \in Tab |-> 0] /\ still = {}
  /\ handled = 0 /\ everClosed = {} /\ overwritten = FALSE

\* The page is loaded: the server writes its announcements into it.
LoadBanner(t) ==
  /\ Handles
  /\ listed' = [listed EXCEPT ![t] = published]
  /\ closed' = [closed EXCEPT ![t] = stored]
  /\ index' = [index EXCEPT ![t] = 0]
  /\ still' = still \ {t}
  /\ UNCHANGED <<stored, sealed, published, everClosed, overwritten>>

\* An announcement begins, or ends.
Publishes ==
  /\ Handles
  /\ published' \in SUBSET Notice
  /\ UNCHANGED <<stored, sealed, listed, closed, index, still, everClosed, overwritten>>

\* The API is read again.
Learns(t) ==
  /\ listed[t] # published
  /\ listed' = [listed EXCEPT ![t] = published]
  /\ UNCHANGED <<stored, sealed, published, closed, index, still, handled, everClosed, overwritten>>

\* The interval: eight seconds without a hand on the banner.
Turn(t) ==
  /\ Turning(t)
  /\ index' = [index EXCEPT ![t] = Turned(t)]
  /\ UNCHANGED <<stored, sealed, published, listed, closed, still, handled, everClosed, overwritten>>

\* go
Go(t, step) ==
  /\ Handles /\ Count(t) > 1
  /\ index' = [index EXCEPT ![t] = Moved(t, step)]
  /\ UNCHANGED <<stored, sealed, published, listed, closed, still, everClosed, overwritten>>

\* The button that pauses, and the pointer or the focus over the banner.
HoldsStill(t, s) ==
  /\ Handles /\ Items(t) # {}
  /\ still' = s /\ s \in {still \cup {t}, still \ {t}}
  /\ UNCHANGED <<stored, sealed, published, listed, closed, index, everClosed, overwritten>>

\* close; where storage is blocked nothing is written, and the announcement is
\* closed for the visit only (writeDismissed).
CloseNotice(t) ==
  /\ Handles /\ Items(t) # {}
  /\ LET next == Append(closed[t], Current(t)) IN
       /\ closed' = [closed EXCEPT ![t] = next]
       /\ stored' = IF sealed THEN stored ELSE LastOf(next)
       /\ overwritten' = (overwritten \/ ~(ToSet(stored) \subseteq ToSet(stored')))
  /\ everClosed' = everClosed \cup {Current(t)}
  /\ UNCHANGED <<sealed, published, listed, index, still>>

BannerNext ==
  \/ Publishes
  \/ \E t \in Tab : LoadBanner(t) \/ Learns(t) \/ Turn(t) \/ CloseNotice(t)
  \/ \E t \in Tab, step \in {-1, 1} : Go(t, step)
  \/ \E t \in Tab, s \in SUBSET Tab : HoldsStill(t, s)

\* Intervals fire.
BannerFairness == \A t \in Tab : WF_bannerVars(Turn(t))

BannerSpec == BannerInit /\ [][BannerNext]_bannerVars /\ BannerFairness

-----------------------------------------------------------------------------
(* Properties *)

\* Types; besides, storage is never longer than it may be, and there is a line
\* to show whenever there is an announcement left, however the list shrank.
BannerTypeOK ==
  /\ stored \in Seq(Notice) /\ Len(stored) <= Capacity /\ sealed \in BOOLEAN
  /\ published \subseteq Notice /\ listed \in [Tab -> SUBSET Notice]
  /\ \A t \in Tab : closed[t] \in Seq(Notice) /\ index[t] \in Nat
  /\ still \subseteq Tab /\ handled \in 0..MaxHandled
  /\ everClosed \subseteq Notice /\ overwritten \in BOOLEAN
  /\ \A t \in Tab : Items(t) # {} => Position(t) \in 0..(Count(t) - 1)

\* What was closed is closed on the next visit too, whatever the order it was
\* closed in, unless storage is blocked, or another tab or the capacity pushed
\* it out.
RememberedClosed == sealed \/ overwritten \/ everClosed \subseteq ToSet(stored)

\* An arrow always changes the line: a position the list no longer reaches does
\* not swallow the click.
ArrowsMove ==
  [][\A t \in Tab, step \in {-1, 1} : Go(t, step) => Current(t)' # Current(t)]_bannerVars

\* A banner that turns shows every announcement in its turn.
EveryNoticeShown ==
  \A t \in Tab, i \in Notice :
    Turning(t) /\ i \in Items(t) ~> Current(t) = i \/ ~Turning(t) \/ i \notin Items(t)

\* All three: nothing is shown again, skipped, or stuck.
BannerKeeps == []RememberedClosed /\ ArrowsMove /\ EveryNoticeShown

\* "A closed announcement stays closed - on every page and on the next visit."
ClosedStaysClosed ==
  [][\A t \in Tab : LoadBanner(t) => Items(t)' \cap everClosed = {}]_bannerVars
=================================================================================
