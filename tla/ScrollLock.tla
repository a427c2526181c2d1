------------------------------- MODULE ScrollLock ------------------------------
(***************************************************************************)
(* Who stops the page from scrolling under what is open over it            *)
(* (frontend/src/components/ui/Modal.tsx, layout/PublicLayout.tsx,         *)
(* public/Lightbox.tsx).                                                   *)
(*                                                                         *)
(* Dialogs share a counter: the first one remembers document.body's        *)
(* overflow, the last one restores it.  The mobile menu and the picture    *)
(* viewer each remember and restore on their own.                          *)
(*                                                                         *)
(* A definition whose name starts with M_ is a mutated form of the one     *)
(* below it, used only to show that a property fails of that bug.          *)
(***************************************************************************)

EXTENDS Integers, FiniteSets

CONSTANTS
  Dialog,  \* Modal elements
  Menu,    \* the mobile menu of the site
  Viewer   \* Lightbox

Own == {Menu, Viewer}

ASSUME OverlayAssumption == Menu # Viewer /\ Dialog \cap Own = {}

VARIABLES
  overlays,            \* what is open
  above,               \* and what of it was opened after each
  overflow,            \* document.body.style.overflow
  openDialogs,
  overflowBeforeFirst,
  previousOverflow,    \* what the menu and the viewer remember
  \* History variable.
  crossed              \* the menu or the viewer and something else did not
                       \* close in the order that undoes how they opened

scrollVars ==
  <<overlays, above, overflow, openDialogs, overflowBeforeFirst, previousOverflow, crossed>>

Overlay  == Dialog \cup Own
Overflow == {"", "hidden"}

-----------------------------------------------------------------------------
(* State functions *)

\* x closes before something that was opened after it and stays.
Crosses(x) == IF x \in Own THEN above[x] # {} ELSE above[x] \cap Own # {}

M_CountsTheFirst == 1
Counted == openDialogs + 1

M_EachForItself == overflow
BeforeFirst == IF openDialogs = 0 THEN overflow ELSE overflowBeforeFirst

M_EveryOneRestores == overflowBeforeFirst
Released == IF openDialogs = 1 THEN overflowBeforeFirst ELSE overflow

Opens(x) ==
  /\ x \notin overlays /\ overlays' = overlays \cup {x}
  /\ above' = [y \in Overlay |-> IF y \in overlays THEN above[y] \cup {x} ELSE {}]
  /\ UNCHANGED crossed

Closes(x) ==
  /\ x \in overlays /\ overlays' = overlays \ {x}
  /\ above' = [y \in Overlay |-> IF y = x THEN {} ELSE above[y] \ {x}]
  /\ crossed' = (crossed \/ Crosses(x))

-----------------------------------------------------------------------------
ScrollLockInit ==
  /\ overlays = {} /\ above = [x \in Overlay |-> {}]
  /\ overflow = "" /\ openDialogs = 0 /\ overflowBeforeFirst = ""
  /\ previousOverflow = [o \in Own |-> ""] /\ crossed = FALSE

\* lockScroll
LockScroll(d) ==
  /\ Opens(d)
  /\ overflowBeforeFirst' = BeforeFirst
  /\ openDialogs' = Counted
  /\ overflow' = "hidden"
  /\ UNCHANGED previousOverflow

\* releaseScroll, when d closes or the page it is on goes away.
ReleaseScroll(d) ==
  /\ Closes(d)
  /\ openDialogs' = openDialogs - 1
  /\ overflow' = Released
  /\ UNCHANGED <<overflowBeforeFirst, previousOverflow>>

\* The effect of the menu, and of the viewer at the first picture.
OpenOwn(o) ==
  /\ Opens(o)
  /\ previousOverflow' = [previousOverflow EXCEPT ![o] = overflow]
  /\ overflow' = "hidden"
  /\ UNCHANGED <<openDialogs, overflowBeforeFirst>>

\* Their cleanup.
CloseOwn(o) ==
  /\ Closes(o)
  /\ overflow' = previousOverflow[o]
  /\ UNCHANGED <<openDialogs, overflowBeforeFirst, previousOverflow>>

\* Another picture: the viewer's effect is cleaned up, which restores what it
\* remembers, and runs again, which remembers the same.
NextPicture ==
  /\ Viewer \in overlays
  /\ overflow' = "hidden"
  /\ UNCHANGED <<overlays, above, openDialogs, overflowBeforeFirst, previousOverflow, crossed>>

ScrollLockNext ==
  \/ \E d \in Dialog : LockScroll(d) \/ ReleaseScroll(d)
  \/ \E o \in Own : OpenOwn(o) \/ CloseOwn(o)
  \/ NextPicture

ScrollLockSpec == ScrollLockInit /\ [][ScrollLockNext]_scrollVars

-----------------------------------------------------------------------------
(* Properties *)

\* Types; besides, the counter counts the dialogs that are open.
ScrollLockTypeOK ==
  /\ overflow \in Overflow /\ overflowBeforeFirst \in Overflow
  /\ previousOverflow \in [Own -> Overflow] /\ crossed \in BOOLEAN
  /\ overlays \subseteq Overlay /\ above \in [Overlay -> SUBSET Overlay]
  /\ openDialogs = Cardinality(Dialog \cap overlays)

\* The page scrolls exactly when nothing is open over it: dialogs may be torn
\* down in any order, as long as the menu and the viewer are not part of a
\* crossing.
ScrollFollows == ~crossed => (overflow = "hidden" <=> overlays # {})

\* The same without the exception: a page "frozen with no dialog on screen"
\* does not happen.
NeverFrozen == overlays = {} => overflow = ""
=================================================================================
