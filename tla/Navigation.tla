------------------------------ MODULE Navigation ------------------------------
(***************************************************************************)
(* The items of the site's menu and their parents                          *)
(* (backend/src/navigation/navigation.service.ts).                         *)
(*                                                                         *)
(* Each request asks whether the items it names exist, awaits, and writes; *)
(* the database keeps a parent from being an item that is gone, and sets   *)
(* the parent of the children of a deleted item to null.  The menu is the  *)
(* items without a parent and their children, no deeper.                   *)
(*                                                                         *)
(* A definition whose name starts with M_ is a mutated form of the one     *)
(* below it, used only to show that a property fails of that bug.          *)
(***************************************************************************)
CONSTANTS
  Item,     \* items, each created at most once
  Top,      \* parentId null
  Gone,     \* "no such row"
  Webmaster \* requests that can be in flight at once

ASSUME ItemAssumption == {Top, Gone} \cap Item = {} /\ Top # Gone

VARIABLES
  parent,   \* parentId of an item, Gone when it has no row
  created,  \* items that were ever created
  deed,     \* what a request will do next
  target,   \* the item it is about
  under     \* the parent it was given

navigationVars == <<parent, created, deed, target, under>>

Deed == {"none", "create", "parent", "move", "promote", "delete"}
Place == Item \cup {Top}

-----------------------------------------------------------------------------
(* State functions *)

Live == {i \in Item : parent[i] # Gone}
Roots == {i \in Item : parent[i] = Top}

\* findTree: the items at the top, with their children.
Menu == Roots \cup {i \in Live : parent[i] \in Roots}

\* A parent that update refuses without looking.
M_AnyParent(i, p) == FALSE
OwnParent(i, p) == p = i

\* The parents once an item is deleted.
M_NoForeignKey(i) == [parent EXCEPT ![i] = Gone]
ParentsWithout(i) ==
  [c \in Item |-> IF c = i THEN Gone ELSE IF parent[c] = i THEN Top ELSE parent[c]]

Turn(h, d, i, p) ==
  /\ deed' = [deed EXCEPT ![h] = d]
  /\ target' = [target EXCEPT ![h] = i]
  /\ under' = [under EXCEPT ![h] = p]

Finish(h) == Turn(h, "none", Top, Top)

-----------------------------------------------------------------------------
NavigationInit ==
  /\ parent = [i \in Item |-> Gone] /\ created = {}
  /\ deed = [h \in Webmaster |-> "none"]
  /\ target = [h \in Webmaster |-> Top]
  /\ under = [h \in Webmaster |-> Top]

\* create: a parent that is given must exist.
CreateChecks(h, i, p) ==
  /\ deed[h] = "none" /\ i \notin created
  /\ created' = created \cup {i}
  /\ p \in Live \cup {Top}
  /\ Turn(h, "create", i, p)
  /\ UNCHANGED parent

\* The row is inserted; the foreign key refuses a parent that is gone.
CreateItem(h) ==
  /\ deed[h] = "create"
  /\ parent' = IF under[h] \in Live \cup {Top}
               THEN [parent EXCEPT ![target[h]] = under[h]] ELSE parent
  /\ Finish(h)
  /\ UNCHANGED created

\* update: the item exists, and is not given to itself; then the parent does.
UpdateChecks(h, i, p) ==
  /\ deed[h] = "none" /\ i \in Live
  /\ p \in Place /\ ~OwnParent(i, p)
  /\ Turn(h, IF p = Top THEN "move" ELSE "parent", i, p)
  /\ UNCHANGED <<parent, created>>

ParentChecked(h) ==
  /\ deed[h] = "parent"
  /\ IF under[h] \in Live THEN Turn(h, "move", target[h], under[h]) ELSE Finish(h)
  /\ UNCHANGED <<parent, created>>

\* The row is written by its id; one that is gone is an error.
UpdateItem(h) ==
  /\ deed[h] = "move"
  /\ parent' = IF target[h] \in Live /\ under[h] \in Live \cup {Top}
               THEN [parent EXCEPT ![target[h]] = under[h]] ELSE parent
  /\ Finish(h)
  /\ UNCHANGED created

\* remove: the item exists.
RemoveChecks(h, i) ==
  /\ deed[h] = "none" /\ i \in Live
  /\ Turn(h, "promote", i, Top)
  /\ UNCHANGED <<parent, created>>

\* Its children are promoted,
Promote(h) ==
  /\ deed[h] = "promote"
  /\ parent' = [c \in Item |-> IF parent[c] = target[h] THEN Top ELSE parent[c]]
  /\ Turn(h, "delete", target[h], Top)
  /\ UNCHANGED created

\* and the item is deleted, with whatever children it has gained since.
DeleteItem(h) ==
  /\ deed[h] = "delete"
  /\ parent' = ParentsWithout(target[h])
  /\ Finish(h)
  /\ UNCHANGED created

NavigationNext ==
  \E h \in Webmaster :
    \/ \E i \in Item, p \in Place : CreateChecks(h, i, p) \/ UpdateChecks(h, i, p)
    \/ CreateItem(h) \/ ParentChecked(h) \/ UpdateItem(h)
    \/ \E i \in Item : RemoveChecks(h, i)
    \/ Promote(h) \/ DeleteItem(h)

NavigationSpec == NavigationInit /\ [][NavigationNext]_navigationVars

-----------------------------------------------------------------------------
(* Properties *)

\* What the variables may hold: no item is its own parent, whatever requests
\* about it overlap.
NavigationTypeOK ==
  /\ parent \in [Item -> Item \cup {Top, Gone}]
  /\ \A i \in Item : parent[i] # i
  /\ Live \subseteq created /\ created \subseteq Item
  /\ deed \in [Webmaster -> Deed]
  /\ target \in [Webmaster -> Place] /\ under \in [Webmaster -> Place]

\* A step that moves an item, by an update of that item.
Moves(i) ==
  \E h \in Webmaster : deed[h] = "move" /\ deed'[h] = "none" /\ target[h] = i

\* An item that keeps its row leaves the menu only because somebody moved it,
\* or the item it is under: whatever is created, promoted or deleted meanwhile
\* hides nothing ("Promote children to the root rather than orphaning them").
LeavesForCause ==
  [][\A i \in Menu : i \in Live' \ Menu' =>
       Moves(i) \/ Moves(parent[i])]_navigationVars
===============================================================================
