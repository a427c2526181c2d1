-------------------------------- MODULE Ordered --------------------------------
(***************************************************************************)
(* A list an administrator puts in order: the partners                     *)
(* (backend/src/partners/partners.service.ts, frontend PartnersAdmin.tsx), *)
(* and with the same statements the menu, the missions, the figures, the   *)
(* ways to give and the albums.                                            *)
(*                                                                         *)
(* A new row takes the position after the last, which it reads before it   *)
(* writes.  A move sends the whole list as the screen shows it, with two   *)
(* neighbours swapped, and a transaction numbers the rows again.           *)
(*                                                                         *)
(* A definition whose name starts with M_ is a mutated form of the one     *)
(* below it, used only to show that a property fails of that bug.          *)
(***************************************************************************)
EXTENDS Naturals, SequencesExt

CONSTANTS
  Partner,  \* rows, each created at most once
  NoPartner,
  Screen    \* screens, each with at most one request in flight

ASSUME PartnerAssumption == NoPartner \notin Partner

VARIABLES
  present,  \* the rows
  older,    \* of two rows, which one has the earlier createdAt
  order,    \* the order of a row
  shown,    \* the list a screen shows
  request,  \* what its request will do next
  subject,  \* the row it creates or deletes
  number,   \* the order a creation has worked out
  ids,      \* the list a move sends
  \* History variables.
  known,    \* rows that were ever created, or are about to be
  outrun    \* creations with another write since they read the last position

partners    == <<present, older, order>>
requests    == <<request, subject, number, ids>>
orderedVars == <<partners, shown, requests, known, outrun>>

-----------------------------------------------------------------------------
(* State functions *)

Before(p, q, o, a) == o[p] < o[q] \/ (o[p] = o[q] /\ <<p, q>> \in a)

\* findAll: by order, and then by age.  There is one such list.
Listed ==
  {l \in [1..Cardinality(present) -> present] :
     /\ ToSet(l) = present
     /\ \A i, j \in DOMAIN l : i < j => Before(l[i], l[j], order, older)}

\* nextOrder
M_SchemaDefault == 0
NextOrder == IF present = {} THEN 0 ELSE Max({order[p] : p \in present}) + 1

\* What a move sends: the list with two neighbours swapped.
M_LosesOne(list, i) == [list EXCEPT ![i] = list[i + 1]]
M_SendsTheTwo(list, i) == <<list[i + 1], list[i]>>
Swapped(list, i) == [list EXCEPT ![i] = list[i + 1], ![i + 1] = list[i]]

Put(s, r, p, n, l) ==
  /\ request' = [request EXCEPT ![s] = r]
  /\ subject' = [subject EXCEPT ![s] = p]
  /\ number' = [number EXCEPT ![s] = n]
  /\ ids' = [ids EXCEPT ![s] = l]

Rest(s) == Put(s, "none", NoPartner, 0, <<>>)

\* The table changes under whoever is creating a row.
Outrun(s) == outrun' = outrun \cup {q \in Screen \ {s} : request[q] = "create"}

-----------------------------------------------------------------------------
OrderedInit ==
  /\ present = {} /\ older = {} /\ order = [p \in Partner |-> 0]
  /\ shown = [s \in Screen |-> <<>>]
  /\ request = [s \in Screen |-> "none"]
  /\ subject = [s \in Screen |-> NoPartner]
  /\ number = [s \in Screen |-> 0]
  /\ ids = [s \in Screen |-> <<>>]
  /\ known = {} /\ outrun = {}

\* The list is asked for: after a success, or when the screen is opened.
List(s) ==
  /\ request[s] = "none" /\ shown[s] \notin Listed
  /\ \E l \in Listed : shown' = [shown EXCEPT ![s] = l]
  /\ UNCHANGED <<partners, requests, known, outrun>>

\* create: the last position is read,
CreateReads(s, p) ==
  /\ request[s] = "none" /\ p \notin known
  /\ known' = known \cup {p}
  /\ Put(s, "create", p, NextOrder, <<>>)
  /\ outrun' = outrun \ {s}
  /\ UNCHANGED <<partners, shown>>

\* and the row inserted.
CreateWrites(s) ==
  /\ request[s] = "create"
  /\ present' = present \cup {subject[s]}
  /\ older' = older \cup (present \X {subject[s]})
  /\ order' = [order EXCEPT ![subject[s]] = number[s]]
  /\ Rest(s) /\ Outrun(s)
  /\ UNCHANGED <<shown, known>>

\* A row of the screen's list is deleted; one that is gone is an error.
RemovePartner(s, p) ==
  /\ request[s] = "none" /\ p \in ToSet(shown[s])
  /\ present' = present \ {p}
  /\ older' = older \cap (present' \X present')
  /\ order' = [order EXCEPT ![p] = 0]
  /\ IF p \in present THEN Outrun(s) ELSE UNCHANGED outrun
  /\ UNCHANGED <<shown, requests, known>>

\* The arrows of a row, disabled while a move is on its way.
Move(s, i) ==
  /\ request[s] = "none" /\ i \in 1..(Len(shown[s]) - 1)
  /\ Put(s, "move", NoPartner, 0, Swapped(shown[s], i))
  /\ UNCHANGED <<partners, shown, known, outrun>>

\* reorder: one transaction, which a row that is gone undoes as a whole.
Reorder(s) ==
  LET l == ids[s] IN
  /\ request[s] = "move"
  /\ IF ToSet(l) \subseteq present
     THEN /\ order' = [p \in Partner |->
               IF p \in ToSet(l) THEN (CHOOSE i \in DOMAIN l : l[i] = p) - 1 ELSE order[p]]
          /\ Outrun(s)
     ELSE UNCHANGED <<order, outrun>>
  /\ Rest(s)
  /\ UNCHANGED <<present, older, shown, known>>

OrderedNext ==
  \E s \in Screen :
    \/ List(s)
    \/ \E p \in Partner : CreateReads(s, p) \/ RemovePartner(s, p)
    \/ CreateWrites(s)
    \/ \E i \in 1..Len(shown[s]) : Move(s, i)
    \/ Reorder(s)

OrderedSpec == OrderedInit /\ [][OrderedNext]_orderedVars

-----------------------------------------------------------------------------
(* Properties *)

Lists == {l \in Seq(known) : IsInjective(l)}

OrderedTypeOK ==
  /\ present \subseteq known /\ known \subseteq Partner
  /\ order \in [Partner -> Nat]
  /\ older \subseteq present \X present
  /\ \A p, q \in present : <<p, q>> \in older <=> p # q /\ <<q, p>> \notin older
  /\ shown \in [Screen -> Lists] /\ ids \in [Screen -> Lists]
  /\ request \in [Screen -> {"none", "create", "move"}]
  /\ subject \in [Screen -> Partner \cup {NoPartner}]
  /\ number \in [Screen -> Nat]
  /\ outrun \subseteq Screen

\* A list with two neighbours exchanged.
Exchanged(l, i) == [l EXCEPT ![i] = l[i + 1], ![i + 1] = l[i]]

\* The rows P keep their order among themselves.
OrderStays(P) == \A p, q \in P : Before(p, q, order', older') <=> Before(p, q, order, older)

\* A new row comes after all the others and leaves their order as it was, through
\* every sequence of removals and moves, unless another request wrote between
\* the reading of the last position and the insertion.
NewIsLast ==
  [][\A s \in Screen : request[s] = "create" /\ request'[s] = "none" /\ s \notin outrun =>
       /\ present' = present \cup {subject[s]} /\ subject[s] \notin present
       /\ OrderStays(present)
       /\ \A p \in present : Before(p, subject[s], order', older')]_orderedVars

\* A move is refused when a row of its list is gone, and otherwise gives all the
\* rows its author saw the order they were sent in, whoever wrote since; when
\* the list is still the one on that screen, two neighbours change places and
\* nothing else moves.
MovedAsSent ==
  [][\A s \in Screen : request[s] = "move" /\ request'[s] = "none" =>
       /\ IF ToSet(shown[s]) \subseteq present
          THEN /\ ToSet(ids[s]) = ToSet(shown[s])
               /\ \A i, j \in DOMAIN ids[s] :
                    i < j => Before(ids[s][i], ids[s][j], order', older')
          ELSE OrderStays(present)
       /\ shown[s] \in Listed =>
            \E i \in 1..(Len(shown[s]) - 1) : Exchanged(shown[s], i) \in Listed']_orderedVars

\* Both: an order is what the last request to say so made it.
OrderFollows == NewIsLast /\ MovedAsSent
================================================================================
