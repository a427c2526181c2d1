------------------------------ MODULE Accounts ------------------------------
(***************************************************************************)
(* Accounts of the back office (backend/src/users/users.service.ts, the    *)
(* change of password of backend/src/auth/auth.service.ts) and the screen  *)
(* that edits them (frontend/src/pages/admin/UsersAdmin.tsx).              *)
(*                                                                         *)
(* A window shows an account, waits for a person, and sends everything it  *)
(* shows; the service reads, counts and hashes with an await between each, *)
(* and then writes by id.  Two windows therefore overtake each other, and  *)
(* two history variables remember that they did.                           *)
(*                                                                         *)
(* A definition whose name starts with M_ is a mutated form of the one     *)
(* below it, used only to show that a property fails of that bug.          *)
(***************************************************************************)
EXTENDS Naturals, FiniteSets

CONSTANTS
  Account,    \* email addresses an account may have
  Root,       \* the account the seed creates
  Lesser,     \* the roles under SUPER_ADMIN
  Window,     \* windows open on the users' or the password's screen
  NoAccount   \* "no account"

ASSUME AccountAssumption == Root \in Account /\ NoAccount \notin Account
ASSUME LesserAssumption == Lesser # {} /\ Lesser \cap {"SUPER_ADMIN", "absent"} = {}

VARIABLES
  \* The User table.
  role,       \* the role of an account, "absent" when there is no row
  active,     \* its isActive
  must,       \* its mustChangePassword
  chosenBy,   \* who set the password in force
  \* The windows and the requests they send.
  stage,      \* what a window or its request will do next
  kind,       \* the request it is about
  actor,      \* who is signed in there
  about,      \* the account on screen
  form,       \* the role, the isActive and whether a password is sent
  \* History variables.
  touched,    \* the fields of the form somebody changed
  behind,     \* windows that show accounts as they were before a later write
  late        \* requests with a write since the guard let them through

table        == <<role, active, must, chosenBy>>
windows      == <<stage, kind, actor, about, form>>
accountsVars == <<table, windows, touched, behind, late>>

Role  == Lesser \cup {"SUPER_ADMIN"}
Kind  == {"none", "edit", "remove", "create", "password"}
Stage == {"none", "form", "read", "count", "write"}
Field == {"role", "active"}
Form  == [role : Role \cup {"absent"}, active : BOOLEAN, password : BOOLEAN]
Blank == [role |-> "absent", active |-> FALSE, password |-> FALSE]

-----------------------------------------------------------------------------
(* State functions *)

Exists(a) == role[a] # "absent"
SuperAdmins == {a \in Account : role[a] = "SUPER_ADMIN" /\ active[a]}

\* The guard of the users' routes, on the row of whoever sends the request.
MayManage(a) == role[a] = "SUPER_ADMIN" /\ active[a]

\* What the form of an account is opened with.
M_FormForgetsSwitch(a) == [role |-> role[a], active |-> TRUE, password |-> FALSE]
AsListed(a) == [role |-> role[a], active |-> active[a], password |-> FALSE]

\* The refusals of update and of remove for one's own account.
M_OnlyTheSwitchIsOnesOwn(w) == actor[w] = about[w] /\ ~form[w].active
AgainstOneself(w) ==
  /\ actor[w] = about[w]
  /\ kind[w] = "remove" \/ ~form[w].active \/ form[w].role # role[about[w]]

\* assertNotLastSuperAdmin counts the others that are active.
Others(a) == SuperAdmins \ {a}

\* mustChangePassword once an administrator has set a password or not.
M_ResetKeepsFlag(w) == must[about[w]]
MustAfterEdit(w) == form[w].password \/ must[about[w]]

Show(w, k, a, b, f, t) ==
  /\ stage' = [stage EXCEPT ![w] = "form"]
  /\ kind' = [kind EXCEPT ![w] = k]
  /\ actor' = [actor EXCEPT ![w] = a]
  /\ about' = [about EXCEPT ![w] = b]
  /\ form' = [form EXCEPT ![w] = f]
  /\ touched' = [touched EXCEPT ![w] = t]
  /\ UNCHANGED <<table, behind, late>>

Continue(w, s) ==
  /\ stage' = [stage EXCEPT ![w] = s]
  /\ UNCHANGED <<table, kind, actor, about, form, touched, behind, late>>

\* The request is answered and the window closes.
Close(w) ==
  /\ stage' = [stage EXCEPT ![w] = "none"]
  /\ kind' = [kind EXCEPT ![w] = "none"]
  /\ actor' = [actor EXCEPT ![w] = NoAccount]
  /\ about' = [about EXCEPT ![w] = NoAccount]
  /\ form' = [form EXCEPT ![w] = Blank]
  /\ touched' = [touched EXCEPT ![w] = {}]

Refuse(w) ==
  /\ Close(w)
  /\ behind' = behind \ {w} /\ late' = late \ {w}
  /\ UNCHANGED table

\* A write leaves the other windows behind, and the other requests late.
Written(w) ==
  /\ Close(w)
  /\ behind' = {v \in Window \ {w} : stage[v] # "none"}
  /\ late' = {v \in Window \ {w} : v \in late \/ stage[v] \in {"read", "count", "write"}}

-----------------------------------------------------------------------------
\* The seed's super administrator, whose password the deployment chose.
AccountsInit ==
  /\ role = [a \in Account |-> IF a = Root THEN "SUPER_ADMIN" ELSE "absent"]
  /\ active = [a \in Account |-> a = Root]
  /\ must = [a \in Account |-> a = Root]
  /\ chosenBy = [a \in Account |-> IF a = Root THEN "admin" ELSE "nobody"]
  /\ stage = [w \in Window |-> "none"]
  /\ kind = [w \in Window |-> "none"]
  /\ actor = [w \in Window |-> NoAccount]
  /\ about = [w \in Window |-> NoAccount]
  /\ form = [w \in Window |-> Blank]
  /\ touched = [w \in Window |-> {}]
  /\ behind = {} /\ late = {}

\* openEdit, and what a person then changes: the role, the switch (disabled
\* for one's own account), a new password.  All of it will be sent.
OpenEdit(w, a, b, t, r, p) ==
  /\ MayManage(a) /\ Exists(b)
  /\ "role" \in t <=> r # role[b]
  /\ "active" \in t => a # b
  /\ Show(w, "edit", a, b,
       [role     |-> IF "role" \in t THEN r ELSE AsListed(b).role,
        active   |-> IF "active" \in t THEN ~AsListed(b).active ELSE AsListed(b).active,
        password |-> p], t)

\* The confirmation of a deactivation: neither one's own nor an inactive
\* account's.
OpenRemove(w, a, b) ==
  /\ MayManage(a) /\ Exists(b) /\ active[b] /\ a # b
  /\ Show(w, "remove", a, b, [AsListed(b) EXCEPT !.active = FALSE], {"active"})

\* openCreate, for an address that had no account when the list was read.
OpenCreate(w, a, b, r, on) ==
  /\ MayManage(a) /\ ~Exists(b)
  /\ Show(w, "create", a, b, [role |-> r, active |-> on, password |-> TRUE], Field)

\* The password's screen, whether the change is forced or not.
OpenPassword(w, a) ==
  /\ Exists(a) /\ active[a]
  /\ Show(w, "password", a, a, Blank, {})

\* The form is sent: whoever is signed in is read again by the guard.
Submit(w) ==
  /\ stage[w] = "form"
  /\ IF kind[w] = "password" THEN active[actor[w]] ELSE MayManage(actor[w])
  /\ Continue(w, "read")

SubmitRefused(w) ==
  /\ stage[w] = "form"
  /\ ~IF kind[w] = "password" THEN active[actor[w]] ELSE MayManage(actor[w])
  /\ Refuse(w)

\* The form is closed without being sent.
Cancel(w) == stage[w] = "form" /\ Refuse(w)

M_NoGuardRails(w) ==
  /\ stage[w] = "read"
  /\ kind[w] = "create" => ~Exists(about[w])
  /\ Continue(w, "write")

\* update and remove read the account; create looks for the address.  The
\* form always sends a role, so that whoever is a super administrator is
\* always counted against the others.
Read(w) ==
  LET a == about[w] IN
  /\ stage[w] = "read"
  /\ \/ kind[w] \in {"edit", "remove"} /\ ~AgainstOneself(w)
     \/ kind[w] = "create" /\ ~Exists(a)
     \/ kind[w] = "password"
  /\ Continue(w, IF kind[w] \in {"edit", "remove"} /\ role[a] = "SUPER_ADMIN"
                 THEN "count" ELSE "write")

ReadRefused(w) ==
  /\ stage[w] = "read"
  /\ \/ kind[w] \in {"edit", "remove"} /\ AgainstOneself(w)
     \/ kind[w] = "create" /\ Exists(about[w])
  /\ Refuse(w)

Count(w) ==
  /\ stage[w] = "count" /\ Others(about[w]) # {}
  /\ Continue(w, "write")

CountRefused(w) ==
  /\ stage[w] = "count" /\ Others(about[w]) = {}
  /\ Refuse(w)

WriteEdit(w) ==
  LET a == about[w] IN
  /\ stage[w] = "write" /\ kind[w] = "edit"
  /\ role' = [role EXCEPT ![a] = form[w].role]
  /\ active' = [active EXCEPT ![a] = form[w].active]
  /\ must' = [must EXCEPT ![a] = MustAfterEdit(w)]
  /\ chosenBy' = IF form[w].password THEN [chosenBy EXCEPT ![a] = "admin"] ELSE chosenBy
  /\ Written(w)

WriteRemove(w) ==
  /\ stage[w] = "write" /\ kind[w] = "remove"
  /\ active' = [active EXCEPT ![about[w]] = FALSE]
  /\ UNCHANGED <<role, must, chosenBy>>
  /\ Written(w)

\* The unique key on the address refuses a second creation.
WriteCreate(w) ==
  LET a == about[w] IN
  /\ stage[w] = "write" /\ kind[w] = "create" /\ ~Exists(a)
  /\ role' = [role EXCEPT ![a] = form[w].role]
  /\ active' = [active EXCEPT ![a] = form[w].active]
  /\ must' = [must EXCEPT ![a] = TRUE]
  /\ chosenBy' = [chosenBy EXCEPT ![a] = "admin"]
  /\ Written(w)

CreateRefused(w) ==
  /\ stage[w] = "write" /\ kind[w] = "create" /\ Exists(about[w])
  /\ Refuse(w)

\* changePassword, once the current password was proved or was not asked for.
WritePassword(w) ==
  LET a == about[w] IN
  /\ stage[w] = "write" /\ kind[w] = "password"
  /\ must' = [must EXCEPT ![a] = FALSE]
  /\ chosenBy' = [chosenBy EXCEPT ![a] = "owner"]
  /\ UNCHANGED <<role, active>>
  /\ Written(w)

\* A password that is wrong, or is the one in force, changes nothing.
PasswordRefused(w) ==
  /\ stage[w] = "read" /\ kind[w] = "password"
  /\ Refuse(w)

\* A window that shows nothing opens on an account.
Open(w) ==
  /\ stage[w] = "none"
  /\ \/ \E a, b \in Account :
          \/ \E t \in SUBSET Field, r \in Role, p \in BOOLEAN : OpenEdit(w, a, b, t, r, p)
          \/ OpenRemove(w, a, b)
          \/ \E r \in Role, on \in BOOLEAN : OpenCreate(w, a, b, r, on)
     \/ \E a \in Account : OpenPassword(w, a)

AccountsNext ==
  \E w \in Window :
    \/ Open(w)
    \/ Submit(w) \/ SubmitRefused(w) \/ Cancel(w)
    \/ Read(w) \/ ReadRefused(w)
    \/ Count(w) \/ CountRefused(w)
    \/ WriteEdit(w) \/ WriteRemove(w)
    \/ WriteCreate(w) \/ CreateRefused(w)
    \/ WritePassword(w) \/ PasswordRefused(w)

AccountsSpec == AccountsInit /\ [][AccountsNext]_accountsVars

-----------------------------------------------------------------------------
(* Properties *)

AccountsTypeOK ==
  /\ role \in [Account -> Role \cup {"absent"}]
  /\ active \in [Account -> BOOLEAN]
  /\ must \in [Account -> BOOLEAN]
  /\ chosenBy \in [Account -> {"nobody", "admin", "owner"}]
  /\ stage \in [Window -> Stage]
  /\ kind \in [Window -> Kind]
  /\ actor \in [Window -> Account \cup {NoAccount}]
  /\ about \in [Window -> Account \cup {NoAccount}]
  /\ form \in [Window -> Form]
  /\ touched \in [Window -> SUBSET Field]
  /\ behind \subseteq Window /\ late \subseteq Window

\* A password that need not be changed was chosen by the owner of the
\* account: every way an administrator sets one asks for another.
OwnPassword ==
  \A a \in Account : Exists(a) /\ ~must[a] => chosenBy[a] = "owner"

\* A window that is writing.
Writing(w) == stage[w] = "write" /\ stage'[w] = "none"

\* The last active super administrator goes only by a request that another
\* write overtook on its way from the guard to its own write: otherwise, behind
\* a form however old, assertNotLastSuperAdmin holds.
LastSuperAdminGuarded ==
  [][SuperAdmins # {} /\ SuperAdmins' = {} =>
       \E w \in Window : Writing(w) /\ w \in late]_accountsVars

\* Nobody deactivates oneself, however the windows overlap; and nobody changes
\* one's own role or comes back from a deactivation, unless a write landed
\* after the guard had let the request through.
NotOneself ==
  [][\A w \in Window : Writing(w) /\ actor[w] = about[w] =>
       LET a == about[w] IN
       /\ active[a] => active'[a]
       /\ w \notin late => role'[a] = role[a] /\ active'[a] = active[a]]_accountsVars

\* Both: the guard rails of update and remove hold against every overlap that
\* does not pass between the guard and the write it guards.
GuardRails == LastSuperAdminGuarded /\ NotOneself

\* A role or a switch changes because somebody changed it on the screen, or
\* because the screen was behind: it sends what it was opened with, so that
\* editing a name may undo a deactivation.
OnlyWhatWasTouched ==
  [][\A w \in Window : Writing(w) /\ w \notin behind /\ kind[w] # "create" =>
       LET a == about[w] IN
       /\ role'[a] # role[a] => "role" \in touched[w]
       /\ active'[a] # active[a] => "active" \in touched[w]]_accountsVars

\* What assertNotLastSuperAdmin is for, whatever overlaps: somebody can always
\* manage accounts.
SuperAdminRemains == SuperAdmins # {}
=============================================================================
