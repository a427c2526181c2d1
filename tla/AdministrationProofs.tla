------------------------ MODULE AdministrationProofs ------------------------
(*****************************************************************************)
(* Proofs about who may do what and what they are shown of it: the accounts, *)
(* the permissions, the editor of a campaign and what search engines are told, *)
(* for every set of people, windows, rows and pages and any number of requests. *)
(* The media library is in MediaLibraryProofs.                               *)
(*                                                                           *)
(* Each component has an inductive invariant of its own.  It says of each    *)
(* window, or of each browser, what its request has established so far and how *)
(* long that holds: of the table of accounts as long as the request is not late *)
(* or the form not behind, of the campaign as long as its version is the one *)
(* that was shown, of a shell as long as the cache may keep it.  The last    *)
(* section carries the results over to the components side by side, the      *)
(* specification TLC runs.                                                   *)
(*****************************************************************************)
EXTENDS MCAdministration, MediaLibraryProofs, TLAPS

-----------------------------------------------------------------------------
(* The accounts *)

InFlight(w) == stage[w] \in {"read", "count", "write"}

\* Whoever a window is about is there, and so is whoever sits at it.
Present(w) ==
  stage[w] # "none" =>
    /\ kind[w] # "none"
    /\ actor[w] \in Account /\ Exists(actor[w])
    /\ about[w] \in Account
    /\ kind[w] # "create" => Exists(about[w])
    /\ kind[w] # "password" => form[w].role \in Role
    /\ kind[w] = "password" => actor[w] = about[w]

\* The form holds what the table holds, but for what was touched.
AsShown(w) ==
  stage[w] # "none" /\ w \notin behind =>
    /\ kind[w] = "edit" /\ "role" \notin touched[w] => form[w].role = role[about[w]]
    /\ kind[w] = "edit" /\ "active" \notin touched[w] => form[w].active = active[about[w]]
    /\ kind[w] = "remove" => "active" \in touched[w]

\* The guard let the request through.
Authorised(w) ==
  InFlight(w) /\ w \notin late => active[actor[w]]

\* Read refused what one may not do to oneself.
NotAgainstOneself(w) ==
  stage[w] \in {"count", "write"} /\ kind[w] \in {"edit", "remove"} /\ actor[w] = about[w] =>
    /\ kind[w] = "edit" /\ form[w].active
    /\ w \notin late => form[w].role = role[about[w]]

\* Count found another super administrator.
Counted(w) ==
  stage[w] = "write" /\ kind[w] \in {"edit", "remove"} /\ w \notin late
    /\ role[about[w]] = "SUPER_ADMIN" => Others(about[w]) # {}

WindowInv(w) ==
  Present(w) /\ AsShown(w) /\ Authorised(w) /\ NotAgainstOneself(w) /\ Counted(w)

AccountsInv ==
  /\ AccountsTypeOK
  /\ OwnPassword
  /\ \A w \in Window : WindowInv(w)

-----------------------------------------------------------------------------
(* Types *)

LEMMA AccountsInitType == AccountsInit => AccountsTypeOK
BY AccountAssumption DEF AccountsInit, AccountsTypeOK, Role, Stage, Kind, Form, Blank, Field

\* What a window that moves writes has its types.
LEMMA ShowType ==
  ASSUME AccountsTypeOK,
         NEW w \in Window, NEW k \in Kind, NEW a \in Account, NEW b \in Account,
         NEW f \in Form, NEW t \in SUBSET Field, Show(w, k, a, b, f, t)
  PROVE  AccountsTypeOK'
BY DEF AccountsTypeOK, Show, table, Stage

LEMMA ContinueType ==
  ASSUME AccountsTypeOK, NEW w \in Window, NEW s \in Stage, Continue(w, s)
  PROVE  AccountsTypeOK'
BY DEF AccountsTypeOK, Continue, table

LEMMA CloseType ==
  ASSUME AccountsTypeOK, NEW w \in Window, Close(w)
  PROVE  /\ stage' \in [Window -> Stage] /\ kind' \in [Window -> Kind]
         /\ actor' \in [Window -> Account \cup {NoAccount}]
         /\ about' \in [Window -> Account \cup {NoAccount}]
         /\ form' \in [Window -> Form] /\ touched' \in [Window -> SUBSET Field]
BY DEF AccountsTypeOK, Close, Stage, Kind, Form, Blank

LEMMA RefuseType ==
  ASSUME AccountsTypeOK, NEW w \in Window, Refuse(w)
  PROVE  AccountsTypeOK'
BY CloseType DEF AccountsTypeOK, Refuse, table

LEMMA WrittenType ==
  ASSUME AccountsTypeOK, NEW w \in Window, Written(w),
         role' \in [Account -> Role \cup {"absent"}], active' \in [Account -> BOOLEAN],
         must' \in [Account -> BOOLEAN], chosenBy' \in [Account -> {"nobody", "admin", "owner"}]
  PROVE  AccountsTypeOK'
BY CloseType DEF AccountsTypeOK, Written

-----------------------------------------------------------------------------
(* Frames: what a step of one window leaves of the others *)

\* A step that writes nothing keeps what holds of every other window.
LEMMA FrameQuiet ==
  ASSUME AccountsTypeOK, AccountsTypeOK', NEW w \in Window, NEW v \in Window, v # w,
         WindowInv(v), UNCHANGED table,
         stage'[v] = stage[v], kind'[v] = kind[v], actor'[v] = actor[v],
         about'[v] = about[v], form'[v] = form[v], touched'[v] = touched[v],
         v \in behind' <=> v \in behind, v \in late' <=> v \in late
  PROVE  WindowInv(v)'
<1>1. Present(v)'
  BY DEF WindowInv, Present, Exists, table
<1>2. AsShown(v)'
  BY DEF WindowInv, AsShown, table
<1>3. Authorised(v)'
  BY DEF WindowInv, Authorised, InFlight, table
<1>4. NotAgainstOneself(v)'
  BY DEF WindowInv, NotAgainstOneself, table
<1>5. Counted(v)'
  BY DEF WindowInv, Counted, Others, SuperAdmins, table
<1>. QED
  BY <1>1, <1>2, <1>3, <1>4, <1>5 DEF WindowInv

\* A write leaves the others behind and their requests late: what they had
\* read of the table need not hold any more, what is not of the table does.
LEMMA FrameWritten ==
  ASSUME AccountsTypeOK, AccountsTypeOK', NEW w \in Window, NEW v \in Window, v # w,
         WindowInv(v), Written(w),
         \A a \in Account : Exists(a) => Exists(a)'
  PROVE  WindowInv(v)'
<1>1. /\ stage'[v] = stage[v] /\ kind'[v] = kind[v] /\ actor'[v] = actor[v]
      /\ about'[v] = about[v] /\ form'[v] = form[v] /\ touched'[v] = touched[v]
  BY DEF Written, Close, AccountsTypeOK
<1>2. /\ stage[v] # "none" => v \in behind'
      /\ InFlight(v) => v \in late'
  BY DEF Written, InFlight
<1>3. Present(v)'
  BY <1>1 DEF WindowInv, Present, Exists
<1>4. AsShown(v)' /\ Authorised(v)' /\ NotAgainstOneself(v)' /\ Counted(v)'
  BY <1>1, <1>2 DEF WindowInv, AsShown, Authorised, NotAgainstOneself, Counted, InFlight
<1>. QED
  BY <1>3, <1>4 DEF WindowInv

\* A window that has closed has nothing to keep.
LEMMA Closed ==
  ASSUME AccountsTypeOK, NEW w \in Window, Close(w)
  PROVE  WindowInv(w)'
<1>1. stage'[w] = "none"
  BY DEF Close, AccountsTypeOK
<1>. QED
  BY <1>1 DEF WindowInv, Present, AsShown, Authorised, NotAgainstOneself, Counted, InFlight

-----------------------------------------------------------------------------
(* Steps that write nothing *)

\* A window opens: its form holds what the table holds, its request has not
\* begun.
LEMMA ShowInv ==
  ASSUME AccountsInv,
         NEW w \in Window, NEW k \in Kind, NEW a \in Account, NEW b \in Account,
         NEW f \in Form, NEW t \in SUBSET Field, Show(w, k, a, b, f, t),
         k # "none", Exists(a), k # "create" => Exists(b),
         k # "password" => f.role \in Role, k = "password" => a = b,
         k = "edit" /\ "role" \notin t => f.role = role[b],
         k = "edit" /\ "active" \notin t => f.active = active[b],
         k = "remove" => "active" \in t
  PROVE  AccountsInv'
<1>1. AccountsTypeOK'
  BY ShowType DEF AccountsInv
<1>2. OwnPassword'
  BY DEF AccountsInv, OwnPassword, Show, table, Exists
<1>3. /\ stage'[w] = "form" /\ kind'[w] = k /\ actor'[w] = a /\ about'[w] = b
      /\ form'[w] = f /\ touched'[w] = t
  BY DEF AccountsInv, AccountsTypeOK, Show
<1>4. WindowInv(w)'
  BY <1>3 DEF WindowInv, Present, AsShown, Authorised, NotAgainstOneself, Counted, InFlight,
              Show, table, Exists
<1>5. ASSUME NEW v \in Window, v # w
      PROVE  WindowInv(v)'
  BY <1>1, <1>5, FrameQuiet DEF AccountsInv, AccountsTypeOK, Show
<1>. QED
  BY <1>1, <1>2, <1>4, <1>5 DEF AccountsInv

LEMMA RefuseInv ==
  ASSUME AccountsInv, NEW w \in Window, Refuse(w)
  PROVE  AccountsInv'
<1>1. AccountsTypeOK'
  BY RefuseType DEF AccountsInv
<1>2. OwnPassword'
  BY DEF AccountsInv, OwnPassword, Refuse, table, Exists
<1>3. WindowInv(w)'
  BY Closed DEF AccountsInv, Refuse
<1>4. ASSUME NEW v \in Window, v # w
      PROVE  WindowInv(v)'
  BY <1>1, <1>4, FrameQuiet DEF AccountsInv, AccountsTypeOK, Refuse, Close
<1>. QED
  BY <1>1, <1>2, <1>3, <1>4 DEF AccountsInv

\* A request goes on: it keeps its form, and has to establish what its next
\* stage relies on.
LEMMA ContinueInv ==
  ASSUME AccountsInv, NEW w \in Window, NEW s \in {"read", "count", "write"}, Continue(w, s),
         stage[w] # "none",
         w \notin late => active[actor[w]],
         s \in {"count", "write"} /\ kind[w] \in {"edit", "remove"} =>
           \/ stage[w] = "count"
           \/ ~AgainstOneself(w),
         s = "write" /\ kind[w] \in {"edit", "remove"} /\ role[about[w]] = "SUPER_ADMIN" =>
           Others(about[w]) # {}
  PROVE  AccountsInv'
<1>1. AccountsTypeOK'
  BY ContinueType DEF AccountsInv, Stage
<1>2. OwnPassword'
  BY DEF AccountsInv, OwnPassword, Continue, table, Exists
<1>3. /\ stage'[w] = s /\ UNCHANGED <<table, kind, actor, about, form, touched, behind, late>>
  BY DEF AccountsInv, AccountsTypeOK, Continue
<1>4. Present(w)' /\ AsShown(w)' /\ Authorised(w)'
  BY <1>3 DEF AccountsInv, WindowInv, Present, AsShown, Authorised, InFlight, table, Exists
<1>5. NotAgainstOneself(w)'
  BY <1>3 DEF AccountsInv, AccountsTypeOK, WindowInv, NotAgainstOneself, AgainstOneself, table
<1>6. Counted(w)'
  BY <1>3 DEF Counted, table, Others, SuperAdmins
<1>7. ASSUME NEW v \in Window, v # w
      PROVE  WindowInv(v)'
  BY <1>1, <1>7, FrameQuiet DEF AccountsInv, AccountsTypeOK, Continue
<1>. QED
  BY <1>1, <1>2, <1>4, <1>5, <1>6, <1>7 DEF AccountsInv, WindowInv

\* A request that writes: every account that was there stays there, and every
\* password an administrator chose has to be changed.
LEMMA WrittenInv ==
  ASSUME AccountsInv, NEW w \in Window, Written(w),
         role' \in [Account -> Role \cup {"absent"}], active' \in [Account -> BOOLEAN],
         must' \in [Account -> BOOLEAN], chosenBy' \in [Account -> {"nobody", "admin", "owner"}],
         \A a \in Account : Exists(a) => Exists(a)',
         OwnPassword'
  PROVE  AccountsInv'
<1>1. AccountsTypeOK'
  BY WrittenType DEF AccountsInv
<1>2. WindowInv(w)'
  BY Closed DEF AccountsInv, Written
<1>3. ASSUME NEW v \in Window, v # w
      PROVE  WindowInv(v)'
  BY <1>1, <1>3, FrameWritten DEF AccountsInv
<1>. QED
  BY <1>1, <1>2, <1>3 DEF AccountsInv

-----------------------------------------------------------------------------
(* The invariant *)

LEMMA AccountsInitInv == AccountsInit => AccountsInv
<1>. SUFFICES ASSUME AccountsInit PROVE AccountsInv
  OBVIOUS
<1>1. OwnPassword
  BY AccountAssumption DEF AccountsInit, OwnPassword, Exists
<1>2. ASSUME NEW w \in Window
      PROVE  WindowInv(w)
  BY
     DEF AccountsInit, WindowInv, Present, AsShown, Authorised, NotAgainstOneself, Counted,
         InFlight
<1>. QED
  BY <1>1, <1>2, AccountsInitType DEF AccountsInv

LEMMA OpenInv ==
  ASSUME AccountsInv, NEW w \in Window, Open(w)
  PROVE  AccountsInv'
<1>. USE DEF Kind, Field, Form, Role, MayManage
<1>1. ASSUME NEW a \in Account, NEW b \in Account, NEW t \in SUBSET Field, NEW r \in Role,
             NEW p \in BOOLEAN, OpenEdit(w, a, b, t, r, p)
      PROVE  AccountsInv'
  <2>. DEFINE f == [role     |-> IF "role" \in t THEN r ELSE AsListed(b).role,
                    active   |-> IF "active" \in t THEN ~AsListed(b).active ELSE AsListed(b).active,
                    password |-> p]
  <2>1. /\ MayManage(a) /\ Exists(b) /\ Show(w, "edit", a, b, f, t)
    BY <1>1 DEF OpenEdit
  <2>2. Exists(a)
    BY <2>1 DEF Exists
  <2>3. f \in Form
    BY DEF AccountsInv, AccountsTypeOK, AsListed
  <2>4. /\ f.role \in Role
        /\ "role" \notin t => f.role = role[b]
        /\ "active" \notin t => f.active = active[b]
    BY <2>1 DEF AccountsInv, AccountsTypeOK, AsListed, Exists
  <2>. HIDE DEF f
  <2>. QED
    BY <2>1, <2>2, <2>3, <2>4, ShowInv
<1>2. ASSUME NEW a \in Account, NEW b \in Account, OpenRemove(w, a, b)
      PROVE  AccountsInv'
  <2>. DEFINE f == [AsListed(b) EXCEPT !.active = FALSE]
  <2>1. /\ MayManage(a) /\ Exists(b) /\ Show(w, "remove", a, b, f, {"active"})
    BY <1>2 DEF OpenRemove
  <2>2. Exists(a)
    BY <2>1 DEF Exists
  <2>3. f \in Form /\ f.role \in Role
    BY <2>1 DEF AccountsInv, AccountsTypeOK, AsListed, Exists
  <2>. HIDE DEF f
  <2>. QED
    BY <2>1, <2>2, <2>3, ShowInv
<1>3. ASSUME NEW a \in Account, NEW b \in Account, NEW r \in Role, NEW on \in BOOLEAN,
             OpenCreate(w, a, b, r, on)
      PROVE  AccountsInv'
  <2>. DEFINE f == [role |-> r, active |-> on, password |-> TRUE]
  <2>1. /\ MayManage(a) /\ Show(w, "create", a, b, f, Field)
    BY <1>3 DEF OpenCreate
  <2>2. Exists(a)
    BY <2>1 DEF Exists
  <2>3. f \in Form /\ f.role \in Role
    OBVIOUS
  <2>. HIDE DEF f
  <2>. QED
    BY <2>1, <2>2, <2>3, ShowInv
<1>4. ASSUME NEW a \in Account, OpenPassword(w, a)
      PROVE  AccountsInv'
  <2>1. Exists(a) /\ Show(w, "password", a, a, Blank, {})
    BY <1>4 DEF OpenPassword
  <2>2. Blank \in Form
    BY DEF Blank
  <2>. QED
    BY <2>1, <2>2, ShowInv
<1>. QED
  BY <1>1, <1>2, <1>3, <1>4 DEF Open

LEMMA AccountsNextInv == AccountsInv /\ [AccountsNext]_accountsVars => AccountsInv'
<1>. SUFFICES ASSUME AccountsInv, [AccountsNext]_accountsVars PROVE AccountsInv'
  OBVIOUS
<1>0. CASE UNCHANGED accountsVars
  <2>1. AccountsTypeOK'
    BY <1>0 DEF AccountsInv, AccountsTypeOK, accountsVars, table, windows
  <2>2. OwnPassword'
    BY <1>0 DEF AccountsInv, OwnPassword, Exists, accountsVars, table
  <2>3. ASSUME NEW w \in Window PROVE WindowInv(w)'
    BY <1>0
       DEF AccountsInv, WindowInv, Present, AsShown, Authorised, NotAgainstOneself, Counted,
                InFlight, Others, SuperAdmins, Exists, accountsVars, table, windows
  <2>. QED
    BY <2>1, <2>2, <2>3 DEF AccountsInv
<1>. SUFFICES ASSUME NEW w \in Window,
                \/ Open(w)
                \/ Submit(w) \/ SubmitRefused(w) \/ Cancel(w)
                \/ Read(w) \/ ReadRefused(w)
                \/ Count(w) \/ CountRefused(w)
                \/ WriteEdit(w) \/ WriteRemove(w)
                \/ WriteCreate(w) \/ CreateRefused(w)
                \/ WritePassword(w) \/ PasswordRefused(w)
              PROVE AccountsInv'
  BY <1>0 DEF AccountsNext
<1>t. AccountsTypeOK
  BY DEF AccountsInv
<1>w. WindowInv(w)
  BY DEF AccountsInv
<1>1. CASE Open(w)
  BY <1>1, OpenInv
<1>2. CASE SubmitRefused(w) \/ Cancel(w) \/ ReadRefused(w) \/ CountRefused(w)
           \/ CreateRefused(w) \/ PasswordRefused(w)
  BY <1>2, RefuseInv DEF SubmitRefused, Cancel, ReadRefused, CountRefused, CreateRefused,
                         PasswordRefused
<1>3. CASE Submit(w)
  <2>1. stage[w] = "form" /\ Continue(w, "read") /\ active[actor[w]]
    BY <1>3 DEF Submit, MayManage
  <2>. QED
    BY <2>1, ContinueInv
<1>4. CASE Read(w)
  <2>. DEFINE s == IF kind[w] \in {"edit", "remove"} /\ role[about[w]] = "SUPER_ADMIN"
                   THEN "count" ELSE "write"
  <2>1. stage[w] = "read" /\ Continue(w, s)
    BY <1>4 DEF Read
  <2>2. w \notin late => active[actor[w]]
    BY <2>1, <1>w DEF WindowInv, Authorised, InFlight
  <2>3. kind[w] \in {"edit", "remove"} => ~AgainstOneself(w)
    BY <1>4 DEF Read
  <2>4. /\ s \in {"read", "count", "write"}
        /\ s = "write" /\ kind[w] \in {"edit", "remove"} => role[about[w]] # "SUPER_ADMIN"
    OBVIOUS
  <2>. HIDE DEF s
  <2>. QED
    BY <2>1, <2>2, <2>3, <2>4, ContinueInv
<1>5. CASE Count(w)
  <2>1. stage[w] = "count" /\ Others(about[w]) # {} /\ Continue(w, "write")
    BY <1>5 DEF Count
  <2>2. w \notin late => active[actor[w]]
    BY <2>1, <1>w DEF WindowInv, Authorised, InFlight
  <2>. QED
    BY <2>1, <2>2, ContinueInv
<1>6. CASE WriteEdit(w)
  <2>1. /\ Written(w) /\ about[w] \in Account /\ form[w] \in Form /\ form[w].role \in Role
        /\ Exists(about[w])
    BY <1>6, <1>t, <1>w DEF WriteEdit, WindowInv, Present, AccountsTypeOK
  <2>2. /\ role' \in [Account -> Role \cup {"absent"}] /\ active' \in [Account -> BOOLEAN]
        /\ must' \in [Account -> BOOLEAN]
        /\ chosenBy' \in [Account -> {"nobody", "admin", "owner"}]
    BY <1>6, <1>t, <2>1 DEF WriteEdit, AccountsTypeOK, MustAfterEdit, Form
  <2>3. \A a \in Account : Exists(a) => Exists(a)'
    BY <1>6, <1>t, <2>1, LesserAssumption DEF WriteEdit, AccountsTypeOK, Exists, Role
  <2>4. OwnPassword'
    BY <1>6, <1>t, <2>1 DEF WriteEdit, AccountsTypeOK, AccountsInv, OwnPassword, Exists,
                            MustAfterEdit, Form
  <2>. QED
    BY <2>1, <2>2, <2>3, <2>4, WrittenInv
<1>7. CASE WriteRemove(w)
  <2>1. Written(w) /\ UNCHANGED <<role, must, chosenBy>> /\ active' \in [Account -> BOOLEAN]
    BY <1>7, <1>t DEF WriteRemove, AccountsTypeOK
  <2>2. OwnPassword' /\ \A a \in Account : Exists(a) => Exists(a)'
    BY <2>1 DEF AccountsInv, OwnPassword, Exists
  <2>. QED
    BY <1>t, <2>1, <2>2, WrittenInv DEF AccountsTypeOK
<1>8. CASE WriteCreate(w)
  <2>1. /\ Written(w) /\ about[w] \in Account /\ form[w] \in Form /\ form[w].role \in Role
        /\ ~Exists(about[w])
    BY <1>8, <1>t, <1>w DEF WriteCreate, WindowInv, Present, AccountsTypeOK
  <2>2. /\ role' \in [Account -> Role \cup {"absent"}] /\ active' \in [Account -> BOOLEAN]
        /\ must' \in [Account -> BOOLEAN]
        /\ chosenBy' \in [Account -> {"nobody", "admin", "owner"}]
    BY <1>8, <1>t, <2>1 DEF WriteCreate, AccountsTypeOK, Form
  <2>3. \A a \in Account : Exists(a) => Exists(a)'
    BY <1>8, <1>t, <2>1 DEF WriteCreate, AccountsTypeOK, Exists
  <2>4. OwnPassword'
    BY <1>8, <1>t, <2>1 DEF WriteCreate, AccountsTypeOK, AccountsInv, OwnPassword, Exists
  <2>. QED
    BY <2>1, <2>2, <2>3, <2>4, WrittenInv
<1>9. CASE WritePassword(w)
  <2>1. /\ Written(w) /\ UNCHANGED <<role, active>>
        /\ must' \in [Account -> BOOLEAN]
        /\ chosenBy' \in [Account -> {"nobody", "admin", "owner"}]
    BY <1>9, <1>t DEF WritePassword, AccountsTypeOK
  <2>2. OwnPassword' /\ \A a \in Account : Exists(a) => Exists(a)'
    BY <1>9, <1>t, <2>1 DEF WritePassword, AccountsTypeOK, AccountsInv, OwnPassword, Exists
  <2>. QED
    BY <1>t, <2>1, <2>2, WrittenInv DEF AccountsTypeOK
<1>. QED
  BY <1>1, <1>2, <1>3, <1>4, <1>5, <1>6, <1>7, <1>8, <1>9

THEOREM AccountsInvariance == AccountsSpec => []AccountsInv
BY AccountsInitInv, AccountsNextInv, PTL DEF AccountsSpec

-----------------------------------------------------------------------------
(* What a step may do *)

\* Which window a write is of: the others do not leave the stage they are at.
LEMMA WhoWrites ==
  ASSUME AccountsInv, AccountsNext, NEW v \in Window, Writing(v)
  PROVE  \/ UNCHANGED table
         \/ WriteEdit(v) \/ WriteRemove(v) \/ WriteCreate(v) \/ WritePassword(v)
<1>1. PICK w \in Window :
        \/ Open(w)
        \/ Submit(w) \/ SubmitRefused(w) \/ Cancel(w)
        \/ Read(w) \/ ReadRefused(w)
        \/ Count(w) \/ CountRefused(w)
        \/ WriteEdit(w) \/ WriteRemove(w)
        \/ WriteCreate(w) \/ CreateRefused(w)
        \/ WritePassword(w) \/ PasswordRefused(w)
  BY DEF AccountsNext
<1>2. CASE WriteEdit(w) \/ WriteRemove(w) \/ WriteCreate(w) \/ WritePassword(w)
  <2>1. w # v => stage'[v] = stage[v]
    BY <1>2 DEF WriteEdit, WriteRemove, WriteCreate, WritePassword, Written, Close,
                AccountsInv, AccountsTypeOK
  <2>. QED
    BY <1>2, <2>1 DEF Writing
<1>3. CASE Open(w)
  BY <1>3 DEF Open, OpenEdit, OpenRemove, OpenCreate, OpenPassword, Show
<1>4. CASE \/ Submit(w) \/ SubmitRefused(w) \/ Cancel(w) \/ Read(w) \/ ReadRefused(w)
           \/ Count(w) \/ CountRefused(w) \/ CreateRefused(w) \/ PasswordRefused(w)
  BY <1>4 DEF Submit, SubmitRefused, Cancel, Read, ReadRefused, Count, CountRefused,
              CreateRefused, PasswordRefused, Refuse, Continue
<1>. QED
  BY <1>1, <1>2, <1>3, <1>4

\* A step that changes a row is the write of a window.
LEMMA OnlyWrites ==
  ASSUME AccountsInv, AccountsNext
  PROVE  \/ UNCHANGED table
         \/ \E v \in Window : /\ Writing(v)
                              /\ \/ WriteEdit(v) \/ WriteRemove(v) \/ WriteCreate(v)
                                 \/ WritePassword(v)
<1>1. PICK w \in Window :
        \/ Open(w)
        \/ Submit(w) \/ SubmitRefused(w) \/ Cancel(w)
        \/ Read(w) \/ ReadRefused(w)
        \/ Count(w) \/ CountRefused(w)
        \/ WriteEdit(w) \/ WriteRemove(w)
        \/ WriteCreate(w) \/ CreateRefused(w)
        \/ WritePassword(w) \/ PasswordRefused(w)
  BY DEF AccountsNext
<1>2. CASE WriteEdit(w) \/ WriteRemove(w) \/ WriteCreate(w) \/ WritePassword(w)
  <2>1. Writing(w)
    BY <1>2 DEF WriteEdit, WriteRemove, WriteCreate, WritePassword, Written, Close, Writing,
                AccountsInv, AccountsTypeOK
  <2>. QED
    BY <1>2, <2>1
<1>3. CASE Open(w)
  BY <1>3 DEF Open, OpenEdit, OpenRemove, OpenCreate, OpenPassword, Show
<1>4. CASE \/ Submit(w) \/ SubmitRefused(w) \/ Cancel(w) \/ Read(w) \/ ReadRefused(w)
           \/ Count(w) \/ CountRefused(w) \/ CreateRefused(w) \/ PasswordRefused(w)
  BY <1>4 DEF Submit, SubmitRefused, Cancel, Read, ReadRefused, Count, CountRefused,
              CreateRefused, PasswordRefused, Refuse, Continue
<1>. QED
  BY <1>1, <1>2, <1>3, <1>4

\* Who was counted is still there after a write that is not late.
LEMMA StepLastSuperAdmin ==
  ASSUME AccountsInv, AccountsNext, SuperAdmins # {}, SuperAdmins' = {}
  PROVE  \E w \in Window : Writing(w) /\ w \in late
<1>1. ~UNCHANGED table
  BY DEF table, SuperAdmins
<1>2. PICK w \in Window : /\ Writing(w)
                          /\ \/ WriteEdit(w) \/ WriteRemove(w) \/ WriteCreate(w)
                             \/ WritePassword(w)
  BY <1>1, OnlyWrites
<1>3. SUFFICES ASSUME w \notin late PROVE FALSE
  BY <1>2
<1>t. /\ AccountsTypeOK /\ WindowInv(w) /\ stage[w] = "write" /\ about[w] \in Account
  BY <1>2 DEF AccountsInv, WindowInv, Present, Writing
<1>4. CASE WriteEdit(w) \/ WriteRemove(w)
  <2>1. \A b \in Account \ {about[w]} : role'[b] = role[b] /\ active'[b] = active[b]
    BY <1>4, <1>t DEF WriteEdit, WriteRemove, AccountsTypeOK
  <2>2. SuperAdmins \ {about[w]} = {}
    BY <2>1 DEF SuperAdmins
  <2>3. role[about[w]] = "SUPER_ADMIN"
    BY <2>2 DEF SuperAdmins
  <2>4. kind[w] \in {"edit", "remove"}
    BY <1>4 DEF WriteEdit, WriteRemove
  <2>5. Others(about[w]) # {}
    BY <1>t, <1>3, <2>3, <2>4 DEF WindowInv, Counted
  <2>. QED
    BY <2>2, <2>5 DEF Others
<1>5. CASE WriteCreate(w)
  <2>1. /\ \A b \in Account \ {about[w]} : role'[b] = role[b] /\ active'[b] = active[b]
        /\ role[about[w]] = "absent"
    BY <1>5, <1>t DEF WriteCreate, AccountsTypeOK, Exists
  <2>. QED
    BY <2>1 DEF SuperAdmins
<1>6. CASE WritePassword(w)
  BY <1>6 DEF WritePassword, SuperAdmins
<1>. QED
  BY <1>2, <1>4, <1>5, <1>6

\* What Read refused is not done, and what it let through is nothing one may
\* not do to oneself.
LEMMA StepNotOneself ==
  ASSUME AccountsInv, AccountsNext, NEW w \in Window, Writing(w), actor[w] = about[w]
  PROVE  /\ active[about[w]] => active'[about[w]]
         /\ w \notin late => /\ role'[about[w]] = role[about[w]]
                             /\ active'[about[w]] = active[about[w]]
<1>t. /\ AccountsTypeOK /\ WindowInv(w) /\ stage[w] = "write"
      /\ about[w] \in Account /\ Exists(about[w])
  BY DEF AccountsInv, WindowInv, Present, Writing
<1>1. CASE UNCHANGED table
  BY <1>1 DEF table
<1>2. CASE WriteEdit(w) \/ WriteRemove(w)
  <2>1. kind[w] \in {"edit", "remove"}
    BY <1>2 DEF WriteEdit, WriteRemove
  <2>2. /\ kind[w] = "edit" /\ form[w].active
        /\ w \notin late => form[w].role = role[about[w]] /\ active[about[w]]
    BY <1>t, <2>1 DEF WindowInv, NotAgainstOneself, Authorised, InFlight
  <2>3. WriteEdit(w)
    BY <1>2, <2>2 DEF WriteRemove
  <2>4. role'[about[w]] = form[w].role /\ active'[about[w]] = form[w].active
    BY <1>t, <2>3 DEF WriteEdit, AccountsTypeOK
  <2>5. form[w].active \in BOOLEAN /\ active[about[w]] \in BOOLEAN
    BY <1>t DEF AccountsTypeOK, Form
  <2>. QED
    BY <2>2, <2>4, <2>5
<1>3. CASE WriteCreate(w)
  BY <1>3, <1>t DEF WriteCreate
<1>4. CASE WritePassword(w)
  BY <1>4 DEF WritePassword
<1>. QED
  BY <1>1, <1>2, <1>3, <1>4, WhoWrites

\* A form that is not behind puts back what the table holds, but for what was
\* changed in it.
LEMMA StepTouched ==
  ASSUME AccountsInv, AccountsNext, NEW w \in Window, Writing(w), w \notin behind,
         kind[w] # "create"
  PROVE  /\ role'[about[w]] # role[about[w]] => "role" \in touched[w]
         /\ active'[about[w]] # active[about[w]] => "active" \in touched[w]
<1>t. /\ AccountsTypeOK /\ WindowInv(w) /\ stage[w] = "write" /\ about[w] \in Account
  BY DEF AccountsInv, WindowInv, Present, Writing
<1>1. CASE UNCHANGED table
  BY <1>1 DEF table
<1>2. CASE WriteEdit(w)
  <2>1. /\ kind[w] = "edit"
        /\ role'[about[w]] = form[w].role /\ active'[about[w]] = form[w].active
    BY <1>t, <1>2 DEF WriteEdit, AccountsTypeOK
  <2>. QED
    BY <1>t, <2>1 DEF WindowInv, AsShown
<1>3. CASE WriteRemove(w)
  BY <1>3, <1>t DEF WriteRemove, WindowInv, AsShown
<1>4. CASE WriteCreate(w)
  BY <1>4 DEF WriteCreate
<1>5. CASE WritePassword(w)
  BY <1>5 DEF WritePassword
<1>. QED
  BY <1>1, <1>2, <1>3, <1>4, <1>5, WhoWrites

-----------------------------------------------------------------------------
(* The results *)

\* Every row, form and request is of its type (users.service, auth.service).
THEOREM AccountsTyped == AccountsSpec => []AccountsTypeOK
<1>1. AccountsInv => AccountsTypeOK
  BY DEF AccountsInv
<1>. QED
  BY <1>1, AccountsInvariance, PTL

\* A password nobody asks to change was chosen by the owner of the account
\* (create, update and changePassword).
THEOREM OwnPasswordHolds == AccountsSpec => []OwnPassword
<1>1. AccountsInv => OwnPassword
  BY DEF AccountsInv
<1>. QED
  BY <1>1, AccountsInvariance, PTL

\* The last active super administrator goes only by a request another write
\* overtook (assertNotLastSuperAdmin).
THEOREM LastSuperAdminHolds == AccountsSpec => LastSuperAdminGuarded
<1>1. ASSUME AccountsInv, [AccountsNext]_accountsVars
      PROVE  [SuperAdmins # {} /\ SuperAdmins' = {} =>
               \E w \in Window : Writing(w) /\ w \in late]_accountsVars
  BY <1>1, StepLastSuperAdmin
<1>. QED
  BY <1>1, AccountsInvariance, PTL DEF AccountsSpec, LastSuperAdminGuarded

\* Nobody deactivates or demotes oneself (update and remove).
THEOREM NotOneselfHolds == AccountsSpec => NotOneself
<1>1. ASSUME AccountsInv, [AccountsNext]_accountsVars
      PROVE  [\A w \in Window : Writing(w) /\ actor[w] = about[w] =>
               LET a == about[w] IN
               /\ active[a] => active'[a]
               /\ w \notin late => role'[a] = role[a] /\ active'[a] = active[a]]_accountsVars
  BY <1>1, StepNotOneself
<1>. QED
  BY <1>1, AccountsInvariance, PTL DEF AccountsSpec, NotOneself

\* Both guard rails of update and remove.
THEOREM GuardRailsHold == AccountsSpec => GuardRails
BY LastSuperAdminHolds, NotOneselfHolds DEF GuardRails

\* A form that is not behind changes only what somebody changed in it
\* (UsersAdmin's openEdit, update).
THEOREM OnlyWhatWasTouchedHolds == AccountsSpec => OnlyWhatWasTouched
<1>1. ASSUME AccountsInv, [AccountsNext]_accountsVars
      PROVE  [\A w \in Window : Writing(w) /\ w \notin behind /\ kind[w] # "create" =>
               LET a == about[w] IN
               /\ role'[a] # role[a] => "role" \in touched[w]
               /\ active'[a] # active[a] => "active" \in touched[w]]_accountsVars
  BY <1>1, StepTouched
<1>. QED
  BY <1>1, AccountsInvariance, PTL DEF AccountsSpec, OnlyWhatWasTouched

-----------------------------------------------------------------------------
(* The permissions and the screens *)

\* What the guard asks for a call: of its subject, unless of the action itself.
LEMMA SubjectLevel ==
  ASSUME NEW a, NEW s,
         <<a, s>> \notin {<<"DELETE", "Media">>, <<"EXPORT", "Subscriber">>,
                          <<"DELETE", "Subscriber">>, <<"IMPORT", "Subscriber">>}
  PROVE  RequiredLevel(<<a, s>>) = ResourceMinLevel(s)
<1>1. <<a, s>> # <<>> /\ <<a, s>> # <<"session">>
  OBVIOUS
<1>2. <<a, s>> \notin DOMAIN ActionMinLevel
  BY DEF ActionMinLevel
<1>. QED
  BY <1>1, <1>2 DEF RequiredLevel

LEMMA ActionLevels ==
  /\ RequiredLevel(<<>>) = 0 /\ RequiredLevel(<<"session">>) = 1
  /\ RequiredLevel(<<"DELETE", "Media">>) = 2
  /\ \A a \in {"EXPORT", "DELETE", "IMPORT"} : RequiredLevel(<<a, "Subscriber">>) = 3
<1>0. /\ <<"session">> # <<>>
      /\ \A a, s : <<a, s>> # <<>> /\ <<a, s>> # <<"session">>
  OBVIOUS
<1>5. <<>> \notin DOMAIN ActionMinLevel /\ <<"session">> \notin DOMAIN ActionMinLevel
  BY <1>0 DEF ActionMinLevel
<1>1. RequiredLevel(<<>>) = 0
  BY <1>0, <1>5 DEF RequiredLevel
<1>4. RequiredLevel(<<"session">>) = 1
  BY <1>0, <1>5 DEF RequiredLevel
<1>2. RequiredLevel(<<"DELETE", "Media">>) = 2
  BY <1>0 DEF RequiredLevel, ActionMinLevel
<1>3. \A a \in {"EXPORT", "DELETE", "IMPORT"} : RequiredLevel(<<a, "Subscriber">>) = 3
  BY <1>0 DEF RequiredLevel, ActionMinLevel
<1>. QED
  BY <1>1, <1>2, <1>3, <1>4

LEMMA ResourceLevels ==
  /\ \A s \in {"User", "Role", "AuditLog"} : ResourceMinLevel(s) = 3
  /\ \A s \in AdminResource : ResourceMinLevel(s) = 2
  /\ \A s \in {"News", "NewsCategory", "Mission", "GalleryAlbum", "Media"} : ResourceMinLevel(s) = 1
  BY DEF ResourceMinLevel, AdminResource

\* The calls C are open to whoever stands at this level of the ladder.
OpenTo(C, level) == \A c \in C : Required(c) \in 0..level

\* What the calls of a controller need, for those of its handlers that a screen
\* uses.
LEMMA NewsOpen ==
  OpenTo(Of("news", {"findAll", "findCategories", "create", "update", "remove", "createCategory",
     "removeCategory"}), 1)
<1>1. ASSUME NEW h \in {"findAll", "findCategories", "create", "update", "remove",
                        "createCategory", "removeCategory"}
      PROVE  Required(<<"news", h>>) \in 0..1
  BY SubjectLevel, ActionLevels, ResourceLevels
     DEF Required, Handler, Controllers, NewsController, Free, Session, Needs, NeedsKept,
         AdminResource
<1>. QED
  BY <1>1 DEF OpenTo, Of

LEMMA MissionsOpen ==
  OpenTo(Of("missions", {"findAll", "create", "update", "remove"}), 1)
<1>1. ASSUME NEW h \in {"findAll", "create", "update", "remove"}
      PROVE  Required(<<"missions", h>>) \in 0..1
  BY SubjectLevel, ActionLevels, ResourceLevels
     DEF Required, Handler, Controllers, MissionsController, Free, Session, Needs, NeedsKept,
         AdminResource
<1>. QED
  BY <1>1 DEF OpenTo, Of

LEMMA GalleryOpen ==
  OpenTo(Of("gallery", {"findAll", "create", "update", "remove", "addImage", "removeImage"}), 1)
<1>1. ASSUME NEW h \in {"findAll", "create", "update", "remove", "addImage",
                        "removeImage"}
      PROVE  Required(<<"gallery", h>>) \in 0..1
  BY SubjectLevel, ActionLevels, ResourceLevels
     DEF Required, Handler, Controllers, GalleryController, Free, Session, Needs, NeedsKept,
         AdminResource
<1>. QED
  BY <1>1 DEF OpenTo, Of

LEMMA MediaOpen ==
  OpenTo(Of("media", {"findAll", "listFolders", "purgeOrphans", "remove", "update", "uploadFile"}), 2)
<1>1. ASSUME NEW h \in {"findAll", "listFolders", "purgeOrphans", "remove",
                        "update", "uploadFile"}
      PROVE  Required(<<"media", h>>) \in 0..2
  BY SubjectLevel, ActionLevels, ResourceLevels
     DEF Required, Handler, Controllers, MediaController, Free, Session, Needs, NeedsKept,
         AdminResource
<1>. QED
  BY <1>1 DEF OpenTo, Of

LEMMA ImpactOpen ==
  OpenTo(Of("impact", {"findAll", "create", "update", "remove"}), 2)
<1>1. ASSUME NEW h \in {"findAll", "create", "update", "remove"}
      PROVE  Required(<<"impact", h>>) \in 0..2
  BY SubjectLevel, ActionLevels, ResourceLevels
     DEF Required, Handler, Controllers, ImpactController, Free, Session, Needs, NeedsKept,
         AdminResource
<1>. QED
  BY <1>1 DEF OpenTo, Of

LEMMA PartnersOpen ==
  OpenTo(Of("partners", {"findAll", "create", "update", "reorder", "remove"}), 2)
<1>1. ASSUME NEW h \in {"findAll", "create", "update", "reorder", "remove"}
      PROVE  Required(<<"partners", h>>) \in 0..2
  BY SubjectLevel, ActionLevels, ResourceLevels
     DEF Required, Handler, Controllers, PartnersController, Free, Session, Needs, NeedsKept,
         AdminResource
<1>. QED
  BY <1>1 DEF OpenTo, Of

LEMMA DonationsOpen ==
  OpenTo(Of("donations", {"findAll", "create", "update", "remove"}), 2)
<1>1. ASSUME NEW h \in {"findAll", "create", "update", "remove"}
      PROVE  Required(<<"donations", h>>) \in 0..2
  BY SubjectLevel, ActionLevels, ResourceLevels
     DEF Required, Handler, Controllers, DonationsController, Free, Session, Needs, NeedsKept,
         AdminResource
<1>. QED
  BY <1>1 DEF OpenTo, Of

LEMMA NavigationOpen ==
  OpenTo(Of("navigation", {"findAll", "create", "update", "reorder", "remove"}), 2)
<1>1. ASSUME NEW h \in {"findAll", "create", "update", "reorder", "remove"}
      PROVE  Required(<<"navigation", h>>) \in 0..2
  BY SubjectLevel, ActionLevels, ResourceLevels
     DEF Required, Handler, Controllers, NavigationController, Free, Session, Needs, NeedsKept,
         AdminResource
<1>. QED
  BY <1>1 DEF OpenTo, Of

LEMMA SettingsOpen ==
  OpenTo(Of("settings", {"findDraft", "draftStatus", "publishAll", "publish", "discard", "update"}), 2)
<1>1. ASSUME NEW h \in {"findDraft", "draftStatus", "publishAll", "publish",
                        "discard", "update"}
      PROVE  Required(<<"settings", h>>) \in 0..2
  BY SubjectLevel, ActionLevels, ResourceLevels
     DEF Required, Handler, Controllers, SettingsController, Free, Session, Needs, NeedsKept,
         AdminResource
<1>. QED
  BY <1>1 DEF OpenTo, Of

LEMMA ContactOpen ==
  OpenTo(Of("contact", {"findAll", "findOne", "update", "remove"}), 2)
<1>1. ASSUME NEW h \in {"findAll", "findOne", "update", "remove"}
      PROVE  Required(<<"contact", h>>) \in 0..2
  BY SubjectLevel, ActionLevels, ResourceLevels
     DEF Required, Handler, Controllers, ContactController, Free, Session, Needs, NeedsKept,
         AdminResource
<1>. QED
  BY <1>1 DEF OpenTo, Of

LEMMA EmailMessagesOpen ==
  OpenTo(Of("messages", {"forContact", "retry", "list", "get", "cancel"}), 2)
<1>1. ASSUME NEW h \in {"forContact", "retry", "list", "get", "cancel"}
      PROVE  Required(<<"messages", h>>) \in 0..2
  BY SubjectLevel, ActionLevels, ResourceLevels
     DEF Required, Handler, Controllers, EmailMessagesController, Free, Session, Needs,
         NeedsKept, AdminResource
<1>. QED
  BY <1>1 DEF OpenTo, Of

LEMMA EmailOpen ==
  OpenTo(Of("email", {"getSettings", "updateSettings", "verify", "sendTest", "dnsReport",
     "overview"}), 2)
<1>1. ASSUME NEW h \in {"getSettings", "updateSettings", "verify", "sendTest",
                        "dnsReport", "overview"}
      PROVE  Required(<<"email", h>>) \in 0..2
  BY SubjectLevel, ActionLevels, ResourceLevels
     DEF Required, Handler, Controllers, EmailController, Free, Session, Needs, NeedsKept,
         AdminResource
<1>. QED
  BY <1>1 DEF OpenTo, Of

LEMMA EmailTemplatesOpen ==
  OpenTo(Of("templates", {"list", "get", "preview", "update", "reset", "test"}), 2)
<1>1. ASSUME NEW h \in {"list", "get", "preview", "update", "reset", "test"}
      PROVE  Required(<<"templates", h>>) \in 0..2
  BY SubjectLevel, ActionLevels, ResourceLevels
     DEF Required, Handler, Controllers, EmailTemplatesController, Free, Session, Needs,
         NeedsKept, AdminResource
<1>. QED
  BY <1>1 DEF OpenTo, Of

LEMMA SubscribersOpen ==
  OpenTo(Of("subscribers", {"availability"}), 2)
<1>1. ASSUME NEW h \in {"availability"}
      PROVE  Required(<<"subscribers", h>>) \in 0..2
  BY SubjectLevel, ActionLevels, ResourceLevels
     DEF Required, Handler, Controllers, SubscribersController, Free, Session, Needs, NeedsKept,
         AdminResource
<1>. QED
  BY <1>1 DEF OpenTo, Of

LEMMA CampaignsOpen ==
  OpenTo(Of("campaigns", {"list", "get", "audience", "previewDraft", "create", "update", "duplicate",
     "remove", "test", "pause", "resume", "cancel", "schedule", "stats"}), 2)
<1>1. ASSUME NEW h \in {"list", "get", "audience", "previewDraft", "create",
                        "update", "duplicate", "remove", "test", "pause", "resume",
                        "cancel", "schedule", "stats"}
      PROVE  Required(<<"campaigns", h>>) \in 0..2
  BY SubjectLevel, ActionLevels, ResourceLevels
     DEF Required, Handler, Controllers, CampaignsController, Free, Session, Needs, NeedsKept,
         AdminResource
<1>. QED
  BY <1>1 DEF OpenTo, Of

LEMMA UsersOpen ==
  OpenTo(Of("users", {"findAll", "create", "update", "remove"}), 3)
<1>1. ASSUME NEW h \in {"findAll", "create", "update", "remove"}
      PROVE  Required(<<"users", h>>) \in 0..3
  BY SubjectLevel, ActionLevels, ResourceLevels
     DEF Required, Handler, Controllers, UsersController, Free, Session, Needs, NeedsKept,
         AdminResource
<1>. QED
  BY <1>1 DEF OpenTo, Of

LEMMA MediaOpenToEditors ==
  OpenTo(Of("media", {"findAll", "uploadFile"}), 1)
<1>1. ASSUME NEW h \in {"findAll", "uploadFile"}
      PROVE  Required(<<"media", h>>) \in 0..1
  BY SubjectLevel, ActionLevels, ResourceLevels
     DEF Required, Handler, Controllers, MediaController, Free, Session, Needs, NeedsKept,
         AdminResource
<1>. QED
  BY <1>1 DEF OpenTo, Of

LEMMA ScreensOpen ==
  /\ OpenTo(NewsAdmin, 1)
  /\ OpenTo(MissionsAdmin, 1)
  /\ OpenTo(GalleryAdmin, 1)
  /\ OpenTo(MediaAdmin, 2)
  /\ OpenTo(ImpactAdmin, 2)
  /\ OpenTo(PartnersAdmin, 2)
  /\ OpenTo(DonationsAdmin, 2)
  /\ OpenTo(NavigationAdmin, 2)
  /\ OpenTo(SettingsAdmin, 2)
  /\ OpenTo(MessagesAdmin, 2)
  /\ OpenTo(EmailSettingsAdmin, 2)
  /\ OpenTo(EmailTemplatesAdmin, 2)
  /\ OpenTo(EmailHistoryAdmin, 2)
  /\ OpenTo(NotificationsAdmin, 2)
  /\ OpenTo(CommunicationOverview, 2)
  /\ OpenTo(CampaignsAdmin, 2)
  /\ OpenTo(UsersAdmin, 3)
<1> USE DEF OpenTo, Of
<1>1. OpenTo(NewsAdmin, 1)
  BY NewsOpen, MediaOpenToEditors DEF NewsAdmin, MediaPicker
<1>2. OpenTo(MissionsAdmin, 1)
  BY MissionsOpen, MediaOpenToEditors DEF MissionsAdmin, MediaPicker
<1>3. OpenTo(GalleryAdmin, 1)
  BY GalleryOpen, MediaOpenToEditors DEF GalleryAdmin, MediaPicker
<1>4. OpenTo(MediaAdmin, 2)
  BY MediaOpen DEF MediaAdmin
<1>5. OpenTo(ImpactAdmin, 2)
  BY ImpactOpen DEF ImpactAdmin
<1>6. OpenTo(PartnersAdmin, 2)
  BY PartnersOpen, MediaOpenToEditors DEF PartnersAdmin, MediaPicker
<1>7. OpenTo(DonationsAdmin, 2)
  BY DonationsOpen DEF DonationsAdmin
<1>8. OpenTo(NavigationAdmin, 2)
  BY NavigationOpen DEF NavigationAdmin
<1>9. OpenTo(SettingsAdmin, 2)
  BY SettingsOpen, MediaOpenToEditors DEF SettingsAdmin, MediaPicker
<1>10. OpenTo(MessagesAdmin, 2)
  BY ContactOpen, EmailMessagesOpen DEF MessagesAdmin
<1>11. OpenTo(EmailSettingsAdmin, 2)
  BY EmailOpen DEF EmailSettingsAdmin
<1>12. OpenTo(EmailTemplatesAdmin, 2)
  BY EmailTemplatesOpen DEF EmailTemplatesAdmin
<1>13. OpenTo(EmailHistoryAdmin, 2)
  BY EmailMessagesOpen DEF EmailHistoryAdmin
<1>14. OpenTo(NotificationsAdmin, 2)
  BY EmailTemplatesOpen, EmailOpen DEF NotificationsAdmin
<1>15. OpenTo(CommunicationOverview, 2)
  BY EmailOpen, SubscribersOpen DEF CommunicationOverview
<1>16. OpenTo(CampaignsAdmin, 2)
  BY CampaignsOpen, EmailOpen DEF CampaignsAdmin
<1>17. OpenTo(UsersAdmin, 3)
  BY UsersOpen DEF UsersAdmin
<1>. QED
  BY <1>1, <1>2, <1>3, <1>4, <1>5, <1>6, <1>7, <1>8, <1>9, <1>10, <1>11, <1>12, <1>13, <1>14,
     <1>15, <1>16, <1>17

\* And those of the screens whose calls depend on the role they are shown to.
LEMMA FrameOpen ==
  /\ OpenTo(Of("auth", {"me", "logout"}), 1) /\ OpenTo(Of("auth", {"changePassword", "me"}), 1)
  /\ OpenTo(Of("dashboard", {"getStats"}), 1)
  /\ OpenTo(Of("dashboard", {"getOverview", "getHealth"}), 1)
  /\ OpenTo(Of("audit", {"findAll"}), 3)
  /\ OpenTo(Of("subscribers", {"stats", "list", "availability", "unsubscribe"}), 2)
  /\ OpenTo(Of("subscribers", {"export", "erase", "import"}), 3)
<1>1. ASSUME NEW h \in {"me", "logout", "changePassword"}
      PROVE  Required(<<"auth", h>>) \in 0..1
  BY SubjectLevel, ActionLevels, ResourceLevels
     DEF Required, Handler, Controllers, AuthController, Free, Session, Needs, NeedsKept,
         AdminResource
<1>2. ASSUME NEW h \in {"getStats", "getOverview", "getHealth"}
      PROVE  Required(<<"dashboard", h>>) \in 0..1
  BY SubjectLevel, ActionLevels, ResourceLevels
     DEF Required, Handler, Controllers, DashboardController, Free, Session, Needs, NeedsKept,
         AdminResource
<1>3. ASSUME NEW h \in {"findAll"}
      PROVE  Required(<<"audit", h>>) \in 0..3
  BY SubjectLevel, ActionLevels, ResourceLevels
     DEF Required, Handler, Controllers, AuditController, Free, Session, Needs, NeedsKept,
         AdminResource
<1>4. ASSUME NEW h \in {"stats", "list", "availability", "unsubscribe"}
      PROVE  Required(<<"subscribers", h>>) \in 0..2
  BY SubjectLevel, ActionLevels, ResourceLevels
     DEF Required, Handler, Controllers, SubscribersController, Free, Session, Needs, NeedsKept,
         AdminResource
<1>5. ASSUME NEW h \in {"export", "erase", "import"}
      PROVE  Required(<<"subscribers", h>>) \in 0..3
  BY SubjectLevel, ActionLevels, ResourceLevels
     DEF Required, Handler, Controllers, SubscribersController, Free, Session, Needs, NeedsKept,
         AdminResource
<1>. QED
  BY <1>1, <1>2, <1>3, <1>4, <1>5 DEF OpenTo, Of

LEMMA Routes ==
  /\ ByRole["EDITOR"] = {"dashboard", "password", "news", "missions", "gallery"}
  /\ ByRole["ADMIN"] = {"media", "impact", "partners", "donations", "navigation", "settings",
                        "messages", "communication", "email settings", "templates",
                        "history", "subscribers", "campaigns", "notifications"}
  /\ ByRole["SUPER_ADMIN"] = {"users", "audit"}
  BY DEF ByRole

LEMMA Ladder ==
  ASSUME NEW r \in Roles, NEW s \in ByRole[r]
  PROVE  MinRole(s) = r
<1>1. ASSUME NEW q \in Roles, s \in ByRole[q]
      PROVE  q = r
  <2>1. s \in ByRole["EDITOR"] => s \notin ByRole["ADMIN"] /\ s \notin ByRole["SUPER_ADMIN"]
    BY Routes
  <2>2. s \in ByRole["ADMIN"] => s \notin ByRole["SUPER_ADMIN"]
    BY Routes
  <2>. QED
    BY <1>1, <2>1, <2>2 DEF Roles
<1>. QED
  BY <1>1 DEF MinRole

LEMMA OpensTo ==
  ASSUME NEW r \in Roles
  PROVE  {s \in Screens : Can(r, MinRole(s))} = UNION {ByRole[l] : l \in {l \in Roles : Can(r, l)}}
  BY Ladder DEF Screens

LEMMA LinksOpen ==
  ASSUME NEW r \in Roles
  PROVE  {s \in Screens : Can(r, MinRole(s))} = Links(r) \cup {"password"}
<1>1. \A l \in Roles : NavGroups[l] = ByRole[l] \ {"password"}
  BY Routes DEF Roles, NavGroups
<1>2. Can(r, "EDITOR")
  BY DEF Can, RoleLevel, Roles
<1>3. "password" \in ByRole["EDITOR"] /\ "EDITOR" \in Roles
  BY Routes DEF Roles
<1>. QED
  BY <1>1, <1>2, <1>3, OpensTo DEF Links

LEMMA OpenHigher ==
  ASSUME NEW C, NEW n \in Nat, NEW m \in Nat, OpenTo(C, n), n <= m
  PROVE  OpenTo(C, m)
  BY DEF OpenTo

LEMMA Climb ==
  ASSUME NEW r \in Roles, NEW l \in Roles
  PROVE  /\ RoleLevel[r] \in 1..3 /\ (Can(r, l) <=> RoleLevel[l] <= RoleLevel[r])
         /\ RoleLevel["EDITOR"] = 1 /\ RoleLevel["ADMIN"] = 2 /\ RoleLevel["SUPER_ADMIN"] = 3
  BY DEF Roles, RoleLevel, Can

\* The calls of each screen: its own, and those of the frame around it.
LEMMA OffersAre ==
  ASSUME NEW r
  PROVE  /\ Offers("dashboard", r) = DashboardHome(r) \cup AdminLayout(r)
         /\ Offers("password", r) = Of("auth", {"changePassword", "me"})
         /\ Offers("news", r) = NewsAdmin \cup AdminLayout(r)
         /\ Offers("missions", r) = MissionsAdmin \cup AdminLayout(r)
         /\ Offers("gallery", r) = GalleryAdmin \cup AdminLayout(r)
         /\ Offers("media", r) = MediaAdmin \cup AdminLayout(r)
         /\ Offers("impact", r) = ImpactAdmin \cup AdminLayout(r)
         /\ Offers("partners", r) = PartnersAdmin \cup AdminLayout(r)
         /\ Offers("donations", r) = DonationsAdmin \cup AdminLayout(r)
         /\ Offers("navigation", r) = NavigationAdmin \cup AdminLayout(r)
         /\ Offers("settings", r) = SettingsAdmin \cup AdminLayout(r)
         /\ Offers("messages", r) = MessagesAdmin \cup AdminLayout(r)
         /\ Offers("communication", r) = CommunicationOverview \cup AdminLayout(r)
         /\ Offers("email settings", r) = EmailSettingsAdmin \cup AdminLayout(r)
         /\ Offers("templates", r) = EmailTemplatesAdmin \cup AdminLayout(r)
         /\ Offers("history", r) = EmailHistoryAdmin \cup AdminLayout(r)
         /\ Offers("subscribers", r) = SubscribersAdmin(r) \cup AdminLayout(r)
         /\ Offers("campaigns", r) = CampaignsAdmin \cup AdminLayout(r)
         /\ Offers("notifications", r) = NotificationsAdmin \cup AdminLayout(r)
         /\ Offers("users", r) = UsersAdmin \cup AdminLayout(r)
         /\ Offers("audit", r) = Of("audit", {"findAll"}) \cup AdminLayout(r)
  BY DEF Offers

\* A screen offers nothing that the role it opens to may not do.
LEMMA OffersOpen ==
  ASSUME NEW r \in Roles, NEW s \in Screens, Can(r, MinRole(s))
  PROVE  OpenTo(Offers(s, r), RoleLevel[r])
<1> DEFINE L == RoleLevel[r]
<1>1. L \in 1..3
  BY Climb
<1> HIDE DEF L
<1>2. OpenTo(AdminLayout(r), L)
  <2>1. OpenTo(Of("auth", {"me", "logout"}), L)
    BY <1>1, FrameOpen, OpenHigher
  <2>2. OpenTo(Of("dashboard", {"getStats"}), L)
    BY <1>1, FrameOpen, OpenHigher
  <2>. QED
    BY <2>1, <2>2 DEF AdminLayout, OpenTo
<1>3. CASE s \in ByRole["EDITOR"]
  <2>2. OpenTo(DashboardHome(r), 1)
    BY FrameOpen DEF DashboardHome, OpenTo
  <2>3. OpenTo(Offers("dashboard", r), L)
    <3>1. OpenTo(DashboardHome(r), 1)
      BY <2>2
    <3>2. Offers("dashboard", r) = DashboardHome(r) \cup AdminLayout(r)
      BY OffersAre
    <3>. QED
      BY <1>1, <1>2, <3>1, <3>2 DEF OpenTo
  <2>4. OpenTo(Offers("password", r), L)
    <3>1. OpenTo(Of("auth", {"changePassword", "me"}), 1)
      BY FrameOpen
    <3>2. Offers("password", r) = Of("auth", {"changePassword", "me"})
      BY OffersAre
    <3>. QED
      BY <1>1, <1>2, <3>1, <3>2 DEF OpenTo
  <2>5. OpenTo(Offers("news", r), L)
    <3>1. OpenTo(NewsAdmin, 1)
      BY ScreensOpen
    <3>2. Offers("news", r) = NewsAdmin \cup AdminLayout(r)
      BY OffersAre
    <3>. QED
      BY <1>1, <1>2, <3>1, <3>2 DEF OpenTo
  <2>6. OpenTo(Offers("missions", r), L)
    <3>1. OpenTo(MissionsAdmin, 1)
      BY ScreensOpen
    <3>2. Offers("missions", r) = MissionsAdmin \cup AdminLayout(r)
      BY OffersAre
    <3>. QED
      BY <1>1, <1>2, <3>1, <3>2 DEF OpenTo
  <2>7. OpenTo(Offers("gallery", r), L)
    <3>1. OpenTo(GalleryAdmin, 1)
      BY ScreensOpen
    <3>2. Offers("gallery", r) = GalleryAdmin \cup AdminLayout(r)
      BY OffersAre
    <3>. QED
      BY <1>1, <1>2, <3>1, <3>2 DEF OpenTo
  <2>. QED
    BY <1>3, <2>3, <2>4, <2>5, <2>6, <2>7, Routes DEF L
<1>4. CASE s \in ByRole["ADMIN"]
  <2>1. 2 <= L
    BY <1>4, Ladder, Climb DEF Roles, L
  <2>3. OpenTo(SubscribersAdmin(r), L)
    <3>1. OpenTo(Of("subscribers", {"stats", "list", "availability", "unsubscribe"}), L)
      BY <1>1, <2>1, FrameOpen, OpenHigher
    <3>2. Can(r, "SUPER_ADMIN") => L = 3
      BY <1>1, Climb DEF Roles, L
    <3>3. OpenTo(Of("subscribers", {"export", "erase", "import"}), 3)
      BY FrameOpen
    <3>. QED
      BY <3>1, <3>2, <3>3 DEF SubscribersAdmin, OpenTo
  <2>4. OpenTo(Offers("subscribers", r), L)
    BY <1>2, <2>3, OffersAre DEF OpenTo
  <2>5. OpenTo(Offers("media", r), L)
    <3>1. OpenTo(MediaAdmin, 2)
      BY ScreensOpen
    <3>2. Offers("media", r) = MediaAdmin \cup AdminLayout(r)
      BY OffersAre
    <3>. QED
      BY <1>1, <1>2, <2>1, <3>1, <3>2 DEF OpenTo
  <2>6. OpenTo(Offers("impact", r), L)
    <3>1. OpenTo(ImpactAdmin, 2)
      BY ScreensOpen
    <3>2. Offers("impact", r) = ImpactAdmin \cup AdminLayout(r)
      BY OffersAre
    <3>. QED
      BY <1>1, <1>2, <2>1, <3>1, <3>2 DEF OpenTo
  <2>7. OpenTo(Offers("partners", r), L)
    <3>1. OpenTo(PartnersAdmin, 2)
      BY ScreensOpen
    <3>2. Offers("partners", r) = PartnersAdmin \cup AdminLayout(r)
      BY OffersAre
    <3>. QED
      BY <1>1, <1>2, <2>1, <3>1, <3>2 DEF OpenTo
  <2>8. OpenTo(Offers("donations", r), L)
    <3>1. OpenTo(DonationsAdmin, 2)
      BY ScreensOpen
    <3>2. Offers("donations", r) = DonationsAdmin \cup AdminLayout(r)
      BY OffersAre
    <3>. QED
      BY <1>1, <1>2, <2>1, <3>1, <3>2 DEF OpenTo
  <2>9. OpenTo(Offers("navigation", r), L)
    <3>1. OpenTo(NavigationAdmin, 2)
      BY ScreensOpen
    <3>2. Offers("navigation", r) = NavigationAdmin \cup AdminLayout(r)
      BY OffersAre
    <3>. QED
      BY <1>1, <1>2, <2>1, <3>1, <3>2 DEF OpenTo
  <2>10. OpenTo(Offers("settings", r), L)
    <3>1. OpenTo(SettingsAdmin, 2)
      BY ScreensOpen
    <3>2. Offers("settings", r) = SettingsAdmin \cup AdminLayout(r)
      BY OffersAre
    <3>. QED
      BY <1>1, <1>2, <2>1, <3>1, <3>2 DEF OpenTo
  <2>11. OpenTo(Offers("messages", r), L)
    <3>1. OpenTo(MessagesAdmin, 2)
      BY ScreensOpen
    <3>2. Offers("messages", r) = MessagesAdmin \cup AdminLayout(r)
      BY OffersAre
    <3>. QED
      BY <1>1, <1>2, <2>1, <3>1, <3>2 DEF OpenTo
  <2>12. OpenTo(Offers("communication", r), L)
    <3>1. OpenTo(CommunicationOverview, 2)
      BY ScreensOpen
    <3>2. Offers("communication", r) = CommunicationOverview \cup AdminLayout(r)
      BY OffersAre
    <3>. QED
      BY <1>1, <1>2, <2>1, <3>1, <3>2 DEF OpenTo
  <2>13. OpenTo(Offers("email settings", r), L)
    <3>1. OpenTo(EmailSettingsAdmin, 2)
      BY ScreensOpen
    <3>2. Offers("email settings", r) = EmailSettingsAdmin \cup AdminLayout(r)
      BY OffersAre
    <3>3. OpenTo(EmailSettingsAdmin \cup AdminLayout(r), L)
      BY <1>1, <1>2, <2>1, <3>1 DEF OpenTo
    <3>. QED
      BY <3>2, <3>3
  <2>14. OpenTo(Offers("templates", r), L)
    <3>1. OpenTo(EmailTemplatesAdmin, 2)
      BY ScreensOpen
    <3>2. Offers("templates", r) = EmailTemplatesAdmin \cup AdminLayout(r)
      BY OffersAre
    <3>. QED
      BY <1>1, <1>2, <2>1, <3>1, <3>2 DEF OpenTo
  <2>15. OpenTo(Offers("history", r), L)
    <3>1. OpenTo(EmailHistoryAdmin, 2)
      BY ScreensOpen
    <3>2. Offers("history", r) = EmailHistoryAdmin \cup AdminLayout(r)
      BY OffersAre
    <3>. QED
      BY <1>1, <1>2, <2>1, <3>1, <3>2 DEF OpenTo
  <2>16. OpenTo(Offers("campaigns", r), L)
    <3>1. OpenTo(CampaignsAdmin, 2)
      BY ScreensOpen
    <3>2. Offers("campaigns", r) = CampaignsAdmin \cup AdminLayout(r)
      BY OffersAre
    <3>. QED
      BY <1>1, <1>2, <2>1, <3>1, <3>2 DEF OpenTo
  <2>17. OpenTo(Offers("notifications", r), L)
    <3>1. OpenTo(NotificationsAdmin, 2)
      BY ScreensOpen
    <3>2. Offers("notifications", r) = NotificationsAdmin \cup AdminLayout(r)
      BY OffersAre
    <3>. QED
      BY <1>1, <1>2, <2>1, <3>1, <3>2 DEF OpenTo
  <2>. QED
    BY <1>4, <2>4, <2>5, <2>6, <2>7, <2>8, <2>9, <2>10, <2>11, <2>12, <2>13, <2>14, <2>15, <2>16,
       <2>17, Routes
       DEF L
<1>5. CASE s \in ByRole["SUPER_ADMIN"]
  <2>1. L = 3
    BY <1>1, <1>5, Ladder, Climb DEF Roles, L
  <2>3. OpenTo(Offers("users", r), L)
    <3>1. OpenTo(UsersAdmin, 3)
      BY ScreensOpen
    <3>2. Offers("users", r) = UsersAdmin \cup AdminLayout(r)
      BY OffersAre
    <3>. QED
      BY <1>1, <1>2, <2>1, <3>1, <3>2 DEF OpenTo
  <2>4. OpenTo(Offers("audit", r), L)
    <3>1. OpenTo(Of("audit", {"findAll"}), 3)
      BY FrameOpen
    <3>2. Offers("audit", r) = Of("audit", {"findAll"}) \cup AdminLayout(r)
      BY OffersAre
    <3>. QED
      BY <1>1, <1>2, <2>1, <3>1, <3>2 DEF OpenTo
  <2>. QED
    BY <1>5, <2>3, <2>4, Routes DEF L
<1>. QED
  BY <1>3, <1>4, <1>5 DEF Screens, Roles, L

\* What the call of a colleague needs is a step of the ladder.
LEMMA RequiredIsALevel ==
  ASSUME NEW r \in Roles, NEW s \in Screens, Can(r, MinRole(s)), NEW c \in Offers(s, r)
  PROVE  Required(c) \in 0..3 /\ Required(c) <= RoleLevel[r]
<1>1. Required(c) \in 0..RoleLevel[r] /\ RoleLevel[r] \in 1..3
  BY OffersOpen, Climb DEF OpenTo
<1>. QED
  BY <1>1

\* The shapes of what a browser holds; what it shows opens to the role it goes by.
BrowserStands ==
  \A p \in Colleague :
    /\ place[p] # Outside => Can(held[p], MinRole(place[p]))
    /\ place[p] = Outside => progress[p] = "none" /\ answer[p] = "none" /\ asked[p] = NoCall
    /\ held[p] # "none" /\ ~stale[p] => held[p] = standing[p]

\* A call under way is one of the screen's; nothing was told of it yet, nothing
\* done before the guards have let it in, and all of it before the journal.
CallStands ==
  \A p \in Colleague :
    /\ asked[p] = NoCall \/ asked[p] \in Offers(place[p], held[p])
    /\ progress[p] # "none" => asked[p] \in Offers(place[p], held[p]) /\ answer[p] = "none"
    /\ progress[p] \in {"sent", "admitted"} => did[p] = "no"
    /\ progress[p] = "acted" => did[p] = "done"

AccessShapes ==
  /\ standing \in [Colleague -> Roles \cup {"none"}]
  /\ held \in [Colleague -> Roles \cup {"none"}]
  /\ place \in [Colleague -> Screens \cup {Outside}]
  /\ DOMAIN asked = Colleague
  /\ asked = [p \in Colleague |-> asked[p]]
  /\ progress \in [Colleague -> {"none", "sent", "admitted", "acted"}]
  /\ answer \in [Colleague -> {"none", "ok", "error", "lost", "401", "403"}]
  /\ did \in [Colleague -> {"no", "part", "done"}]
  /\ stale \in [Colleague -> BOOLEAN]
  /\ after \in [Colleague -> BOOLEAN]

AccessInv ==
  AccessShapes /\ BrowserStands /\ CallStands /\ OffersAnswered /\ RevokedAtOnce /\ FailureTold

LEMMA AccessInitInv == AccessInit => AccessInv
  BY DEF AccessInit, AccessInv, AccessShapes, BrowserStands, CallStands, OffersAnswered,
         RevokedAtOnce, FailureTold

\* Who may enter a screen has an account.
LEMMA HeldIsARole ==
  ASSUME AccessInv, NEW p \in Colleague, place[p] # Outside
  PROVE  /\ held[p] \in Roles /\ place[p] \in Screens
         /\ \A c \in Offers(place[p], held[p]) :
              Required(c) \in 0..3 /\ Required(c) <= RoleLevel[held[p]]
<1>1. held[p] \in Roles /\ place[p] \in Screens
  BY DEF AccessInv, AccessShapes, BrowserStands, Can
<1>. QED
  BY <1>1, RequiredIsALevel DEF AccessInv, BrowserStands

LEMMA RegradeInv ==
  ASSUME AccessInv, NEW q \in Colleague, NEW r \in Roles \cup {"none"}, Regrade(q, r)
  PROVE  AccessInv'
<1> USE DEF AccessInv, AccessShapes, Regrade
<1>1. AccessShapes'
  <2>1. standing' \in [Colleague -> Roles \cup {"none"}]
    OBVIOUS
  <2>2. stale' \in [Colleague -> BOOLEAN] /\ after' \in [Colleague -> BOOLEAN]
    OBVIOUS
  <2>3. /\ held' \in [Colleague -> Roles \cup {"none"}]
        /\ place' \in [Colleague -> Screens \cup {Outside}]
        /\ DOMAIN asked' = Colleague /\ asked' = [p \in Colleague |-> asked'[p]]
        /\ progress' \in [Colleague -> {"none", "sent", "admitted", "acted"}]
        /\ answer' \in [Colleague -> {"none", "ok", "error", "lost", "401", "403"}]
        /\ did' \in [Colleague -> {"no", "part", "done"}]
    OBVIOUS
  <2>. QED
    BY <2>1, <2>2, <2>3
<1>u. UNCHANGED <<held, place, asked, progress, answer, did>> /\ CallStands /\ BrowserStands
  OBVIOUS
<1>2. BrowserStands'
  <2>1. ASSUME NEW p \in Colleague, held[p] # "none", ~stale'[p]
        PROVE  held[p] = standing'[p]
    <3>1. p # q
      BY <2>1
    <3>2. stale'[p] = stale[p] /\ standing'[p] = standing[p]
      BY <3>1
    <3>. QED
      BY ONLY <1>u, <2>1, <3>2 DEF BrowserStands
  <2>. QED
    BY ONLY <1>u, <2>1 DEF BrowserStands
<1>3. CallStands'
  BY ONLY <1>u DEF CallStands
<1>4. OffersAnswered'
  BY DEF OffersAnswered, BrowserStands, Can
<1>5. RevokedAtOnce'
  BY DEF RevokedAtOnce
<1>6. FailureTold'
  BY DEF FailureTold
<1>. QED
  BY <1>1, <1>2, <1>3, <1>4, <1>5, <1>6

LEMMA ScreenInv ==
  ASSUME AccessInv, NEW q \in Colleague,
         LearnRole(q) \/ \E s \in Screens : EnterScreen(q, s)
  PROVE  AccessInv'
<1>1. CASE LearnRole(q)
  BY <1>1 DEF LearnRole, AccessInv, AccessShapes, BrowserStands, CallStands, OffersAnswered,
              RevokedAtOnce, FailureTold
<1>2. ASSUME NEW s \in Screens, EnterScreen(q, s)
      PROVE  AccessInv'
  BY <1>2 DEF EnterScreen, AccessInv, AccessShapes, BrowserStands, CallStands, OffersAnswered,
              RevokedAtOnce, FailureTold
<1>. QED
  BY <1>1, <1>2

LEMMA AskInv ==
  ASSUME AccessInv, NEW q \in Colleague, place[q] # Outside,
         NEW c \in Offers(place[q], held[q]), Ask(q, c)
  PROVE  AccessInv'
  BY DEF Ask, AccessInv, AccessShapes, BrowserStands, CallStands, OffersAnswered,
         RevokedAtOnce, FailureTold

LEMMA GuardInv ==
  ASSUME AccessInv, NEW q \in Colleague, Guard(q)
  PROVE  AccessInv'
<1> DEFINE needs == Required(asked[q])
           have == RoleLevel[standing[q]]
<1>1. /\ progress[q] = "sent" /\ place[q] # Outside /\ did[q] = "no" /\ answer[q] = "none"
      /\ asked[q] \in Offers(place[q], held[q])
  BY DEF Guard, AccessInv, BrowserStands, CallStands
<1>2. held[q] \in Roles /\ needs \in 0..3 /\ needs <= RoleLevel[held[q]]
  BY <1>1, HeldIsARole
<1>3. ~stale[q] => standing[q] = held[q]
  BY <1>2 DEF AccessInv, BrowserStands, Roles
<1>4. RoleLevel["none"] = 0 /\ have \in 0..3
  BY Climb DEF RoleLevel, AccessInv, AccessShapes, Roles
<1>5. UNCHANGED <<standing, held, place, stale, asked, did, after>>
  BY DEF Guard
<1>6. \/ Tell(q, "401") /\ needs > 0 /\ standing[q] = "none"
      \/ Tell(q, "403") /\ have < needs
      \/ progress' = [progress EXCEPT ![q] = "admitted"] /\ UNCHANGED answer /\ ~(have < needs)
  BY DEF Guard, RoleNow
<1> HIDE DEF needs, have
<1>7. CASE Tell(q, "401") /\ needs > 0 /\ standing[q] = "none"
  <2>1. stale[q]
    BY <1>2, <1>3, <1>7 DEF Roles
  <2>. QED
    BY <1>1, <1>5, <1>7, <2>1
       DEF Tell, AccessInv, AccessShapes, BrowserStands, CallStands, OffersAnswered,
           RevokedAtOnce, FailureTold
<1>8. CASE Tell(q, "403") /\ have < needs
  <2>1. stale[q]
    BY <1>2, <1>3, <1>4, <1>8 DEF have
  <2>. QED
    BY <1>1, <1>5, <1>8, <2>1
       DEF Tell, AccessInv, AccessShapes, BrowserStands, CallStands, OffersAnswered,
           RevokedAtOnce, FailureTold
<1>9. CASE progress' = [progress EXCEPT ![q] = "admitted"] /\ UNCHANGED answer /\ ~(have < needs)
  <2>1. RoleLevel[standing[q]] >= Required(asked[q])
    BY <1>2, <1>4, <1>9 DEF have, needs
  <2>. QED
    BY <1>1, <1>5, <1>9, <2>1
       DEF AccessInv, AccessShapes, BrowserStands, CallStands, OffersAnswered,
           RevokedAtOnce, FailureTold
<1>. QED
  BY <1>6, <1>7, <1>8, <1>9

LEMMA ActInv ==
  ASSUME AccessInv, NEW q \in Colleague, Act(q) \/ ActRefused(q)
  PROVE  AccessInv'
<1> USE DEF AccessInv, AccessShapes, BrowserStands, CallStands, OffersAnswered,
            RevokedAtOnce, FailureTold, Tell
<1>1. CASE Act(q)
  BY <1>1 DEF Act
<1>2. CASE ActRefused(q)
  BY <1>2 DEF ActRefused, Undone
<1>. QED
  BY <1>1, <1>2

LEMMA ToldInv ==
  ASSUME AccessInv, NEW q \in Colleague, Record(q) \/ Lost(q)
  PROVE  AccessInv'
<1> USE DEF AccessInv, AccessShapes, BrowserStands, CallStands, OffersAnswered,
            RevokedAtOnce, FailureTold, Tell
<1>1. CASE Record(q)
  BY <1>1 DEF Record, WhenNotRecorded
<1>2. CASE Lost(q)
  BY <1>2 DEF Lost, Undone
<1>. QED
  BY <1>1, <1>2

LEMMA AccessNextInv ==
  ASSUME AccessInv, [AccessNext]_accessVars
  PROVE  AccessInv'
<1>1. CASE UNCHANGED accessVars
  BY <1>1 DEF accessVars, calls, AccessInv, AccessShapes, BrowserStands, CallStands,
              OffersAnswered, RevokedAtOnce, FailureTold
<1>2. CASE AccessNext
  BY <1>2, RegradeInv, ScreenInv, AskInv, GuardInv, ActInv, ToldInv DEF AccessNext
<1>. QED
  BY <1>1, <1>2

LEMMA AccessStands == AccessInv => AccessTypeOK /\ RightsAgree
<1> SUFFICES ASSUME AccessInv PROVE AccessTypeOK /\ RightsAgree
  OBVIOUS
<1>1. ASSUME NEW p \in Colleague
      PROVE  asked[p] = NoCall \/ \E r \in Roles : asked[p] \in Offers(place[p], r)
  BY HeldIsARole DEF AccessInv, BrowserStands, CallStands
<1>2. AccessTypeOK
  BY <1>1 DEF AccessTypeOK, AccessInv, AccessShapes
<1>3. EntriesLead
  BY LinksOpen DEF EntriesLead, AccessInv, AccessShapes
<1>. QED
  BY <1>2, <1>3 DEF RightsAgree, AccessInv

-----------------------------------------------------------------------------
(* The editor of a campaign *)

\* The rows the windows hold are rows, as the campaign is.
RowsKept ==
  /\ fetched \in [Desk -> CampaignRows \cup {NoCampaign}]
  /\ pressed \in [Desk -> CampaignRows \cup {NoCampaign}]
  /\ dialog \in [Desk -> BOOLEAN]

\* The dialog is open over the draft of a campaign that is loaded, and a request
\* to send remembers the row it was pressed for.
DialogStands ==
  \A d \in Desk :
    /\ dialog[d] =>
         screen[d] = "one" /\ fetched[d] # NoCampaign /\ inFields[d] = fetched[d].what
    /\ sending[d] # NoCount => pressed[d] # NoCampaign

\* A version of the campaign has one content, now and in what a window holds of
\* it, and no window holds a version that is yet to come.
Dated(r) ==
  r # NoCampaign =>
    /\ r.at <= writes
    /\ campaign # NoCampaign /\ campaign.at = r.at => r.what = campaign.what

VersionsHold ==
  /\ Dated(campaign)
  /\ \A d \in Desk : Dated(fetched[d]) /\ Dated(pressed[d])

EditorInv == CampaignEditorTypeOK /\ RowsKept /\ DialogStands /\ VersionsHold

LEMMA EditorInitInv == CampaignEditorInit => EditorInv
<1> SUFFICES ASSUME CampaignEditorInit PROVE EditorInv
  OBVIOUS
<1> USE ReachAssumption, EditingAssumption DEF CampaignEditorInit
<1>1. EmptyContent \in Contents /\ [blocks |-> "earlier", audience |-> "all"] \in Contents
  BY DEF EmptyContent, Contents, Segment
<1>2. campaign = NoCampaign \/ (campaign \in CampaignRows /\ campaign.at = 0)
  <2> DEFINE first == [status |-> "DRAFT", at |-> 0,
                       what |-> [blocks |-> "earlier", audience |-> "all"]]
  <2>1. first.at = 0 /\ first \in CampaignRows
    <3>1. 0 \in 0..MaxWrites
      OBVIOUS
    <3>. QED
      BY <1>1, <3>1 DEF CampaignRows
  <2>2. campaign = NoCampaign \/ campaign = first
    BY DEF CampaignEditorInit
  <2>. QED
    BY <2>1, <2>2
<1>3. CampaignEditorTypeOK
  BY <1>1, <1>2 DEF CampaignEditorTypeOK, NoSave
<1>4. RowsKept
  BY DEF RowsKept
<1>5. DialogStands
  BY DEF DialogStands
<1>6. VersionsHold
  BY <1>2 DEF VersionsHold, Dated
<1>. QED
  BY <1>3, <1>4, <1>5, <1>6 DEF EditorInv

\* A write gives the campaign a version no window holds yet.
LEMMA StoredIsNew ==
  ASSUME EditorInv, NEW r \in CampaignRows, Stored(r)
  PROVE  /\ campaign' \in CampaignRows /\ campaign'.at = writes'
         /\ campaign'.what = r.what /\ campaign'.status = r.status
         /\ writes' = writes + 1 /\ writes' \in 0..MaxWrites
<1> USE EditingAssumption DEF EditorInv, CampaignEditorTypeOK, Stored
<1>1. writes' = writes + 1 /\ writes' \in 0..MaxWrites
  OBVIOUS
<1>2. campaign' = [r EXCEPT !.at = writes'] /\ r.what \in Contents
  BY <1>1 DEF CampaignRows
<1>. QED
  BY <1>1, <1>2 DEF CampaignRows

LEMMA UpdatedRow ==
  ASSUME EditorInv, campaign # NoCampaign
  PROVE  /\ campaign \in CampaignRows
         /\ \A c \in Contents :
              /\ [campaign EXCEPT !.what = c] \in CampaignRows
              /\ [campaign EXCEPT !.what = c].what = c
              /\ [campaign EXCEPT !.what = c].status = campaign.status
         /\ \A s \in {"DRAFT", "SCHEDULED", "SENDING"} :
              /\ [campaign EXCEPT !.status = s] \in CampaignRows
              /\ [campaign EXCEPT !.status = s].what = campaign.what
              /\ [campaign EXCEPT !.status = s].status = s
  BY DEF EditorInv, CampaignEditorTypeOK, CampaignRows

LEMMA EditorNextInv ==
  ASSUME EditorInv, [CampaignEditorNext]_campaignEditorVars
  PROVE  EditorInv'
<1> USE ReachAssumption, EditingAssumption
    DEF EditorInv, CampaignEditorTypeOK, RowsKept, DialogStands, VersionsHold, Dated
<1>1. CASE UNCHANGED campaignEditorVars
  BY <1>1 DEF campaignEditorVars, campaignRow, editorVars, dialogVars
<1>2. CASE SubscribersMove
  BY <1>2 DEF SubscribersMove, campaignRow, editorVars, dialogVars
<1>3. CASE PlannedStarts
  <2>1. /\ campaign' \in CampaignRows /\ campaign'.at = writes'
        /\ writes' = writes + 1 /\ writes' \in 0..MaxWrites
    BY <1>3, StoredIsNew, UpdatedRow DEF PlannedStarts
  <2>. QED
    BY <1>3, <2>1 DEF PlannedStarts, dialogVars, CampaignRows
<1>4. ASSUME NEW d \in Desk, OpenEditor(d)
      PROVE  EditorInv'
  BY <1>4
     DEF OpenEditor, campaignRow, editorVars, dialogVars, Leaves, EmptyContent, Contents,
         Segment
<1>5. ASSUME NEW d \in Desk, LeaveEditor(d)
      PROVE  EditorInv'
  BY <1>5
     DEF LeaveEditor, campaignRow, editorVars, dialogVars, Leaves, EmptyContent, Contents,
         Segment
<1>6. ASSUME NEW d \in Desk, EditorFetches(d)
      PROVE  EditorInv'
  BY <1>6 DEF EditorFetches, campaignRow, editorVars, dialogVars, Replaces, CampaignRows
<1>7. ASSUME NEW d \in Desk, EditContent(d)
      PROVE  EditorInv'
  BY <1>7 DEF EditContent, campaignRow, editorVars, dialogVars, Contents, Segment
<1>8. ASSUME NEW d \in Desk, SaveCampaign(d)
      PROVE  EditorInv'
  BY <1>8 DEF SaveCampaign, campaignRow, editorVars, dialogVars
<1>9. ASSUME NEW d \in Desk, UpdateStored(d)
      PROVE  EditorInv'
  <2>1. campaign # NoCampaign /\ savingDraft[d].what \in Contents
    BY <1>9 DEF UpdateStored, MayUpdate
  <2>2. /\ campaign' \in CampaignRows /\ campaign'.at = writes'
        /\ writes' = writes + 1 /\ writes' \in 0..MaxWrites
    BY <1>9, <2>1, StoredIsNew, UpdatedRow DEF UpdateStored
  <2>3. NoSave \in [kind : {"none", "create", "update"}, what : Contents]
    BY DEF NoSave, EmptyContent, Contents, Segment
  <2>. QED
    BY <1>9, <2>2, <2>3 DEF UpdateStored, CampaignRows
<1>10. ASSUME NEW d \in Desk, CreateStored(d)
      PROVE  EditorInv'
  BY <1>10
     DEF CreateStored, campaignRow, editorVars, dialogVars, Stored, Leaves, CampaignRows, NoSave,
         EmptyContent, Contents, Segment
<1>11. ASSUME NEW d \in Desk, CreatesAnother(d)
      PROVE  EditorInv'
  BY <1>11
     DEF CreatesAnother, campaignRow, editorVars, dialogVars, Leaves, NoSave, EmptyContent,
         Contents, Segment
<1>12. ASSUME NEW d \in Desk, SaveFailed(d)
      PROVE  EditorInv'
  BY <1>12
     DEF SaveFailed, campaignRow, editorVars, dialogVars, NoSave, EmptyContent, Contents,
         Segment
<1>13. ASSUME NEW d \in Desk, DeleteCampaign(d)
      PROVE  EditorInv'
  BY <1>13
     DEF DeleteCampaign, campaignRow, editorVars, dialogVars, Leaves, EmptyContent, Contents,
         Segment
<1>14. ASSUME NEW d \in Desk, CancelScheduled(d)
      PROVE  EditorInv'
  <2>1. /\ campaign' \in CampaignRows /\ campaign'.at = writes'
        /\ writes' = writes + 1 /\ writes' \in 0..MaxWrites
    BY <1>14, StoredIsNew, UpdatedRow DEF CancelScheduled
  <2>. QED
    BY <1>14, <2>1 DEF CancelScheduled, dialogVars, CampaignRows
<1>15. ASSUME NEW d \in Desk, OpenDialog(d)
      PROVE  EditorInv'
  BY <1>15 DEF OpenDialog, campaignRow, editorVars, dialogVars, MayOpenDialog, IsDraft, Unsaved
<1>16. ASSUME NEW d \in Desk, CountArrives(d)
      PROVE  EditorInv'
  BY <1>16 DEF CountArrives, campaignRow, editorVars, dialogVars, CampaignRows, Contents
<1>17. ASSUME NEW d \in Desk, TickBox(d)
      PROVE  EditorInv'
  BY <1>17 DEF TickBox, campaignRow, editorVars, dialogVars
<1>18. ASSUME NEW d \in Desk, CloseDialog(d)
      PROVE  EditorInv'
  BY <1>18 DEF CloseDialog, campaignRow, editorVars, dialogVars
<1>19. ASSUME NEW d \in Desk, PressSend(d)
      PROVE  EditorInv'
  BY <1>19 DEF PressSend, campaignRow, editorVars, dialogVars
<1>20. ASSUME NEW d \in Desk, SendStored(d)
      PROVE  EditorInv'
  <2>1. PICK status \in {"SCHEDULED", "SENDING"} :
          Stored([campaign EXCEPT !.status = status])
    BY <1>20 DEF SendStored
  <2>2. /\ campaign' \in CampaignRows /\ campaign'.at = writes'
        /\ writes' = writes + 1 /\ writes' \in 0..MaxWrites
    BY <1>20, <2>1, StoredIsNew, UpdatedRow DEF SendStored, MaySend, MayUpdate
  <2>3. /\ dialog' \in [Desk -> BOOLEAN] /\ counting' \in [Desk -> BOOLEAN]
        /\ ticked' \in [Desk -> BOOLEAN] /\ refetches' \in [Desk -> BOOLEAN]
        /\ \A e \in Desk : dialog'[e] => dialog[e]
    BY <1>20 DEF SendStored
  <2>4. /\ sending' = [sending EXCEPT ![d] = NoCount]
        /\ pressed' = [pressed EXCEPT ![d] = NoCampaign]
        /\ UNCHANGED <<reach, moves, screen, fetched, inFields, edited, savingDraft, count>>
    BY <1>20 DEF SendStored
  <2>5. CampaignEditorTypeOK'
    BY <2>2, <2>3, <2>4
  <2>6. RowsKept' /\ DialogStands'
    BY <2>3, <2>4
  <2>7. VersionsHold'
    BY <2>2, <2>4 DEF CampaignRows
  <2>. QED
    BY <2>5, <2>6, <2>7
<1>21. ASSUME NEW d \in Desk, SendRefused(d)
      PROVE  EditorInv'
  <2>1. counting' \in [Desk -> BOOLEAN] /\ ticked' \in [Desk -> BOOLEAN]
    BY <1>21 DEF SendRefused
  <2>2. /\ sending' = [sending EXCEPT ![d] = NoCount]
        /\ pressed' = [pressed EXCEPT ![d] = NoCampaign]
        /\ UNCHANGED <<campaignRow, reach, moves, editorVars, dialog, count>>
    BY <1>21 DEF SendRefused
  <2>. QED
    BY <2>1, <2>2 DEF campaignRow, editorVars
<1>. QED
  BY <1>1, <1>2, <1>3, <1>4, <1>5, <1>6, <1>7, <1>8, <1>9, <1>10, <1>11, <1>12, <1>13, <1>14,
     <1>15, <1>16, <1>17, <1>18, <1>19, <1>20, <1>21
     DEF CampaignEditorNext

LEMMA EditorShows == EditorInv => DialogShowsDraft
  BY DEF EditorInv, DialogStands, DialogShowsDraft, Unsaved
\* Of the steps that write a campaign, only the answer to a request starts one.
LEMMA EditorConfirms ==
  ASSUME EditorInv, [CampaignEditorNext]_campaignEditorVars, StartsNow
  PROVE  \E d \in Desk :
           /\ sending[d] # NoCount /\ sending'[d] = NoCount
           /\ reach[campaign.what.audience] = sending[d]
           /\ campaign'.what = pressed[d].what \/ campaign.at # pressed[d].at
<1> USE DEF StartsNow
<1>1. campaign \in CampaignRows
  BY UpdatedRow
<1>2. ASSUME NEW d \in Desk, SendStored(d)
      PROVE  /\ sending[d] # NoCount /\ sending'[d] = NoCount
             /\ reach[campaign.what.audience] = sending[d]
             /\ campaign'.what = pressed[d].what \/ campaign.at # pressed[d].at
  <2>1. PICK status \in {"SCHEDULED", "SENDING"} :
          Stored([campaign EXCEPT !.status = status])
    BY <1>2 DEF SendStored
  <2>2. campaign'.what = campaign.what
    BY <2>1, StoredIsNew, UpdatedRow
  <2>3. sending[d] # NoCount /\ sending'[d] = NoCount
    BY <1>2 DEF SendStored, EditorInv, CampaignEditorTypeOK
  <2>4. pressed[d] # NoCampaign /\ Dated(pressed[d])
    BY <2>3 DEF EditorInv, DialogStands, VersionsHold
  <2>5. reach[campaign.what.audience] = sending[d]
    BY <1>2 DEF SendStored, MaySend, Recounted
  <2>. QED
    BY <2>2, <2>3, <2>4, <2>5 DEF Dated
<1>3. ASSUME NEW d \in Desk, UpdateStored(d)
      PROVE  FALSE
  <2>1. savingDraft[d].what \in Contents
    BY DEF EditorInv, CampaignEditorTypeOK
  <2>. QED
    BY <1>3, <2>1, StoredIsNew, UpdatedRow DEF UpdateStored
<1>4. ASSUME NEW d \in Desk, CancelScheduled(d)
      PROVE  FALSE
  BY <1>4 DEF CancelScheduled
<1>5. CASE \E d \in Desk : SendStored(d)
  BY <1>2, <1>5
<1>6. ASSUME NEW d \in Desk,
             \/ OpenEditor(d) \/ LeaveEditor(d) \/ EditorFetches(d) \/ EditContent(d)
             \/ SaveCampaign(d) \/ CreatesAnother(d) \/ SaveFailed(d)
             \/ OpenDialog(d) \/ CountArrives(d) \/ TickBox(d) \/ CloseDialog(d)
             \/ PressSend(d) \/ SendRefused(d)
      PROVE  campaign' = campaign
  BY <1>6 DEF OpenEditor, LeaveEditor, EditorFetches, EditContent, SaveCampaign,
       CreatesAnother, SaveFailed, OpenDialog, CountArrives, TickBox, CloseDialog,
       PressSend, SendRefused, campaignRow
<1>7. ASSUME NEW d \in Desk, CreateStored(d) \/ DeleteCampaign(d)
      PROVE  FALSE
  BY <1>7 DEF CreateStored, DeleteCampaign
<1>8. ~PlannedStarts /\ (SubscribersMove \/ UNCHANGED campaignEditorVars => campaign' = campaign)
  BY DEF PlannedStarts, SubscribersMove, campaignEditorVars, campaignRow
<1>. QED
  BY <1>3, <1>4, <1>5, <1>6, <1>7, <1>8 DEF CampaignEditorNext

-----------------------------------------------------------------------------
(* What a search engine is told *)

IndexingShapes ==
  /\ seo \in Seo /\ post \in [Slug -> Post]
  /\ build \in 0..MaxDeploys /\ replaced \in [0..MaxDeploys -> 0..Oldest]
  /\ kept \in [build : 0..MaxDeploys, age : 0..Oldest] \cup {NoPage}
  /\ at \in Address \cup {NoPage} /\ step \in {"closed", "asked", "served", "live"}
  /\ shell \in (0..MaxDeploys) \cup {NoPage}
  /\ waited \in 0..MaxWait /\ outlived \in 0..Oldest
  /\ fetchedSeo \in Seo \cup {NoPage}
  /\ got \in [Slug -> {NoPage, Missing} \cup Post]
  /\ views \in 0..MaxViews /\ revisions \in 0..MaxRevisions
  /\ step # "closed" => at \in Address

\* Of the head h over the page a, with the settings k and the articles g: all
\* that the effect of Seo wrote, whatever head it found.
HeadFits(a, k, g, h) ==
  LET own   == ReadLocalized(Saved(a, k), a.lang)
      image == PropImage(a, g, k)
  IN HasSeo(a, g) =>
       /\ h.index = ~PropNoIndex(a, g)
       /\ h.canonical = Canonical(a.path, a.lang, a.form)
       /\ h.name = (IF own = "none" THEN PropName(a, g) ELSE own)
       /\ h.site = (IF k = NoPage THEN "none" ELSE Localized(k.title, a.lang))
       /\ image.of # "none" => h.image = image
       /\ image.of = "none" /\ k # NoPage /\ k.image => h.image = AsUploaded("site")

\* The page on screen has the head that was written for it.
HeadStands ==
  /\ head \in HeadType /\ PrivateStaysPrivate
  /\ step = "live" => HeadFits(at, fetchedSeo, got, head)

\* Nobody replaced the build of a shell before the shell was asked for: a build
\* was replaced at most as long ago as a shell of it is old, and at most for the
\* time a view has waited when its shell was younger than Ttl as it came in.
ShellStands ==
  /\ \A b \in 0..MaxDeploys : b >= build => replaced[b] = 0
  /\ kept # NoPage => kept.build <= build /\ replaced[kept.build] <= kept.age
  /\ step = "asked" /\ shell # NoPage => shell <= build /\ replaced[shell] + 1 <= Ttl + waited
  /\ outlived < Ttl + MaxWait

IndexingInv == IndexingShapes /\ HeadStands /\ ShellStands

-----------------------------------------------------------------------------
LEMMA AddressShape ==
  /\ \A a \in Address :
       /\ a.path \in Route /\ a.lang \in Tongue /\ a.form \in {"plain", "slash", "id"}
       /\ Canonical(a.path, a.lang, a.form) = a
       /\ Canonical(a.path, a.lang, NormalisedForm(a.form)) \in Address
       /\ Canonical(a.path, a.lang, NormalisedForm(a.form)).path = a.path
  /\ \A p \in Route, l \in Tongue : Plain(p, l) \in Address
  BY DEF Address, Canonical, NormalisedForm, Plain

LEMMA ReadShape ==
  ASSUME NEW w, NEW l \in Tongue
  PROVE  ReadLocalized(w, l) \in Tongue \cup {"none"} /\ Localized(w, l) \in Tongue \cup {"none"}
  BY DEF ReadLocalized, Localized, Tongue

LEMMA ServerHeadShape ==
  ASSUME NEW a \in Address
  PROVE  /\ ServerHead(a) \in HeadType
         /\ ServerHead(a).index => ServerHead(a).canonical.path \in Listed \cup Slug
<1>1. /\ Canonical(a.path, a.lang, NormalisedForm(a.form)) \in Address
      /\ Canonical(a.path, a.lang, NormalisedForm(a.form)).path = a.path
      /\ a.lang \in Tongue /\ a.path \in Route
  BY AddressShape
<1>2. OwnName(a) \in Name
  BY <1>1, ReadShape DEF OwnName, Name
<1>3. ReadLocalized(seo.title, a.lang) \in Tongue \cup {"none"}
  BY <1>1, ReadShape
<1>4. NoIndex(a) \in BOOLEAN
  BY DEF NoIndex
<1>5. ServerHead(a) \in HeadType
  BY <1>1, <1>2, <1>3, <1>4 DEF ServerHead, HeadType, PictureOf, AsUploaded, AsRendered
<1>6. ~NoIndex(a) => a.path \in Listed \cup Slug
  BY DEF NoIndex, Status, Found
<1>. QED
  BY <1>1, <1>5, <1>6 DEF ServerHead

LEMMA HeadAfterShape ==
  ASSUME NEW a \in Address, NEW k, NEW g, NEW h \in HeadType,
         h.index /\ h.canonical # NoPage => h.canonical.path \in Listed \cup Slug
  PROVE  LET n == HeadAfter(a, k, g, h)
         IN /\ n \in HeadType
            /\ n.index /\ n.canonical # NoPage => n.canonical.path \in Listed \cup Slug
            /\ HeadFits(a, k, g, n)
<1> DEFINE n == HeadAfter(a, k, g, h)
           own == ReadLocalized(Saved(a, k), a.lang)
           site == IF k = NoPage THEN "none" ELSE Localized(k.title, a.lang)
           image == PropImage(a, g, k)
<1>1. CASE ~HasSeo(a, g)
  BY <1>1 DEF HeadAfter, HeadFits
<1>2. CASE HasSeo(a, g)
  <2>1. /\ Canonical(a.path, a.lang, a.form) = a /\ a.path \in Route /\ a.lang \in Tongue
    BY AddressShape
  <2>2. n = [canonical |-> a, index |-> ~PropNoIndex(a, g),
             name |-> IF own = "none" THEN PropName(a, g) ELSE own,
             site |-> site,
             image |-> IF image.of # "none" THEN image
                       ELSE IF k # NoPage /\ k.image THEN AsUploaded("site") ELSE h.image]
    BY <1>2, <2>1 DEF HeadAfter, Robots
  <2>3. own \in Tongue \cup {"none"} /\ PropName(a, g) \in Name
    BY <2>1, ReadShape DEF PropName, Name
  <2>4. site \in Tongue \cup {"none"}
    BY <2>1, ReadShape
  <2>5. image \in PictureOf /\ AsUploaded("site") \in PictureOf
    BY <2>1 DEF PropImage, PictureOf, AsUploaded
  <2>6. PropNoIndex(a, g) \in BOOLEAN
    BY DEF PropNoIndex
  <2>7. h.image \in PictureOf
    BY DEF HeadType
  <2> HIDE DEF own, site, image
  <2>8. n \in HeadType
    BY <2>2, <2>3, <2>4, <2>5, <2>6, <2>7 DEF HeadType, Name
  <2>9. n.index => n.canonical.path \in Listed \cup Slug
    <3>1. n.index = ~PropNoIndex(a, g) /\ n.canonical = a
      BY <2>2
    <3>2. ~PropNoIndex(a, g) => a.path \notin Private \cup Elsewhere
      BY DEF PropNoIndex
    <3>. QED
      BY <2>1, <3>1, <3>2 DEF Route
  <2>10. HeadFits(a, k, g, n)
    BY <2>1, <2>2 DEF HeadFits, own, site, image
  <2>. QED
    BY <2>8, <2>9, <2>10
<1>. QED
  BY <1>1, <1>2

\* The effect writes the head of the page that is shown from now on.
LEMMA RenderedInv ==
  ASSUME HeadStands, Rendered, at' \in Address
  PROVE  HeadStands'
<1>1. CASE step' = "live"
  <2>1. head' = HeadAfter(at', fetchedSeo', got', head)
    BY <1>1 DEF Rendered
  <2>. QED
    BY <2>1, HeadAfterShape DEF HeadStands, PrivateStaysPrivate
<1>2. CASE step' # "live"
  BY <1>2 DEF Rendered, HeadStands, PrivateStaysPrivate
<1>. QED
  BY <1>1, <1>2

\* A head that nobody wrote stays what it was written for.
LEMMA HeadRests ==
  ASSUME HeadStands, UNCHANGED <<at, fetchedSeo, got, head>>, step' = "live" => step = "live"
  PROVE  HeadStands'
  BY DEF HeadStands, PrivateStaysPrivate, HeadFits

LEMMA StaticHeadShape == StaticHead \in HeadType /\ StaticHead.canonical = NoPage
  BY DEF StaticHead, HeadType, Name, Tongue, PictureOf, AsUploaded

LEMMA IndexingInitInv == IndexingInit => IndexingInv
<1> SUFFICES ASSUME IndexingInit PROVE IndexingInv
  OBVIOUS
<1> USE StudiedAssumption, IndexingBounds, TtlAssumption DEF IndexingInit, Oldest
<1>1. IndexingShapes
  BY DEF IndexingShapes
<1>2. HeadStands
  BY StaticHeadShape DEF HeadStands, PrivateStaysPrivate
<1>3. ShellStands
  BY DEF ShellStands
<1>. QED
  BY <1>1, <1>2, <1>3 DEF IndexingInv

-----------------------------------------------------------------------------
\* A view of a page, up to the answer.
LEMMA ViewInv ==
  ASSUME IndexingInv, Opens \/ ShellFetched \/ SomeoneElseViews \/ Answered \/ FallsBack
  PROVE  IndexingInv'
<1> USE RouteAssumption, TtlAssumption, IndexingBounds
    DEF IndexingInv, cmsVars, timeVars, viewVars, pageVars, Oldest
<1>1. CASE Opens
  <2>1. IndexingShapes'
    BY <1>1 DEF Opens, IndexingShapes, ShellIsFresh
  <2>2. HeadStands'
    BY <1>1 DEF Opens, HeadStands, PrivateStaysPrivate
  <2>3. ShellStands'
    BY <1>1 DEF Opens, ShellStands, ShellIsFresh, IndexingShapes
  <2>. QED
    BY <2>1, <2>2, <2>3
<1>2. CASE ShellFetched
  <2>1. IndexingShapes'
    BY <1>2 DEF ShellFetched, IndexingShapes
  <2>2. HeadStands'
    BY <1>2, HeadRests DEF ShellFetched
  <2>3. ShellStands'
    BY <1>2 DEF ShellFetched, ShellStands, IndexingShapes
  <2>. QED
    BY <2>1, <2>2, <2>3
<1>3. CASE SomeoneElseViews
  <2>1. IndexingShapes'
    BY <1>3 DEF SomeoneElseViews, IndexingShapes
  <2>2. HeadStands'
    BY <1>3, HeadRests DEF SomeoneElseViews
  <2>3. ShellStands'
    BY <1>3 DEF SomeoneElseViews, ShellStands, IndexingShapes
  <2>. QED
    BY <2>1, <2>2, <2>3
<1>4. CASE Answered
  <2>1. at \in Address
    BY <1>4 DEF Answered, IndexingShapes
  <2>2. IndexingShapes'
    BY <1>4 DEF Answered, IndexingShapes
  <2>3. HeadStands'
    BY <1>4, <2>1, ServerHeadShape DEF Answered, HeadStands, PrivateStaysPrivate
  <2>4. ShellStands'
    BY <1>4 DEF Answered, ShellStands, IndexingShapes
  <2>. QED
    BY <2>2, <2>3, <2>4
<1>5. CASE FallsBack
  <2>1. IndexingShapes'
    BY <1>5 DEF FallsBack, IndexingShapes
  <2>2. HeadStands'
    BY <1>5, StaticHeadShape DEF FallsBack, HeadStands, PrivateStaysPrivate
  <2>3. ShellStands'
    BY <1>5 DEF FallsBack, ShellStands, IndexingShapes
  <2>. QED
    BY <2>1, <2>2, <2>3
<1>. QED
  BY <1>1, <1>2, <1>3, <1>4, <1>5

\* The application in the browser.
LEMMA PageInv ==
  ASSUME IndexingInv, Starts \/ Follows \/ SettingsArrive \/ ArticleArrives \/ ClosesTab
  PROVE  IndexingInv'
<1> USE RouteAssumption, TtlAssumption, IndexingBounds
    DEF IndexingInv, cmsVars, timeVars, viewVars, Oldest
<1>1. CASE Starts
  <2>1. IndexingShapes'
    BY <1>1 DEF Starts, IndexingShapes
  <2>2. HeadStands'
    BY <1>1, <2>1, RenderedInv DEF Starts, IndexingShapes
  <2>3. ShellStands'
    BY <1>1 DEF Starts, ShellStands, IndexingShapes
  <2>. QED
    BY <2>1, <2>2, <2>3
<1>2. CASE Follows
  <2>1. IndexingShapes'
    BY <1>2 DEF Follows, IndexingShapes
  <2>2. HeadStands'
    BY <1>2, RenderedInv DEF Follows
  <2>3. ShellStands'
    BY <1>2 DEF Follows, ShellStands
  <2>. QED
    BY <2>1, <2>2, <2>3
<1>3. CASE SettingsArrive
  <2>1. IndexingShapes'
    BY <1>3 DEF SettingsArrive, IndexingShapes
  <2>2. HeadStands'
    BY <1>3, <2>1, RenderedInv DEF SettingsArrive, IndexingShapes
  <2>3. ShellStands'
    BY <1>3 DEF SettingsArrive, ShellStands
  <2>. QED
    BY <2>1, <2>2, <2>3
<1>4. CASE ArticleArrives
  <2>1. IndexingShapes'
    BY <1>4 DEF ArticleArrives, IndexingShapes
  <2>2. HeadStands'
    BY <1>4, <2>1, RenderedInv DEF ArticleArrives, IndexingShapes
  <2>3. ShellStands'
    BY <1>4 DEF ArticleArrives, ShellStands
  <2>. QED
    BY <2>1, <2>2, <2>3
<1>5. CASE ClosesTab
  <2>1. IndexingShapes'
    BY <1>5 DEF ClosesTab, IndexingShapes
  <2>2. HeadStands'
    BY <1>5, StaticHeadShape DEF ClosesTab, HeadStands, PrivateStaysPrivate
  <2>3. ShellStands'
    BY <1>5 DEF ClosesTab, ShellStands
  <2>. QED
    BY <2>1, <2>2, <2>3
<1>. QED
  BY <1>1, <1>2, <1>3, <1>4, <1>5

\* The office, and the clock and the deployments.
LEMMA OutsideInv ==
  ASSUME IndexingInv, PublishesSeo \/ RevisesPost \/ DateComes \/ Tick \/ Deploys
  PROVE  IndexingInv'
<1> USE StudiedAssumption, TtlAssumption, IndexingBounds
    DEF IndexingInv, timeVars, viewVars, pageVars, cmsVars, Oldest
<1>1. CASE PublishesSeo \/ RevisesPost \/ DateComes
  <2>1. UNCHANGED <<timeVars, viewVars, pageVars>>
    BY <1>1 DEF PublishesSeo, RevisesPost, DateComes
  <2>2. seo' \in Seo /\ revisions' \in 0..MaxRevisions
    BY <1>1 DEF PublishesSeo, RevisesPost, DateComes, IndexingShapes
  <2>3. post' \in [Slug -> Post]
    <3>1. ASSUME NEW s \in Slug PROVE [post[s] EXCEPT !.date = "past"] \in Post
      BY DEF IndexingShapes, Post
    <3>. QED
      BY <1>1, <3>1 DEF PublishesSeo, RevisesPost, DateComes, IndexingShapes
  <2>4. IndexingShapes'
    BY <2>1, <2>2, <2>3 DEF IndexingShapes
  <2>5. HeadStands'
    BY <2>1, HeadRests
  <2>6. ShellStands'
    BY <2>1 DEF ShellStands
  <2>. QED
    BY <2>4, <2>5, <2>6
<1>2. CASE Deploys
  <2>1. IndexingShapes'
    BY <1>2 DEF Deploys, IndexingShapes
  <2>2. HeadStands'
    BY <1>2, HeadRests DEF Deploys
  <2>3. ShellStands'
    BY <1>2 DEF Deploys, ShellStands, IndexingShapes
  <2>. QED
    BY <2>1, <2>2, <2>3
<1>3. CASE Tick
  <2>1. \A n \in 0..Oldest : Older(n) \in 0..Oldest
    BY DEF Older
  <2>2. \A n, m \in 0..Oldest : n <= m => Older(n) <= Older(m)
    BY DEF Older
  <2>3. kept' \in [build : 0..MaxDeploys, age : 0..Oldest] \cup {NoPage}
    BY <1>3, <2>1 DEF Tick, IndexingShapes
  <2>4. replaced' \in [0..MaxDeploys -> 0..Oldest]
    BY <1>3, <2>1 DEF Tick, IndexingShapes
  <2>5. IndexingShapes'
    BY <1>3, <2>3, <2>4 DEF Tick, IndexingShapes
  <2>6. HeadStands'
    BY <1>3, HeadRests DEF Tick
  <2>7. \A b \in 0..MaxDeploys :
          replaced'[b] = IF b < build THEN Older(replaced[b]) ELSE 0
    BY <1>3 DEF Tick, IndexingShapes
  <2>8. ASSUME kept' # NoPage
        PROVE  kept'.build <= build' /\ replaced'[kept'.build] <= kept'.age
    <3>1. kept # NoPage /\ kept'.build = kept.build /\ kept'.age = Older(kept.age)
      BY <1>3, <2>8 DEF Tick, IndexingShapes
    <3>2. /\ kept.build \in 0..MaxDeploys /\ kept.age \in 0..Oldest
          /\ replaced[kept.build] \in 0..Oldest /\ replaced[kept.build] <= kept.age
          /\ kept.build <= build
      BY <3>1 DEF IndexingShapes, ShellStands
    <3>3. Older(replaced[kept.build]) <= Older(kept.age) /\ 0 <= Older(kept.age)
      BY <2>1, <2>2, <3>2
    <3>. QED
      BY <1>3, <2>7, <3>1, <3>2, <3>3 DEF Tick
  <2>9. ASSUME step' = "asked", shell' # NoPage
        PROVE  shell' <= build' /\ replaced'[shell'] + 1 <= Ttl + waited'
    <3>1. /\ waited \in 0..MaxWait /\ waited' = waited + 1 /\ shell' = shell /\ step = "asked" /\ build' = build
      BY <1>3, <2>9 DEF Tick, IndexingShapes
    <3>2. /\ shell \in 0..MaxDeploys /\ replaced[shell] \in 0..Oldest
          /\ shell <= build /\ replaced[shell] + 1 <= Ttl + waited
      BY <2>9, <3>1 DEF IndexingShapes, ShellStands
    <3>3. Older(replaced[shell]) <= replaced[shell] + 1
      BY <3>2 DEF Older
    <3>4. replaced'[shell] <= replaced[shell] + 1 /\ replaced'[shell] \in 0..Oldest
      BY <2>4, <2>7, <3>2, <3>3
    <3>. QED
      BY <3>1, <3>2, <3>4
  <2>10. \A b \in 0..MaxDeploys : b >= build' => replaced'[b] = 0
    BY <1>3, <2>7 DEF Tick, IndexingShapes
  <2>11. ShellStands'
    BY <1>3, <2>8, <2>9, <2>10 DEF Tick, ShellStands
  <2>. QED
    BY <2>5, <2>6, <2>11
<1>. QED
  BY <1>1, <1>2, <1>3

LEMMA IndexingNextInv ==
  ASSUME IndexingInv, [IndexingNext]_indexingVars
  PROVE  IndexingInv'
<1>1. CASE UNCHANGED indexingVars
  <2>1. IndexingShapes' /\ ShellStands'
    BY <1>1 DEF indexingVars, IndexingInv, IndexingShapes, ShellStands
  <2>2. HeadStands'
    BY <1>1, HeadRests DEF indexingVars, IndexingInv
  <2>. QED
    BY <2>1, <2>2 DEF IndexingInv
<1>2. CASE IndexingNext
  BY <1>2, ViewInv, PageInv, OutsideInv DEF IndexingNext
<1>. QED
  BY <1>1, <1>2

-----------------------------------------------------------------------------
\* Of the sitemap, whatever the office has published.
LEMMA ListedHolds == IndexingShapes => ListedIsIndexed
<1> SUFFICES ASSUME IndexingShapes, NEW p \in InSitemap, NEW l \in Tongue,
                    p \in Slug \/ seo.pages[p] # NoEntry
             PROVE  LET h == ServerHead(Plain(p, l))
                    IN Status(Plain(p, l)) = 200 /\ h.index /\ h.canonical = Plain(p, l)
  BY DEF ListedIsIndexed
<1> DEFINE a == Plain(p, l)
<1>1. a.path = p /\ a.lang = l /\ a.form = "plain" /\ a = Canonical(p, l, "plain")
  BY DEF Plain, Canonical
<1> HIDE DEF a
<1>2. p \notin Private
  BY RouteAssumption DEF InSitemap
<1>3. Found(a) /\ (p \in Slug => ~post[p].archived)
  BY <1>1, RouteAssumption DEF InSitemap, Found, ReachablePost, IndexingShapes, Post
<1>4. Status(a) = 200 /\ ~NoIndex(a)
  BY <1>1, <1>2, <1>3 DEF Status, NoIndex
<1>5. ServerHead(a).canonical = a /\ ServerHead(a).index
  BY <1>1, <1>4 DEF ServerHead, NormalisedForm
<1>. QED
  BY <1>4, <1>5 DEF a

\* Of what the two heads say of a page that shows what there is.
LEMMA HeadsHold == IndexingInv => HeadsAgree
<1> SUFFICES ASSUME IndexingInv, UpToDate, at.form = "plain",
                    at.path \in Listed => seo.pages[at.path] # NoEntry
             PROVE  LET h == ServerHead(at)
                    IN /\ head.index = h.index /\ head.canonical = h.canonical
                       /\ h.index /\ (h.name # "none" \/ at.path \in Slug \cup {Front})
                            => head.name = h.name
                       /\ at.lang \in seo.title => head.site = h.site
                       /\ h.image.of # "none" => head.image.of = h.image.of
  BY DEF HeadsAgree
<1> DEFINE h == ServerHead(at)
           own == ReadLocalized(Saved(at, seo), at.lang)
           image == PropImage(at, got, seo)
<1>1. /\ at \in Address /\ at.path \in Route /\ at.lang \in Tongue /\ seo \in Seo /\ seo # NoPage
      /\ fetchedSeo = seo /\ HasSeo(at, got)
      /\ at.path \in Slug => got[at.path] = post[at.path] /\ ReachablePost(post[at.path])
                             /\ post[at.path] \in Post
  BY AddressShape, AbsentAssumption DEF UpToDate, IndexingInv, IndexingShapes
<1>2. /\ head.index = ~PropNoIndex(at, got)
      /\ head.canonical = Canonical(at.path, at.lang, at.form)
      /\ head.name = (IF own = "none" THEN PropName(at, got) ELSE own)
      /\ head.site = Localized(seo.title, at.lang)
      /\ image.of # "none" => head.image = image
      /\ image.of = "none" /\ seo.image => head.image.of = "site"
  BY <1>1 DEF UpToDate, IndexingInv, HeadStands, HeadFits, AsUploaded
<1>3. /\ h.index = ~NoIndex(at)
      /\ h.canonical = Canonical(at.path, at.lang, NormalisedForm(at.form))
      /\ h.name = OwnName(at) /\ h.site = ReadLocalized(seo.title, at.lang)
      /\ h.image.of = IF Found(at) /\ at.path \in Slug /\ post[at.path].image THEN at.path
                      ELSE IF seo.image THEN "site" ELSE "none"
  BY DEF ServerHead, AsUploaded, AsRendered
<1> HIDE DEF h
<1>4. Found(at) <=> at.path \notin Elsewhere
  BY <1>1, RouteAssumption DEF Found, Route
<1>5. head.index = h.index
  BY <1>1, <1>2, <1>3, <1>4, RouteAssumption DEF NoIndex, Status, PropNoIndex, Post
<1>6. head.canonical = h.canonical
  BY <1>2, <1>3 DEF NormalisedForm
<1>7. ASSUME h.index, h.name # "none" \/ at.path \in Slug \cup {Front}
      PROVE  head.name = h.name
  <2>1. at.path \in Listed \cup Slug
    BY <1>1, <1>3, <1>4, <1>7, RouteAssumption DEF NoIndex, Status, Route
  <2>2. CASE at.path \in Slug
    <3>1. Saved(at, seo) = {}
      BY <2>2, RouteAssumption DEF Saved
    <3>2. own = "none"
      BY <3>1 DEF ReadLocalized
    <3>3. PropName(at, got) = ReadLocalized(post[at.path].title, at.lang)
      BY <1>1, <2>2, RouteAssumption DEF PropName
    <3>4. OwnName(at) = ReadLocalized(post[at.path].title, at.lang)
      BY <1>4, <2>2, RouteAssumption DEF OwnName
    <3>. QED
      BY <1>2, <1>3, <3>2, <3>3, <3>4
  <2>3. CASE at.path \in Listed
    <3>1. Saved(at, seo) = seo.pages[at.path]
      BY <1>1, <2>3 DEF Saved
    <3>2. OwnName(at) = own
      BY <1>4, <2>3, <3>1, RouteAssumption DEF OwnName
    <3>3. at.path = Front => PropName(at, got) = "none"
      BY <2>3, RouteAssumption DEF PropName
    <3>. QED
      BY <1>2, <1>3, <1>7, <2>3, <3>2, <3>3, RouteAssumption
  <2>. QED
    BY <2>1, <2>2, <2>3
<1>8. at.lang \in seo.title => head.site = h.site
  BY <1>2, <1>3 DEF Localized, ReadLocalized
<1>9. h.image.of # "none" => head.image.of = h.image.of
  <2>1. CASE at.path \in Slug
    <3>1. image.of = IF post[at.path].image THEN at.path ELSE "none"
      BY <1>1, <2>1, RouteAssumption DEF PropImage, AsUploaded
    <3>. QED
      BY <1>1, <1>2, <1>3, <1>4, <2>1, <3>1, RouteAssumption
  <2>2. CASE at.path \notin Slug
    <3>1. image.of \in {"none", "site"} \/ ~seo.image
      BY <1>1, <2>2 DEF PropImage, AsUploaded
    <3>. QED
      BY <1>2, <1>3, <2>2, <3>1
  <2>. QED
    BY <2>1, <2>2
<1>. QED
  BY <1>5, <1>6, <1>7, <1>8, <1>9 DEF h

LEMMA IndexingStands == IndexingInv => IndexingTypeOK /\ IndexingHolds
<1> SUFFICES ASSUME IndexingInv PROVE IndexingTypeOK /\ IndexingHolds
  OBVIOUS
<1>1. IndexingTypeOK
  BY DEF IndexingInv, IndexingShapes, HeadStands, IndexingTypeOK
<1>2. PrivateStaysPrivate /\ ShellIsRecent
  BY DEF IndexingInv, HeadStands, ShellStands, ShellIsRecent
<1>. QED
  BY <1>1, <1>2, ListedHolds, HeadsHold DEF IndexingHolds, IndexingInv

-----------------------------------------------------------------------------
(* The results *)

\* What a screen offers the guards let through, unless the account was changed
\* since, and a right that is taken is taken at once (permissions.guard.ts,
\* jwt.strategy.ts, ProtectedRoute.tsx).
THEOREM RightsAlwaysAgree == AccessSpec => []RightsAgree
<1>1. AccessSpec => []AccessInv
  <2>1. AccessInv /\ [AccessNext]_accessVars => AccessInv'
    BY AccessNextInv
  <2>. QED
    BY AccessInitInv, <2>1, PTL DEF AccessSpec
<1>2. AccessInv => RightsAgree
  BY AccessStands
<1>. QED
  BY <1>1, <1>2, PTL

THEOREM EditorInvariance == CampaignEditorSpec => []EditorInv
<1>1. EditorInv /\ [CampaignEditorNext]_campaignEditorVars => EditorInv'
  BY EditorNextInv
<1>. QED
  BY EditorInitInv, <1>1, PTL DEF CampaignEditorSpec

\* The dialog that asks whether to send stands for what is stored and on screen
\* (CampaignsAdmin's dirty and confirmation).
THEOREM DialogAlwaysShowsDraft == CampaignEditorSpec => []DialogShowsDraft
<1>1. EditorInv => DialogShowsDraft
  BY EditorShows
<1>. QED
  BY <1>1, EditorInvariance, PTL

\* A campaign starts for as many people as its sender confirmed and with the
\* words the sender saw, unless another write came between (campaigns.service's
\* send).
THEOREM SendIsAlwaysConfirmed == CampaignEditorSpec => SendIsConfirmed
<1>1. ASSUME EditorInv, [CampaignEditorNext]_campaignEditorVars
      PROVE  [StartsNow =>
                \E d \in Desk :
                  /\ sending[d] # NoCount /\ sending'[d] = NoCount
                  /\ reach[campaign.what.audience] = sending[d]
                  /\ campaign'.what = pressed[d].what
                       \/ campaign.at # pressed[d].at]_campaignEditorVars
  BY <1>1, EditorConfirms
<1>. QED
  BY <1>1, EditorInvariance, PTL DEF CampaignEditorSpec, SendIsConfirmed

\* What a search engine is told is so, whoever tells it, for every set of pages
\* and however long a shell is kept (seo.service.ts, page-meta.service.ts,
\* page-shell.service.ts, Seo.tsx).
THEOREM IndexingAlwaysHolds == IndexingSpec => []IndexingHolds
<1>1. IndexingSpec => []IndexingInv
  <2>1. IndexingInv /\ [IndexingNext]_indexingVars => IndexingInv'
    BY IndexingNextInv
  <2>. QED
    BY IndexingInitInv, <2>1, PTL DEF IndexingSpec
<1>2. IndexingInv => IndexingHolds
  BY IndexingStands
<1>. QED
  BY <1>1, <1>2, PTL

-----------------------------------------------------------------------------
(* The components side by side *)

administrationVars ==
  <<part, accountsVars, mediaVars, accessVars, campaignEditorVars, indexingVars>>

AdministrationInv ==
  AccountsInv /\ LibraryInv /\ AccessInv /\ EditorInv /\ IndexingInv

LEMMA AdministrationInitInv == AdministrationInit => AdministrationInv
BY AccountsInitInv, LibraryInitInv, AccessInitInv, EditorInitInv, IndexingInitInv
   DEF AdministrationInit, AdministrationInv

\* A step is one of each component, or leaves it as it is.
LEMMA AdministrationSteps ==
  ASSUME [AdministrationNext]_administrationVars
  PROVE  /\ [AccountsNext]_accountsVars /\ [MediaNext]_mediaVars
         /\ [AccessNext]_accessVars /\ [CampaignEditorNext]_campaignEditorVars
         /\ [IndexingNext]_indexingVars
BY DEF AdministrationNext, administrationVars

LEMMA AdministrationNextInv ==
  ASSUME AdministrationInv, [AdministrationNext]_administrationVars
  PROVE  AdministrationInv'
BY AdministrationSteps, AccountsNextInv, LibraryNextInv, AccessNextInv, EditorNextInv,
   IndexingNextInv
   DEF AdministrationInv

\* What holds of each component on its own holds of them side by side.
THEOREM AdministrationInvariance == AdministrationSpec => []AdministrationInv
<1>1. AdministrationInv /\ [AdministrationNext]_administrationVars => AdministrationInv'
  BY AdministrationNextInv
<1>. QED
  BY AdministrationInitInv, <1>1, PTL DEF AdministrationSpec, administrationVars

\* The components keep to their types, and a row of the library has its file and
\* a file its row, but where a request is at it or left it (media.service.ts).
THEOREM AdministrationIsSound == AdministrationSpec => []AdministrationOK
<1>1. AdministrationInv => AdministrationOK
  BY AccessStands, EditorShows, IndexingStands
     DEF AdministrationInv, AdministrationOK, AccountsInv, LibraryInv, SectionsInv, Paired,
         FileAndRow, EditorInv
<1>. QED
  BY AdministrationInvariance, <1>1, PTL

\* Every behaviour of the components side by side is one of each of them, so
\* that what is proved of one on its own is true of it there.
THEOREM EachOnItsOwn ==
  AdministrationSpec =>
    AccountsSpec /\ MediaSpec /\ AccessSpec /\ CampaignEditorSpec /\ IndexingSpec
<1>1. AdministrationInit =>
        AccountsInit /\ MediaInit /\ AccessInit /\ CampaignEditorInit /\ IndexingInit
  BY DEF AdministrationInit
<1>2. [AdministrationNext]_administrationVars =>
        /\ [AccountsNext]_accountsVars /\ [MediaNext]_mediaVars
        /\ [AccessNext]_accessVars /\ [CampaignEditorNext]_campaignEditorVars
        /\ [IndexingNext]_indexingVars
  BY AdministrationSteps
<1>. QED
  BY <1>1, <1>2, PTL
     DEF AdministrationSpec, AccountsSpec, MediaSpec, AccessSpec, CampaignEditorSpec,
         IndexingSpec, administrationVars

\* What the run checks of every state: passwords are one's own, the screens
\* agree with the guards, the dialog with the draft and the heads with the pages.
THEOREM AdministrationAgrees ==
  AdministrationSpec => [](OwnPassword /\ RightsAgree /\ DialogShowsDraft /\ IndexingHolds)
BY EachOnItsOwn, OwnPasswordHolds, RightsAlwaysAgree, DialogAlwaysShowsDraft,
   IndexingAlwaysHolds, PTL

\* What the run checks of every step: the guard rails of the accounts, the forms
\* that change what was touched, the files in use that stay, the campaigns that
\* start as they were confirmed.
THEOREM AdministrationActsOnPurpose ==
  AdministrationSpec => GuardRails /\ OnlyWhatWasTouched /\ InUseKept /\ SendIsConfirmed
BY EachOnItsOwn, GuardRailsHold, OnlyWhatWasTouchedHolds, InUseKeptHolds,
   SendIsAlwaysConfirmed
=============================================================================
