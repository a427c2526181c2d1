---------------------------- MODULE EmailSettings ----------------------------
(***************************************************************************)
(* The email settings: one row (backend/src/email/email-settings.service)  *)
(* and the screens administrators edit it on (frontend EmailSettingsAdmin).*)
(*                                                                         *)
(* A screen shows a copy of the row and a draft of its own, and saving     *)
(* sends every field of the draft, with the password only when one was     *)
(* typed.  Where no address of the site is stored, the draft opens with    *)
(* the one its administrator uses: nobody typed it, it counts as a change  *)
(* to save, and a save stores it.  Verifying connects with what is stored  *)
(* and writes its result to the same row; the screen then reads the row    *)
(* again, and a row that changed replaces the draft.                       *)
(*                                                                         *)
(* A definition whose name starts with M_ is a mutated form of the one     *)
(* below it, used only to show that a property fails of that bug.          *)
(***************************************************************************)
EXTENDS Naturals

CONSTANTS
  Admin,      \* administrators, each at a screen of the email settings
  Server,     \* SMTP servers one may type
  NoServer,   \* "no server"
  Site,       \* public addresses of the site
  NoSite,     \* "no address"
  Origin,     \* the address each administrator uses (adminOrigin), or NoSite
  Deployed,   \* whether the deployment declares the address (PUBLIC_SITE_URL)
  EditedFields, \* the fields that somebody changes
  MaxActs     \* bound: changes typed and tests asked for, on all the screens

ASSUME ServerAssumption == NoServer \notin Server
ASSUME SiteAssumption ==
  NoSite \notin Site /\ Origin \in [Admin -> Site \cup {NoSite}] /\ Deployed \in BOOLEAN
ASSUME ActsAssumption == MaxActs \in Nat

VARIABLES
  \* The row.
  config,     \* its fields, but for the password and the last test
  secret,     \* its password: the change that typed it, or 0
  lastTest,   \* lastTestOk, and the number of tests recorded (lastTestAt)
  \* The screens.
  data,       \* the copy of the row a screen was given
  formDraft,  \* what its form shows
  password,   \* its password field, 0 when nothing is in it
  asked,      \* screens waiting for the row again
  \* Requests in flight: at most one save and one test of a screen.
  saving, payload, base,
  testing, probe,
  acts,       \* changes typed and tests asked for so far
  \* History variables.
  testedOn,   \* the connection the recorded test was made on
  crossed,    \* the recorded test and the configuration were written across
              \* each other
  shaken,     \* tests whose configuration was written since they connected
  retyped,    \* fields changed on a screen since it showed the row
  surpassed,  \* screens whose draft a save of somebody else overtook
  outdated    \* saves in flight overtaken so

settingsRow      == <<config, secret, lastTest>>
screens  == <<data, formDraft, password, asked>>
saves    == <<saving, payload, base>>
tests    == <<testing, probe>>
settingsTraces == <<testedOn, crossed, shaken, retyped, surpassed, outdated>>
emailSettingsVars == <<settingsRow, screens, saves, tests, acts, settingsTraces>>

Config     == [host : Server \cup {NoServer}, sender : BOOLEAN, enabled : BOOLEAN,
               site : Site \cup {NoSite}]
Connection == (Server \cup {NoServer}) \X (0..MaxActs)
NoConnection == <<NoServer, 0>>
Empty      == [host |-> NoServer, sender |-> FALSE, enabled |-> FALSE, site |-> NoSite]
NoPayload  == [form |-> Empty, password |-> 0, retyped |-> {}]
Result     == {"none", "ok", "failed"}
SettingsField == {"host", "sender", "enabled", "site", "password"}

-----------------------------------------------------------------------------
(* State functions *)

\* Sending needs a server, a sender and the address every email links to.
CanSend(c) == c.host # NoServer /\ c.sender /\ (Deployed \/ c.site # NoSite)
MayBeStored(c) == c.enabled => CanSend(c)

\* The row as a screen is given it: never the password.
Shown == [config |-> config, test |-> lastTest]

\* The form differs from the row the screen was given, the suggestion of an
\* address left aside: one that was never saved is a change waiting to be.
Dirty(a) == formDraft[a] # data[a].config \/ password[a] # 0

\* What update writes: every field, validated as a whole.
NextRow(a) == payload[a].form

\* connectionChanged, against the row that was read.
M_HostOnly(a) == payload[a].form.host # base[a].host
ConnectionChanged(a) == payload[a].form.host # base[a].host \/ payload[a].password # 0

\* The draft a row opens with (toDraft).
ToDraft(a, c) == [c EXCEPT !.site = IF @ = NoSite THEN Origin[a] ELSE @]

\* The draft when a row that changed arrives.
M_KeepsDraft(a) == formDraft[a]
DraftOnData(a) == ToDraft(a, config)

\* The screen still shows what is being sent, but for what was typed since.
StillSent(a) ==
  \A f \in DOMAIN config : formDraft[a][f] # payload[a].form[f] => f \in retyped[a]

-----------------------------------------------------------------------------
(* A row that is empty, or that was filled in before but perhaps for the   *)
(* site's address, and screens that have just been opened on it.           *)
EmailSettingsInit ==
  /\ config \in {Empty} \cup {c \in Config : c.host # NoServer /\ c.sender /\ MayBeStored(c)}
  /\ secret = 0 /\ lastTest = [ok |-> "none", at |-> 0]
  /\ data = [a \in Admin |-> Shown]
  /\ formDraft = [a \in Admin |-> ToDraft(a, config)]
  /\ password = [a \in Admin |-> 0]
  /\ asked = {}
  /\ saving = [a \in Admin |-> "none"]
  /\ payload = [a \in Admin |-> NoPayload]
  /\ base = [a \in Admin |-> Empty]
  /\ testing = [a \in Admin |-> "none"]
  /\ probe = [a \in Admin |-> NoConnection]
  /\ acts = 0 /\ testedOn = NoConnection /\ crossed = FALSE
  /\ shaken = {} /\ retyped = [a \in Admin |-> {}]
  /\ surpassed = {} /\ outdated = {}

\* A field of the form is changed; that of the password is typed in.
Type(a, f) ==
  /\ acts < MaxActs /\ acts' = acts + 1
  /\ retyped' = [retyped EXCEPT ![a] = @ \cup {f}]
  /\ \/ f = "host" /\ \E s \in (Server \cup {NoServer}) \ {formDraft[a].host} :
          formDraft' = [formDraft EXCEPT ![a].host = s] /\ UNCHANGED password
     \/ f = "sender" /\ formDraft' = [formDraft EXCEPT ![a].sender = ~@] /\ UNCHANGED password
     \/ f = "enabled" /\ formDraft' = [formDraft EXCEPT ![a].enabled = ~@] /\ UNCHANGED password
     \/ f = "site" /\ ~Deployed /\ \E u \in (Site \cup {NoSite}) \ {formDraft[a].site} :
          formDraft' = [formDraft EXCEPT ![a].site = u] /\ UNCHANGED password
     \/ f = "password"
          /\ password' = [password EXCEPT ![a] = acts + 1] /\ UNCHANGED formDraft
  /\ UNCHANGED <<settingsRow, data, asked, saves, tests, testedOn, crossed, shaken, surpassed, outdated>>

\* The form is sent, once: the button waits for the answer.
Save(a) ==
  /\ saving[a] = "none" /\ Dirty(a)
  /\ saving' = [saving EXCEPT ![a] = "read"]
  /\ payload' = [payload EXCEPT ![a] =
       [form |-> formDraft[a], password |-> password[a], retyped |-> retyped[a]]]
  /\ outdated' = IF a \in surpassed THEN outdated \cup {a} ELSE outdated \ {a}
  /\ UNCHANGED <<settingsRow, screens, base, tests, acts, testedOn, crossed, shaken, retyped, surpassed>>

\* update: the row is read and the form validated against it.
UpdateSettingsRead(a) ==
  /\ saving[a] = "read" /\ MayBeStored(payload[a].form)
  /\ saving' = [saving EXCEPT ![a] = "write"]
  /\ base' = [base EXCEPT ![a] = config]
  /\ UNCHANGED <<settingsRow, screens, payload, tests, acts, settingsTraces>>

\* What was sent and read is forgotten with the last statement that uses it.
Forgotten(a) ==
  /\ payload' = [payload EXCEPT ![a] = NoPayload]
  /\ base' = [base EXCEPT ![a] = Empty]

SaveOver(a) ==
  /\ saving' = [saving EXCEPT ![a] = "none"] /\ outdated' = outdated \ {a}
  /\ Forgotten(a)

\* A refusal, or an answer that never comes: the form is left as it is.
SaveFails(a) ==
  /\ saving[a] = "answer" \/ (saving[a] = "read" /\ ~MayBeStored(payload[a].form))
  /\ SaveOver(a)
  /\ UNCHANGED <<settingsRow, screens, tests, acts, testedOn, crossed, shaken, retyped, surpassed>>

\* The whole row is written, and the test reset with the connection.
UpdateSettingsWrite(a) ==
  /\ saving[a] = "write"
  /\ saving' = [saving EXCEPT ![a] = "answer"]
  /\ config' = NextRow(a)
  /\ secret' = IF payload[a].password # 0 THEN payload[a].password ELSE secret
  /\ IF ConnectionChanged(a)
     THEN /\ lastTest' = [lastTest EXCEPT !.ok = "none"]
          /\ testedOn' = NoConnection /\ crossed' = FALSE
     ELSE /\ crossed' = (lastTest.ok # "none" /\ (crossed \/ base[a] # config))
          /\ UNCHANGED <<lastTest, testedOn>>
  /\ shaken' = {b \in Admin : testing[b] = "record"}
  /\ surpassed' = Admin \ (IF StillSent(a) THEN {a} ELSE {})
  /\ outdated' = {b \in Admin \ {a} : saving[b] \in {"read", "write"}}
  /\ Forgotten(a)
  /\ UNCHANGED <<screens, tests, acts, retyped>>

\* The answer: the password's field is emptied and the row asked for again.
SaveAnswered(a) ==
  /\ saving[a] = "answer"
  /\ SaveOver(a)
  /\ password' = [password EXCEPT ![a] = 0]
  /\ retyped' = [retyped EXCEPT ![a] = @ \ {"password"}]
  /\ asked' = asked \cup {a}
  /\ UNCHANGED <<settingsRow, data, formDraft, tests, acts, testedOn, crossed, shaken, surpassed>>

\* A test may be asked for when nothing is left to save and a server is set;
\* it connects with what is stored by then.
Verify(a) ==
  /\ testing[a] = "none" /\ ~Dirty(a) /\ data[a].config.host # NoServer
  /\ acts < MaxActs /\ acts' = acts + 1
  /\ testing' = [testing EXCEPT ![a] = "record"]
  /\ probe' = [probe EXCEPT ![a] = <<config.host, secret>>]
  /\ UNCHANGED <<settingsRow, screens, saves, settingsTraces>>

\* recordTest writes the result, whatever is stored by now.
RecordTest(a, ok) ==
  /\ testing[a] = "record"
  /\ ok = "ok" => probe[a][1] # NoServer
  /\ testing' = [testing EXCEPT ![a] = "answer"]
  /\ lastTest' = [ok |-> ok, at |-> lastTest.at + 1]
  /\ probe' = [probe EXCEPT ![a] = NoConnection]
  /\ testedOn' = probe[a] /\ crossed' = (a \in shaken) /\ shaken' = shaken \ {a}
  /\ UNCHANGED <<config, secret, screens, saves, acts, retyped, surpassed, outdated>>

VerifyAnswered(a) ==
  /\ testing[a] = "answer"
  /\ testing' = [testing EXCEPT ![a] = "none"]
  /\ asked' = asked \cup {a}
  /\ UNCHANGED <<settingsRow, data, formDraft, password, saves, probe, acts, settingsTraces>>

\* The row arrives again: one that changed replaces the draft, and with it
\* what was typed meanwhile.
Refetch(a) ==
  /\ a \in asked /\ asked' = asked \ {a}
  /\ surpassed' = surpassed \ {a}
  /\ IF data[a] = Shown THEN UNCHANGED <<data, formDraft, retyped>>
     ELSE /\ data' = [data EXCEPT ![a] = Shown]
          /\ formDraft' = [formDraft EXCEPT ![a] = DraftOnData(a)]
          /\ retyped' = [retyped EXCEPT ![a] = @ \cap {"password"}]
  /\ UNCHANGED <<settingsRow, password, saves, tests, acts, testedOn, crossed, shaken, outdated>>

EmailSettingsNext ==
  \E a \in Admin :
    \/ \E f \in SettingsField \cap EditedFields : Type(a, f)
    \/ Save(a) \/ UpdateSettingsRead(a) \/ UpdateSettingsWrite(a)
    \/ SaveFails(a) \/ SaveAnswered(a)
    \/ Verify(a) \/ VerifyAnswered(a)
    \/ \E ok \in {"ok", "failed"} : RecordTest(a, ok)
    \/ Refetch(a)

EmailSettingsSpec == EmailSettingsInit /\ [][EmailSettingsNext]_emailSettingsVars

-----------------------------------------------------------------------------
(* Properties *)

EmailSettingsTypeOK ==
  /\ config \in Config /\ secret \in 0..MaxActs
  /\ lastTest \in [ok : Result, at : Nat]
  /\ data \in [Admin -> [config : Config, test : [ok : Result, at : Nat]]]
  /\ formDraft \in [Admin -> Config] /\ password \in [Admin -> 0..MaxActs]
  /\ saving \in [Admin -> {"none", "read", "write", "answer"}]
  /\ payload \in [Admin -> [form : Config, password : 0..MaxActs, retyped : SUBSET SettingsField]]
  /\ base \in [Admin -> Config]
  /\ testing \in [Admin -> {"none", "record", "answer"}]
  /\ probe \in [Admin -> Connection] /\ testedOn \in Connection
  /\ acts \in 0..MaxActs /\ crossed \in BOOLEAN
  /\ retyped \in [Admin -> SUBSET SettingsField]
  /\ asked \subseteq Admin /\ shaken \subseteq Admin
  /\ surpassed \subseteq Admin /\ outdated \subseteq Admin

\* "A switch that turns sending on must not be accepted for a configuration
\* that cannot send": however two saves overlap, the row is one of the forms
\* that were validated, never a mixture of two.
EnabledCanSend == config.enabled => CanSend(config)

\* "Any change to how we connect makes the last test meaningless": a recorded
\* result is of the connection on record, unless the test or a save was under
\* way while another request wrote the configuration.
TestOfTheConnection ==
  lastTest.ok # "none" /\ ~crossed => testedOn = <<config.host, secret>>

\* Both: sending is on for a server that can be reached the way it was tested.
SettingsSound == EnabledCanSend /\ TestOfTheConnection

\* The address an administrator uses takes the place of one that was missing.
Suggested(a, f) == f = "site" /\ config.site = NoSite /\ config'.site = Origin[a]

\* A save that nobody's save overtook changes the fields its author changed,
\* and no other, though it sends them all, but for the address of the site: the
\* one its author uses is stored where none was, and never over another.  The
\* password changes only if one was typed.
OnlyTypedIsChanged ==
  [][\A a \in Admin : saving[a] = "write" /\ saving'[a] = "answer" /\ a \notin outdated =>
       /\ \A f \in DOMAIN config :
            config'[f] # config[f] => f \in payload[a].retyped \/ Suggested(a, f)
       /\ secret' # secret => "password" \in payload[a].retyped]_emailSettingsVars
=============================================================================
