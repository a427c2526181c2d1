---------------------------- MODULE OfficeProofs ----------------------------
(*****************************************************************************)
(* Proofs about the daily work of the back office: the email settings, the   *)
(* contact requests, the articles and where they show, the menu, the lists   *)
(* that are put in order, the email templates and the catalogue, for every   *)
(* set of people, rows and texts and any number of changes and requests.     *)
(* The sections are in SectionsProofs.                                       *)
(*                                                                           *)
(* Each component has an inductive invariant of its own, which says of every *)
(* screen and of every request in flight what it still knows of the row, as  *)
(* long as nobody has written the row since.  The last section carries them  *)
(* over to the components side by side, the specification TLC runs.          *)
(*****************************************************************************)
EXTENDS MCOffice, SectionsProofs, FiniteSetTheorems, WellFoundedInduction, TLAPS

-----------------------------------------------------------------------------
(* The email settings *)

ConfigField == {"host", "sender", "enabled", "site"}

\* A form is written only once it was validated.
Validated(a) == saving[a] = "write" => MayBeStored(payload[a].form)

\* A test under way has connected with what is stored, but for a write since.
Probed(a) ==
  testing[a] = "record" /\ a \notin shaken => probe[a] = <<config.host, secret>>

\* What nobody touched on a screen is what it was given, and is stored but
\* for a save of somebody else, and but for an address of the site where there
\* is none; so is what a save sends.
Untouched(a) ==
  /\ password[a] # 0 => "password" \in retyped[a]
  /\ payload[a].password # 0 => "password" \in payload[a].retyped
  /\ \A f \in ConfigField \ retyped[a] :
       /\ formDraft[a][f] = ToDraft(a, data[a].config)[f]
       /\ a \notin surpassed => formDraft[a][f] = ToDraft(a, config)[f]
  /\ saving[a] \in {"read", "write"} /\ a \notin outdated =>
       \A f \in ConfigField \ payload[a].retyped : payload[a].form[f] = ToDraft(a, config)[f]

SettingsInv ==
  /\ EmailSettingsTypeOK
  /\ SettingsSound
  /\ \A a \in Admin : Validated(a) /\ Probed(a) /\ Untouched(a)

-----------------------------------------------------------------------------
(* Types *)

LEMMA EmptyIsConfig == Empty \in Config
BY DEF Empty, Config

\* A draft differs from its row by an address of the site that was missing.
LEMMA DraftedType ==
  ASSUME NEW a \in Admin, NEW c \in Config
  PROVE  /\ ToDraft(a, c) \in Config
         /\ \A f \in ConfigField : ToDraft(a, c)[f] =
              IF f = "site" /\ c.site = NoSite THEN Origin[a] ELSE c[f]
BY SiteAssumption DEF ToDraft, Config, ConfigField

\* What is drafted once is not drafted again.
LEMMA DraftedTwice ==
  ASSUME NEW a \in Admin, NEW c \in Config, NEW d \in Config, NEW f \in ConfigField,
         d[f] = ToDraft(a, c)[f]
  PROVE  ToDraft(a, d)[f] = d[f]
BY DraftedType, SiteAssumption DEF ConfigField

LEMMA NoConnectionType == NoConnection \in Connection
BY ActsAssumption DEF NoConnection, Connection

LEMMA NoPayloadType ==
  NoPayload \in [form : Config, password : 0..MaxActs, retyped : SUBSET SettingsField]
BY EmptyIsConfig, ActsAssumption DEF NoPayload

LEMMA SettingsInitType == EmailSettingsInit => EmailSettingsTypeOK
<1>. SUFFICES ASSUME EmailSettingsInit PROVE EmailSettingsTypeOK
  OBVIOUS
<1>1. config \in Config
  BY EmptyIsConfig DEF EmailSettingsInit
<1>2. lastTest \in [ok : Result, at : Nat]
  BY ActsAssumption DEF EmailSettingsInit, Result
<1>3. data \in [Admin -> [config : Config, test : [ok : Result, at : Nat]]]
  BY <1>1, <1>2 DEF EmailSettingsInit, Shown
<1>4. /\ formDraft \in [Admin -> Config] /\ base \in [Admin -> Config]
      /\ payload \in [Admin -> [form : Config, password : 0..MaxActs, retyped : SUBSET SettingsField]]
  <2>1. \A a \in Admin : ToDraft(a, config) \in Config
    BY <1>1, DraftedType
  <2>. QED
    BY <1>1, <2>1, EmptyIsConfig, NoPayloadType DEF EmailSettingsInit
<1>5. probe \in [Admin -> Connection] /\ testedOn \in Connection
  BY NoConnectionType DEF EmailSettingsInit
<1>6. /\ secret \in 0..MaxActs /\ password \in [Admin -> 0..MaxActs] /\ acts \in 0..MaxActs
      /\ saving \in [Admin -> {"none", "read", "write", "answer"}]
      /\ testing \in [Admin -> {"none", "record", "answer"}]
  BY ActsAssumption DEF EmailSettingsInit
<1>7. /\ crossed \in BOOLEAN /\ retyped \in [Admin -> SUBSET SettingsField]
      /\ asked \subseteq Admin /\ shaken \subseteq Admin
      /\ surpassed \subseteq Admin /\ outdated \subseteq Admin
  BY DEF EmailSettingsInit
<1>. QED
  BY <1>1, <1>2, <1>3, <1>4, <1>5, <1>6, <1>7 DEF EmailSettingsTypeOK

\* The parts of the type that a write of the row has to keep.
LEMMA SettingsNextType ==
  ASSUME EmailSettingsTypeOK, [EmailSettingsNext]_emailSettingsVars
  PROVE  EmailSettingsTypeOK'
<1>. USE ActsAssumption
<1>1. ASSUME NEW a \in Admin, NEW f \in SettingsField, Type(a, f)
      PROVE  EmailSettingsTypeOK'
  <2>1. acts' \in 0..MaxActs /\ acts + 1 \in 0..MaxActs
    <3>1. acts \in 0..MaxActs /\ acts < MaxActs /\ acts' = acts + 1
      BY <1>1 DEF Type, EmailSettingsTypeOK
    <3>. QED
      BY <3>1
  <2>2. formDraft' \in [Admin -> Config]
    <3>. DEFINE c == formDraft[a]
    <3>1. formDraft \in [Admin -> Config] /\ c \in Config
      BY DEF EmailSettingsTypeOK
    <3>2. /\ \A v \in Server \cup {NoServer} : [c EXCEPT !.host = v] \in Config
          /\ [c EXCEPT !.sender = ~@] \in Config /\ [c EXCEPT !.enabled = ~@] \in Config
          /\ \A v \in Site \cup {NoSite} : [c EXCEPT !.site = v] \in Config
      BY <3>1 DEF Config
    <3>3. PICK d \in Config : formDraft' = [formDraft EXCEPT ![a] = d]
      <4>1. CASE f = "host"
        BY <1>1, <3>2, <4>1 DEF Type
      <4>2. CASE f = "sender"
        BY <1>1, <3>2, <4>2 DEF Type
      <4>3. CASE f = "enabled"
        BY <1>1, <3>2, <4>3 DEF Type
      <4>4. CASE f = "password"
        BY <1>1, <3>1, <4>4 DEF Type
      <4>5. CASE f = "site"
        BY <1>1, <3>2, <4>5 DEF Type
      <4>. QED
        BY <4>1, <4>2, <4>3, <4>4, <4>5 DEF SettingsField
    <3>. QED
      BY <3>1, <3>3
  <2>3. password' \in [Admin -> 0..MaxActs]
    BY <1>1, <2>1 DEF Type, EmailSettingsTypeOK
  <2>4. retyped' \in [Admin -> SUBSET SettingsField]
    BY <1>1 DEF Type, EmailSettingsTypeOK
  <2>. QED
    BY <1>1, <2>1, <2>2, <2>3, <2>4 DEF Type, EmailSettingsTypeOK, settingsRow, saves, tests
<1>2. ASSUME NEW a \in Admin, Save(a)
      PROVE  EmailSettingsTypeOK'
  BY <1>2 DEF Save, EmailSettingsTypeOK, settingsRow, screens, tests
<1>3. ASSUME NEW a \in Admin, UpdateSettingsRead(a)
      PROVE  EmailSettingsTypeOK'
  BY <1>3
     DEF UpdateSettingsRead, EmailSettingsTypeOK, settingsRow, screens, tests, settingsTraces
<1>4. ASSUME NEW a \in Admin, UpdateSettingsWrite(a)
      PROVE  EmailSettingsTypeOK'
  <2>1. config' \in Config /\ secret' \in 0..MaxActs
    BY <1>4 DEF UpdateSettingsWrite, NextRow, EmailSettingsTypeOK
  <2>2. lastTest' \in [ok : Result, at : Nat]
    BY <1>4 DEF UpdateSettingsWrite, EmailSettingsTypeOK, Result
  <2>3. testedOn' \in Connection /\ crossed' \in BOOLEAN
    BY <1>4, NoConnectionType DEF UpdateSettingsWrite, EmailSettingsTypeOK
  <2>. QED
    BY <1>4, <2>1, <2>2, <2>3, EmptyIsConfig, NoPayloadType
       DEF UpdateSettingsWrite, Forgotten, EmailSettingsTypeOK, screens, tests
<1>5. ASSUME NEW a \in Admin, SaveFails(a)
      PROVE  EmailSettingsTypeOK'
  BY <1>5, EmptyIsConfig, NoPayloadType
     DEF SaveFails, SaveOver, Forgotten, EmailSettingsTypeOK, settingsRow, screens, tests
<1>6. ASSUME NEW a \in Admin, SaveAnswered(a)
      PROVE  EmailSettingsTypeOK'
  BY <1>6, EmptyIsConfig, NoPayloadType
     DEF SaveAnswered, SaveOver, Forgotten, EmailSettingsTypeOK, settingsRow, tests
<1>7. ASSUME NEW a \in Admin, Verify(a)
      PROVE  EmailSettingsTypeOK'
  <2>1. <<config.host, secret>> \in Connection
    BY DEF EmailSettingsTypeOK, Config, Connection
  <2>. QED
    BY <1>7, <2>1 DEF Verify, EmailSettingsTypeOK, settingsRow, screens, saves, settingsTraces
<1>8. ASSUME NEW a \in Admin, VerifyAnswered(a)
      PROVE  EmailSettingsTypeOK'
  BY <1>8 DEF VerifyAnswered, EmailSettingsTypeOK, settingsRow, saves, settingsTraces
<1>9. ASSUME NEW a \in Admin, NEW ok \in {"ok", "failed"}, RecordTest(a, ok)
      PROVE  EmailSettingsTypeOK'
  <2>1. lastTest' \in [ok : Result, at : Nat]
    BY <1>9 DEF RecordTest, EmailSettingsTypeOK, Result
  <2>. QED
    BY <1>9, <2>1, NoConnectionType DEF RecordTest, EmailSettingsTypeOK, screens, saves
<1>10. ASSUME NEW a \in Admin, Refetch(a)
       PROVE  EmailSettingsTypeOK'
  <2>1. Shown \in [config : Config, test : [ok : Result, at : Nat]]
    BY DEF Shown, EmailSettingsTypeOK
  <2>2. data' \in [Admin -> [config : Config, test : [ok : Result, at : Nat]]]
    BY <1>10, <2>1 DEF Refetch, EmailSettingsTypeOK
  <2>3. formDraft' \in [Admin -> Config] /\ retyped' \in [Admin -> SUBSET SettingsField]
    <3>1. ToDraft(a, config) \in Config
      BY DraftedType DEF EmailSettingsTypeOK
    <3>2. retyped[a] \cap {"password"} \in SUBSET SettingsField
      BY DEF EmailSettingsTypeOK
    <3>3. CASE data[a] = Shown
      BY <1>10, <3>3 DEF Refetch, EmailSettingsTypeOK
    <3>4. CASE data[a] # Shown
      <4>1. /\ formDraft' = [formDraft EXCEPT ![a] = ToDraft(a, config)]
            /\ retyped' = [retyped EXCEPT ![a] = @ \cap {"password"}]
        BY <1>10, <3>4 DEF Refetch, DraftOnData
      <4>. QED
        BY <4>1, <3>1, <3>2 DEF EmailSettingsTypeOK
    <3>. QED
      BY <3>3, <3>4
  <2>. QED
    BY <1>10, <2>2, <2>3 DEF Refetch, EmailSettingsTypeOK, settingsRow, saves, tests
<1>11. CASE UNCHANGED emailSettingsVars
  BY <1>11
     DEF EmailSettingsTypeOK, emailSettingsVars, settingsRow, screens, saves, tests,
         settingsTraces
<1>. QED
  BY <1>1, <1>2, <1>3, <1>4, <1>5, <1>6, <1>7, <1>8, <1>9, <1>10, <1>11 DEF EmailSettingsNext

-----------------------------------------------------------------------------
(* The invariant *)

LEMMA SettingsInitInv == EmailSettingsInit => SettingsInv
<1>. SUFFICES ASSUME EmailSettingsInit PROVE SettingsInv
  OBVIOUS
<1>1. SettingsSound
  BY DEF EmailSettingsInit, SettingsSound, EnabledCanSend, TestOfTheConnection, Empty,
         MayBeStored
<1>2. ASSUME NEW a \in Admin
      PROVE  Validated(a) /\ Probed(a) /\ Untouched(a)
  BY DEF EmailSettingsInit, Validated, Probed, Untouched, Shown, NoPayload
<1>. QED
  BY <1>1, <1>2, SettingsInitType DEF SettingsInv

\* A step that writes neither the row nor the record of a test.
LEMMA SoundStays ==
  ASSUME SettingsSound, UNCHANGED <<config, secret, lastTest, testedOn, crossed>>
  PROVE  SettingsSound'
BY DEF SettingsSound, EnabledCanSend, TestOfTheConnection, CanSend

\* Of a test, nothing changes.
LEMMA ProbedStays ==
  ASSUME NEW b \in Admin, Probed(b),
         config' = config, secret' = secret, testing'[b] = testing[b], probe'[b] = probe[b],
         b \in shaken' <=> b \in shaken
  PROVE  Probed(b)'
BY DEF Probed

\* Of a save in flight and the screen behind it, nothing changes.
LEMMA ScreenStays ==
  ASSUME NEW b \in Admin, Validated(b), Untouched(b),
         config' = config, saving'[b] = saving[b], payload'[b] = payload[b],
         formDraft'[b] = formDraft[b], password'[b] = password[b], retyped'[b] = retyped[b],
         data'[b] = data[b], b \in surpassed' <=> b \in surpassed,
         b \in outdated' <=> b \in outdated
  PROVE  Validated(b)' /\ Untouched(b)'
BY DEF Validated, Untouched, MayBeStored, CanSend

\* The row is written: a form that was validated, on a connection that keeps
\* its test only if it is the one read; every other save and screen is behind.
LEMMA UpdateSettingsWriteInv ==
  ASSUME SettingsInv, NEW a \in Admin, UpdateSettingsWrite(a)
  PROVE  /\ SettingsSound'
         /\ \A b \in Admin : Validated(b)' /\ Probed(b)' /\ Untouched(b)'
<1>t. EmailSettingsTypeOK /\ Validated(a) /\ Untouched(a)
  BY DEF SettingsInv
<1>1. config' = payload[a].form /\ saving[a] = "write" /\ payload[a].form \in Config
  BY <1>t DEF UpdateSettingsWrite, NextRow, EmailSettingsTypeOK
<1>2. EnabledCanSend'
  BY <1>t, <1>1 DEF EnabledCanSend, Validated, MayBeStored, CanSend
<1>3. TestOfTheConnection'
  <2>. SUFFICES ASSUME lastTest'.ok # "none", ~crossed'
                PROVE  testedOn' = <<config'.host, secret'>>
    BY DEF TestOfTheConnection
  <2>1. ~ConnectionChanged(a)
    BY <1>t DEF UpdateSettingsWrite, EmailSettingsTypeOK
  <2>2. ~crossed /\ base[a] = config /\ lastTest.ok # "none" /\ testedOn' = testedOn
    BY <2>1 DEF UpdateSettingsWrite
  <2>3. payload[a].form.host = config.host /\ payload[a].password = 0
    BY <2>1, <2>2 DEF ConnectionChanged
  <2>. QED
    BY <1>1, <2>2, <2>3 DEF UpdateSettingsWrite, SettingsInv, SettingsSound, TestOfTheConnection
<1>4. ASSUME NEW b \in Admin
      PROVE  Probed(b)'
  BY DEF UpdateSettingsWrite, Probed, tests
<1>5. ASSUME NEW b \in Admin
      PROVE  Validated(b)'
  BY <1>t DEF UpdateSettingsWrite, Forgotten, SettingsInv, Validated, MayBeStored, CanSend,
              EmailSettingsTypeOK
<1>6. ASSUME NEW b \in Admin
      PROVE  Untouched(b)'
  <2>1. /\ UNCHANGED <<data, formDraft, password, retyped>>
        /\ surpassed' = Admin \ (IF StillSent(a) THEN {a} ELSE {})
        /\ outdated' = {c \in Admin \ {a} : saving[c] \in {"read", "write"}}
        /\ saving' = [saving EXCEPT ![a] = "answer"]
        /\ payload' = [payload EXCEPT ![a] = NoPayload]
    BY DEF UpdateSettingsWrite, Forgotten, screens
  <2>2. Untouched(b)
    BY DEF SettingsInv
  <2>s. /\ payload[a].form \in Config /\ formDraft[b] \in Config /\ data[b].config \in Config
        /\ config \in Config
    BY <1>t DEF EmailSettingsTypeOK
  <2>3. b \notin surpassed' =>
          \A f \in ConfigField \ retyped[b] : formDraft[b][f] = payload[a].form[f]
    <3>1. DOMAIN config = ConfigField
      BY <1>t DEF EmailSettingsTypeOK, Config, ConfigField
    <3>. QED
      BY <2>1, <3>1 DEF StillSent
  <2>4. ~(saving'[b] \in {"read", "write"} /\ b \notin outdated')
    BY <1>t, <2>1 DEF EmailSettingsTypeOK
  <2>5. ASSUME b \notin surpassed', NEW f \in ConfigField \ retyped[b]
        PROVE  formDraft[b][f] = ToDraft(b, config')[f]
    <3>1. config' \in Config /\ config'[f] = formDraft[b][f]
      BY <1>1, <2>3, <2>5
    <3>2. formDraft[b][f] = ToDraft(b, data[b].config)[f]
      BY <2>2, <2>5 DEF Untouched
    <3>. QED
      BY <2>s, <3>1, <3>2, DraftedTwice
  <2>6. payload'[b].password # 0 => "password" \in payload'[b].retyped
    BY <1>t, <2>1, <2>2 DEF EmailSettingsTypeOK, Untouched, NoPayload
  <2>. QED
    BY <2>1, <2>2, <2>4, <2>5, <2>6 DEF Untouched
<1>. QED
  BY <1>2, <1>3, <1>4, <1>5, <1>6 DEF SettingsSound

LEMMA SettingsNextInv == SettingsInv /\ [EmailSettingsNext]_emailSettingsVars => SettingsInv'
<1>. SUFFICES ASSUME SettingsInv, [EmailSettingsNext]_emailSettingsVars PROVE SettingsInv'
  OBVIOUS
<1>t. EmailSettingsTypeOK /\ EmailSettingsTypeOK' /\ SettingsSound
  BY SettingsNextType DEF SettingsInv
<1>i. \A b \in Admin : Validated(b) /\ Probed(b) /\ Untouched(b)
  BY DEF SettingsInv
<1>. DEFINE Holds == SettingsSound' /\ \A b \in Admin : Validated(b)' /\ Probed(b)' /\ Untouched(b)'
<1>. SUFFICES Holds
  BY <1>t DEF SettingsInv
<1>1. ASSUME NEW a \in Admin, NEW f \in SettingsField, Type(a, f)
      PROVE  Holds
  <2>1. SettingsSound'
    BY <1>1, <1>t, SoundStays DEF Type, settingsRow
  <2>2. ASSUME NEW b \in Admin PROVE Probed(b)'
    BY <1>1, <1>i, ProbedStays DEF Type, settingsRow, tests
  <2>3. ASSUME NEW b \in Admin, b # a PROVE Validated(b)' /\ Untouched(b)'
    BY <1>1, <1>t, <1>i, <2>3, ScreenStays DEF Type, EmailSettingsTypeOK, settingsRow, saves
  <2>4. Validated(a)'
    BY <1>1, <1>i DEF Type, Validated, MayBeStored, CanSend, saves
  <2>5. Untouched(a)'
    <3>1. /\ UNCHANGED <<config, data, saving, payload, surpassed, outdated>>
          /\ retyped'[a] = retyped[a] \cup {f}
      BY <1>1, <1>t DEF Type, EmailSettingsTypeOK, settingsRow, saves
    <3>2. password'[a] # 0 => "password" \in retyped'[a]
      BY <1>1, <1>t, <1>i, <3>1 DEF Type, EmailSettingsTypeOK, Untouched
    <3>3. \A g \in ConfigField \ {f} : formDraft'[a][g] = formDraft[a][g]
      BY <1>1, <1>t DEF Type, EmailSettingsTypeOK, Config, ConfigField
    <3>. QED
      BY <1>i, <3>1, <3>2, <3>3 DEF Untouched
  <2>. QED
    BY <2>1, <2>2, <2>3, <2>4, <2>5
<1>2. ASSUME NEW a \in Admin, Save(a)
      PROVE  Holds
  <2>1. SettingsSound'
    BY <1>2, <1>t, SoundStays DEF Save, settingsRow
  <2>2. ASSUME NEW b \in Admin PROVE Probed(b)'
    BY <1>2, <1>i, ProbedStays DEF Save, settingsRow, tests
  <2>3. ASSUME NEW b \in Admin, b # a PROVE Validated(b)' /\ Untouched(b)'
    BY <1>2, <1>t, <1>i, <2>3, ScreenStays DEF Save, EmailSettingsTypeOK, settingsRow, screens
  <2>4. Validated(a)'
    BY <1>2, <1>t DEF Save, Validated, EmailSettingsTypeOK
  <2>5. Untouched(a)'
    <3>1. /\ UNCHANGED <<config, data, formDraft, password, retyped, surpassed>>
          /\ payload'[a] = [form |-> formDraft[a], password |-> password[a], retyped |-> retyped[a]]
          /\ a \notin outdated' => a \notin surpassed
      BY <1>2, <1>t DEF Save, EmailSettingsTypeOK, settingsRow, screens
    <3>. QED
      BY <1>i, <3>1 DEF Untouched
  <2>. QED
    BY <2>1, <2>2, <2>3, <2>4, <2>5
<1>3. ASSUME NEW a \in Admin, UpdateSettingsRead(a)
      PROVE  Holds
  <2>1. SettingsSound'
    BY <1>3, <1>t, SoundStays DEF UpdateSettingsRead, settingsRow, settingsTraces
  <2>2. ASSUME NEW b \in Admin PROVE Probed(b)'
    BY <1>3, <1>i, ProbedStays DEF UpdateSettingsRead, settingsRow, tests, settingsTraces
  <2>3. ASSUME NEW b \in Admin PROVE Validated(b)' /\ Untouched(b)'
    BY <1>3, <1>t, <1>i DEF UpdateSettingsRead, EmailSettingsTypeOK, Validated, Untouched,
       MayBeStored, CanSend, settingsRow, screens, settingsTraces
  <2>. QED
    BY <2>1, <2>2, <2>3
<1>4. ASSUME NEW a \in Admin, UpdateSettingsWrite(a)
      PROVE  Holds
  BY <1>4, UpdateSettingsWriteInv
<1>5. ASSUME NEW a \in Admin, SaveOver(a), UNCHANGED <<settingsRow, data, formDraft, tests>>,
             UNCHANGED <<testedOn, crossed, shaken, surpassed>>,
             \/ UNCHANGED <<password, retyped>>
             \/ /\ password' = [password EXCEPT ![a] = 0]
                /\ retyped' = [retyped EXCEPT ![a] = @ \ {"password"}]
      PROVE  Holds
  <2>1. SettingsSound'
    BY <1>5, <1>t, SoundStays DEF settingsRow
  <2>2. ASSUME NEW b \in Admin PROVE Probed(b)'
    BY <1>5, <1>i, ProbedStays DEF settingsRow, tests
  <2>3. ASSUME NEW b \in Admin, b # a PROVE Validated(b)' /\ Untouched(b)'
    BY <1>5, <1>t, <1>i, <2>3, ScreenStays
       DEF SaveOver, Forgotten, EmailSettingsTypeOK, settingsRow
  <2>4. saving'[a] = "none" /\ payload'[a] = NoPayload
    BY <1>5, <1>t DEF SaveOver, Forgotten, EmailSettingsTypeOK
  <2>5. /\ password'[a] # 0 => "password" \in retyped'[a]
        /\ ConfigField \ retyped'[a] \subseteq ConfigField \ retyped[a]
    BY <1>5, <1>t, <1>i DEF EmailSettingsTypeOK, Untouched, ConfigField
  <2>6. Validated(a)' /\ Untouched(a)'
    BY <1>5, <1>i, <2>4, <2>5 DEF Validated, Untouched, NoPayload, settingsRow
  <2>. QED
    BY <2>1, <2>2, <2>3, <2>6
<1>6. ASSUME NEW a \in Admin, SaveFails(a) \/ SaveAnswered(a)
      PROVE  Holds
  BY <1>5, <1>6 DEF SaveFails, SaveAnswered, screens
<1>7. ASSUME NEW a \in Admin, Verify(a) \/ VerifyAnswered(a)
      PROVE  Holds
  <2>1. SettingsSound'
    BY <1>7, <1>t, SoundStays DEF Verify, VerifyAnswered, settingsRow, settingsTraces
  <2>2. ASSUME NEW b \in Admin PROVE Probed(b)'
    BY <1>7, <1>t, <1>i DEF Verify, VerifyAnswered, EmailSettingsTypeOK, Probed, settingsRow,
                            settingsTraces
  <2>3. ASSUME NEW b \in Admin PROVE Validated(b)' /\ Untouched(b)'
    BY <1>7, <1>i, ScreenStays DEF Verify, VerifyAnswered, settingsRow, screens, saves,
                                   settingsTraces
  <2>. QED
    BY <2>1, <2>2, <2>3
<1>8. ASSUME NEW a \in Admin, NEW ok \in {"ok", "failed"}, RecordTest(a, ok)
      PROVE  Holds
  <2>1. EnabledCanSend'
    BY <1>8, <1>t DEF RecordTest, SettingsSound, EnabledCanSend, CanSend
  <2>2. TestOfTheConnection'
    BY <1>8, <1>i DEF RecordTest, TestOfTheConnection, Probed
  <2>3. ASSUME NEW b \in Admin PROVE Probed(b)'
    BY <1>8, <1>t, <1>i DEF RecordTest, Probed, EmailSettingsTypeOK
  <2>4. ASSUME NEW b \in Admin PROVE Validated(b)' /\ Untouched(b)'
    BY <1>8, <1>i, ScreenStays DEF RecordTest, screens, saves
  <2>. QED
    BY <2>1, <2>2, <2>3, <2>4 DEF SettingsSound
<1>9. ASSUME NEW a \in Admin, Refetch(a)
      PROVE  Holds
  <2>1. SettingsSound'
    BY <1>9, <1>t, SoundStays DEF Refetch, settingsRow
  <2>2. ASSUME NEW b \in Admin PROVE Probed(b)'
    BY <1>9, <1>i, ProbedStays DEF Refetch, settingsRow, tests
  <2>3. ASSUME NEW b \in Admin, b # a PROVE Validated(b)' /\ Untouched(b)'
    BY <1>9, <1>t, <1>i, <2>3, ScreenStays DEF Refetch, EmailSettingsTypeOK, settingsRow, saves
  <2>4. UNCHANGED <<config, password, saving, payload, outdated>> /\ a \notin surpassed'
    BY <1>9 DEF Refetch, settingsRow, saves
  <2>5. Validated(a)'
    BY <1>i, <2>4 DEF Validated, MayBeStored, CanSend
  <2>6. ASSUME data[a] = Shown PROVE Untouched(a)'
    <3>1. /\ UNCHANGED <<data, formDraft, retyped>>
          /\ data[a].config = config
      BY <1>9, <2>6 DEF Refetch, Shown
    <3>. QED
      BY <1>i, <2>4, <3>1 DEF Untouched
  <2>7. ASSUME data[a] # Shown PROVE Untouched(a)'
    <3>1. /\ data'[a].config = config /\ formDraft'[a] = ToDraft(a, config)
          /\ retyped'[a] = retyped[a] \cap {"password"}
      BY <1>9, <1>t, <2>7 DEF Refetch, Shown, DraftOnData, EmailSettingsTypeOK
    <3>. QED
      BY <1>i, <2>4, <3>1 DEF Untouched
  <2>. QED
    BY <2>1, <2>2, <2>3, <2>5, <2>6, <2>7
<1>10. CASE UNCHANGED emailSettingsVars
  <2>1. SettingsSound'
    BY <1>10, <1>t, SoundStays DEF emailSettingsVars, settingsRow, settingsTraces
  <2>2. ASSUME NEW b \in Admin PROVE Probed(b)' /\ Validated(b)' /\ Untouched(b)'
    BY <1>10, <1>i, ProbedStays, ScreenStays DEF emailSettingsVars, settingsRow, screens, saves,
       tests, settingsTraces
  <2>. QED
    BY <2>1, <2>2
<1>. HIDE DEF Holds
<1>. QED
  BY <1>1, <1>2, <1>3, <1>4, <1>6, <1>7, <1>8, <1>9, <1>10 DEF EmailSettingsNext

THEOREM SettingsInvariance == EmailSettingsSpec => []SettingsInv
BY SettingsInitInv, SettingsNextInv, PTL DEF EmailSettingsSpec

-----------------------------------------------------------------------------
(* The results *)

\* The row, the screens and the requests are of their types
\* (email-settings.service, EmailSettingsAdmin).
THEOREM EmailSettingsTyped == EmailSettingsSpec => []EmailSettingsTypeOK
<1>1. SettingsInv => EmailSettingsTypeOK
  BY DEF SettingsInv
<1>. QED
  BY <1>1, SettingsInvariance, PTL

\* Sending is on for a server that can be reached the way it was tested
\* (update, recordTest).
THEOREM SettingsSoundHolds == EmailSettingsSpec => []SettingsSound
<1>1. SettingsInv => SettingsSound
  BY DEF SettingsInv
<1>. QED
  BY <1>1, SettingsInvariance, PTL

\* A save that ends is a write of its own.
LEMMA WhoSaves ==
  ASSUME EmailSettingsTypeOK, EmailSettingsNext, NEW b \in Admin,
         saving[b] = "write", saving'[b] = "answer"
  PROVE  UpdateSettingsWrite(b)
<1>1. PICK a \in Admin :
        \/ \E f \in SettingsField : Type(a, f)
        \/ Save(a) \/ UpdateSettingsRead(a) \/ UpdateSettingsWrite(a)
        \/ SaveFails(a) \/ SaveAnswered(a)
        \/ Verify(a) \/ VerifyAnswered(a)
        \/ \E ok \in {"ok", "failed"} : RecordTest(a, ok)
        \/ Refetch(a)
  BY DEF EmailSettingsNext
<1>2. CASE UpdateSettingsWrite(a)
  BY <1>2 DEF UpdateSettingsWrite, EmailSettingsTypeOK
<1>3. CASE Save(a) \/ UpdateSettingsRead(a) \/ SaveFails(a) \/ SaveAnswered(a)
  BY <1>3 DEF Save, UpdateSettingsRead, SaveFails, SaveAnswered, SaveOver, EmailSettingsTypeOK
<1>4. CASE \/ \E f \in SettingsField : Type(a, f)
           \/ Verify(a) \/ VerifyAnswered(a)
           \/ \E ok \in {"ok", "failed"} : RecordTest(a, ok)
           \/ Refetch(a)
  BY <1>4 DEF Type, Verify, VerifyAnswered, RecordTest, Refetch, saves
<1>. QED
  BY <1>1, <1>2, <1>3, <1>4

LEMMA StepOnlyTyped ==
  ASSUME SettingsInv, EmailSettingsNext, NEW a \in Admin,
         saving[a] = "write", saving'[a] = "answer", a \notin outdated
  PROVE  /\ \A f \in DOMAIN config :
              config'[f] # config[f] => f \in payload[a].retyped \/ Suggested(a, f)
         /\ secret' # secret => "password" \in payload[a].retyped
<1>1. EmailSettingsTypeOK /\ Untouched(a) /\ UpdateSettingsWrite(a)
  BY WhoSaves DEF SettingsInv
<1>2. DOMAIN config = ConfigField
  BY <1>1 DEF EmailSettingsTypeOK, Config, ConfigField
<1>3. config' = payload[a].form
  BY <1>1 DEF UpdateSettingsWrite, NextRow
<1>4. secret' # secret => "password" \in payload[a].retyped
  BY <1>1 DEF Untouched, UpdateSettingsWrite
<1>5. ASSUME NEW f \in ConfigField, f \notin payload[a].retyped, config'[f] # config[f]
      PROVE  Suggested(a, f)
  <2>1. config'[f] = ToDraft(a, config)[f] /\ config \in Config
    BY <1>1, <1>3, <1>5 DEF Untouched, EmailSettingsTypeOK
  <2>2. f = "site" /\ config.site = NoSite /\ config'[f] = Origin[a]
    BY <1>5, <2>1, DraftedType
  <2>. QED
    BY <2>2 DEF Suggested
<1>. QED
  BY <1>2, <1>4, <1>5

\* A save nobody overtook changes what its author typed and nothing else,
\* though it sends every field, but for storing the address its author uses
\* where none was (toDraft, update).
THEOREM OnlyTypedHolds == EmailSettingsSpec => OnlyTypedIsChanged
<1>1. ASSUME SettingsInv, [EmailSettingsNext]_emailSettingsVars
      PROVE  [\A a \in Admin : saving[a] = "write" /\ saving'[a] = "answer" /\ a \notin outdated =>
               /\ \A f \in DOMAIN config :
                    config'[f] # config[f] => f \in payload[a].retyped \/ Suggested(a, f)
               /\ secret' # secret => "password" \in payload[a].retyped]_emailSettingsVars
  BY <1>1, StepOnlyTyped
<1>. QED
  BY <1>1, SettingsInvariance, PTL DEF EmailSettingsSpec, OnlyTypedIsChanged

-----------------------------------------------------------------------------
(* The contact requests *)

\* A job belongs to a request that was stored, and one that is over has queued
\* its email or found its own reason; a clerk's wish is about a request.
JobsHold ==
  /\ \A m \in Request, k \in Mail :
       /\ work[m][k] # "none" => m \in stored \cup removed
       /\ work[m][k] = "over" => <<m, k>> \in outbox \cup excused
  /\ \A c \in Clerk : wish[c] # "none" => asking[c] \in Request

ContactInv == ContactTypeOK /\ ContactKept /\ JobsHold

LEMMA ContactInitInv == ContactInit => ContactInv
<1> SUFFICES ASSUME ContactInit PROVE ContactInv
  OBVIOUS
<1>1. /\ posts \in [Visitor -> 0..MaxPosts] /\ ready \subseteq Switch /\ toggles \in 0..MaxToggles
  BY PostsAssumption DEF ContactInit, Switch
<1>2. work \in [Request -> [Mail -> {"none", "check", "enqueue", "over"}]] /\ \A m \in Request, k \in Mail : work[m][k] = "none"
  BY DEF ContactInit, Resting
<1>. QED
  BY <1>1, <1>2
     DEF ContactInit, ContactInv, ContactTypeOK, ContactKept, JobsHold, EachEmailOnItsOwn,
         StoredFirst,
     DeletedStays, Wish

\* A job that goes on leaves the others where they are.
LEMMA JobOverWork ==
  ASSUME ContactTypeOK, NEW m \in Request, NEW k \in Mail, NEW failed, NEW why, JobOver(m, k, failed, why)
  PROVE  /\ work' \in [Request -> [Mail -> {"none", "check", "enqueue", "over"}]]
         /\ work'[m][k] = "over"
         /\ \A n \in Request, h \in Mail : n # m \/ h # k => work'[n][h] = work[n][h]
         /\ excused' = excused \cup why
BY DEF ContactTypeOK, JobOver, JobsAfter

\* A job ends: its email is queued, or it has its reason.
LEMMA JobOverInv ==
  ASSUME ContactInv, NEW m \in Request, NEW k \in Mail, NEW failed,
         NEW why \in SUBSET {<<m, k>>}, NEW out \in SUBSET {<<m, k>>},
         work[m][k] # "none", JobOver(m, k, failed, why), outbox' = outbox \cup out,
         <<m, k>> \in why \cup out,
         UNCHANGED <<visits, stored, isRead, setup, inbox, answered, removed>>
  PROVE  ContactInv'
<1> USE DEF ContactInv, visits, setup, inbox
<1>1. ContactTypeOK
  OBVIOUS
<1>2. /\ work' \in [Request -> [Mail -> {"none", "check", "enqueue", "over"}]]
      /\ work'[m][k] = "over"
      /\ \A n \in Request, h \in Mail : n # m \/ h # k => work'[n][h] = work[n][h]
      /\ excused' = excused \cup why
  BY <1>1, JobOverWork
<1>3. <<m, k>> \in Request \X Mail /\ m \in stored \cup removed
  BY DEF JobsHold
<1>4. outbox' \subseteq Request \X Mail /\ excused' \subseteq Request \X Mail
  BY <1>2, <1>3 DEF ContactTypeOK
<1>5. ContactTypeOK'
  BY <1>2, <1>4 DEF ContactTypeOK
<1>6. JobsHold'
  BY <1>2, <1>3 DEF JobsHold
<1>7. EachEmailOnItsOwn' /\ DeletedStays'
  BY <1>2 DEF ContactKept, EachEmailOnItsOwn, DeletedStays
<1>8. StoredFirst'
  BY <1>2, <1>3 DEF ContactKept, StoredFirst
<1>. QED
  BY <1>5, <1>6, <1>7, <1>8 DEF ContactKept

LEMMA ContactNextInv ==
  ASSUME ContactInv, [ContactNext]_contactVars
  PROVE  ContactInv'
<1> USE PostsAssumption
   DEF ContactInv, ContactTypeOK, ContactKept, JobsHold, EachEmailOnItsOwn, StoredFirst,
       DeletedStays,
     visits, mail, inbox, setup
<1>1. ASSUME NEW v \in Visitor, Post(v)
      PROVE  ContactInv'
  BY <1>1 DEF Post
<1>2. ASSUME NEW v \in Visitor, GiveUp(v)
      PROVE  ContactInv'
  BY <1>2 DEF GiveUp
<1>3. ASSUME NEW m \in Request, Store(m)
      PROVE  ContactInv'
  <2>1. /\ work' \in [Request -> [Mail -> {"none", "check", "enqueue", "over"}]]
        /\ \A k \in Mail : work'[m][k] = "check"
        /\ \A n \in Request \ {m} : work'[n] = work[n]
    BY <1>3 DEF Store
  <2>. QED
    BY <1>3, <2>1 DEF Store, StoredOnArrival
<1>4. ASSUME NEW m \in Request, NEW k \in Mail, Check(m, k)
      PROVE  ContactInv'
  <2>1. CASE Needs(k) \subseteq ready
    <3>1. /\ work' \in [Request -> [Mail -> {"none", "check", "enqueue", "over"}]]
          /\ work'[m][k] = "enqueue"
          /\ \A n \in Request, h \in Mail : n # m \/ h # k => work'[n][h] = work[n][h]
      BY <1>4, <2>1 DEF Check
    <3>. QED
      BY <1>4, <2>1, <3>1 DEF Check
  <2>2. CASE ~(Needs(k) \subseteq ready)
    <3>. HIDE DEF ContactInv, visits, inbox, setup
    <3>1. work[m][k] # "none" /\ outbox' = outbox \cup {} /\ JobOver(m, k, FALSE, {<<m, k>>})
      BY <1>4, <2>2 DEF Check
    <3>2. UNCHANGED <<visits, stored, isRead, setup, inbox, answered, removed>>
      BY <1>4 DEF Check
    <3>. QED
      BY <3>1, <3>2, JobOverInv
  <2>. QED
    BY <2>1, <2>2
<1>5. ASSUME NEW m \in Request, NEW k \in Mail, JobFails(m, k)
      PROVE  ContactInv'
  <2>. HIDE DEF ContactInv, visits, inbox, setup
  <2>1. work[m][k] # "none" /\ outbox' = outbox \cup {} /\ JobOver(m, k, TRUE, {<<m, k>>})
    BY <1>5 DEF JobFails
  <2>2. UNCHANGED <<visits, stored, isRead, setup, inbox, answered, removed>>
    BY <1>5 DEF JobFails
  <2>. QED
    BY <2>1, <2>2, JobOverInv
<1>6. ASSUME NEW m \in Request, NEW k \in Mail, QueueMail(m, k)
      PROVE  ContactInv'
  <2>. HIDE DEF ContactInv, visits, inbox, setup
  <2>1. work[m][k] # "none"
    BY <1>6 DEF QueueMail
  <2>2. UNCHANGED <<visits, stored, isRead, setup, inbox, answered, removed>>
    BY <1>6 DEF QueueMail
  <2>3. CASE "sender" \in ready
    <3>1. outbox' = outbox \cup {<<m, k>>} /\ JobOver(m, k, FALSE, {})
      BY <1>6, <2>3 DEF QueueMail
    <3>. QED
      BY <2>1, <2>2, <3>1, JobOverInv
  <2>4. CASE "sender" \notin ready
    <3>1. outbox' = outbox \cup {} /\ JobOver(m, k, FALSE, {<<m, k>>})
      BY <1>6, <2>4 DEF QueueMail
    <3>. QED
      BY <2>1, <2>2, <3>1, JobOverInv
  <2>. QED
    BY <2>3, <2>4
<1>7. ASSUME NEW m \in Request, Answer(m)
      PROVE  ContactInv'
  <2>1. /\ work' \in [Request -> [Mail -> {"none", "check", "enqueue", "over"}]]
        /\ \A k \in Mail : work'[m][k] = "none"
        /\ \A n \in Request \ {m} : work'[n] = work[n]
    BY <1>7 DEF Answer, Resting
  <2>2. m[1] \in Visitor /\ m \in stored \cup removed
    BY <1>7 DEF Answer, Request, Mail
  <2>3. page' \in [Visitor -> {"editing", "pending", "sent", "failed"}] /\ \A v \in Visitor : page'[v] = page[v] \/ v = m[1]
    BY <1>7, <2>2 DEF Answer
  <2>. QED
    BY <1>7, <2>1, <2>2, <2>3 DEF Answer
<1>8. ASSUME NEW m \in Request, Stop(m)
      PROVE  ContactInv'
  <2>1. /\ work' \in [Request -> [Mail -> {"none", "check", "enqueue", "over"}]]
        /\ \A k \in Mail : work'[m][k] = "none"
        /\ \A n \in Request \ {m} : work'[n] = work[n]
    BY <1>8 DEF Stop, Resting
  <2>. QED
    BY <1>8, <2>1 DEF Stop
<1>9. ASSUME NEW c \in Clerk, NEW m \in Request, NEW w \in Wish \ {"none"}, Find(c, m, w)
      PROVE  ContactInv'
  BY <1>9 DEF Find
<1>10. ASSUME NEW c \in Clerk, Mark(c)
       PROVE  ContactInv'
  BY <1>10 DEF Mark, StoredOnMark, Wish
<1>11. ASSUME NEW c \in Clerk, Delete(c)
       PROVE  ContactInv'
  BY <1>11 DEF Delete, Wish
<1>12. ASSUME NEW s \in Switch, SetUp(s)
       PROVE  ContactInv'
  BY <1>12 DEF SetUp
<1>13. CASE UNCHANGED contactVars
  BY <1>13 DEF contactVars
<1>. QED
  BY <1>1, <1>2, <1>3, <1>4, <1>5, <1>6, <1>7, <1>8, <1>9, <1>10, <1>11, <1>12, <1>13
     DEF ContactNext

-----------------------------------------------------------------------------
(* The publication of an article *)

\* What a request that nobody has passed has read is what stands; one that
\* sends no state sends no date, and a date that is sent is a minute's; one
\* whose screen stands sends it, but for what its author changed.
RequestHolds(w) ==
  /\ step[w] = "read" /\ w \notin passed => found[w] = piece
  /\ w \in passed => w \in stale
  /\ dto[w].isPublished = "absent" => dto[w].publishedAt = Undated
  /\ step[w] # "none" /\ w \notin stale =>
       /\ "isPublished" \notin changed[w] => dto[w].isPublished \in {"absent", Yes(piece.isPublished)}
       /\ "archived" \notin changed[w] => dto[w].archived = "absent"
       /\ changed[w] \cap {"isPublished", "date"} = {} =>
            dto[w].publishedAt \in {Undated, ToMinute(piece.publishedAt)}
  /\ dto[w].publishedAt \in WholeMinute

\* A date that is still to come was chosen, and is the beginning of a minute.
ComesOnTheMinute == piece.publishedAt \in 0..time \/ piece.publishedAt \in WholeMinute

\* A draft has no date, even where two updates have crossed.
NewsInv ==
  /\ NewsTypeOK /\ DatedWhilePublished
  /\ ~piece.isPublished => piece.publishedAt = Undated
  /\ ComesOnTheMinute
  /\ \A w \in Redactor : RequestHolds(w)

LEMMA UndatedIsWhole == Undated \in WholeMinute
BY DEF WholeMinute, ToMinute, Instant

\* The beginning of the minute of a date is a minute's, and not after it.
LEMMA MinuteOf ==
  ASSUME NEW d \in Instant
  PROVE  /\ ToMinute(d) \in WholeMinute
         /\ d # Undated => ToMinute(d) \in 0..d
<1>1. CASE d = Undated
  BY <1>1, UndatedIsWhole DEF ToMinute
<1>2. CASE d # Undated
  <2>. DEFINE m == d - (d % Minute)
  <2>1. d \in Nat /\ d \in 0..EndOfTime
    BY <1>2, EndOfTimeAssumption DEF Instant
  <2>2. m \in 0..d /\ m % Minute = 0
    BY <2>1, MinuteAssumption
  <2>3. m \in Instant /\ m # Undated /\ ToMinute(d) = m
    BY <1>2, <2>1, <2>2, EndOfTimeAssumption DEF Instant, ToMinute
  <2>4. m - (m % Minute) = m
    BY <2>2
  <2>. HIDE DEF m
  <2>5. ToMinute(m) = m
    BY <2>3, <2>4 DEF ToMinute
  <2>. QED
    BY <2>2, <2>3, <2>5 DEF WholeMinute
<1>. QED
  BY <1>1, <1>2

LEMMA NewsInitInv == NewsInit => NewsInv
<1> SUFFICES ASSUME NewsInit PROVE NewsInv
  OBVIOUS
<1>1. 0 \in 0..EndOfTime /\ 0..EndOfTime \subseteq Nat
  BY EndOfTimeAssumption
<1>2. piece \in Piece /\ (piece.isPublished <=> piece.publishedAt # Undated)
  <2>1. CASE piece = Draft
    BY <2>1 DEF Piece, Draft, Instant
  <2>2. ASSUME NEW d \in WholeMinute \ {Undated}, piece = [Draft EXCEPT !.isPublished = TRUE, !.publishedAt = d]
        PROVE  piece \in Piece /\ (piece.isPublished <=> piece.publishedAt # Undated)
    <3>1. piece = [isPublished |-> TRUE, publishedAt |-> d, archived |-> FALSE]
      BY <2>2 DEF Draft
    <3>. QED
      BY <3>1 DEF Piece, Instant, WholeMinute
  <2>. QED
    BY <2>1, <2>2 DEF NewsInit
<1>3. NewsTypeOK
  BY <1>1, <1>2 DEF NewsInit, NewsTypeOK, Piece, Dto, NoDto, Draft, Instant, Flag
<1>4. ComesOnTheMinute
  <2>1. CASE piece = Draft
    BY <2>1, UndatedIsWhole DEF ComesOnTheMinute, Draft
  <2>2. ASSUME NEW d \in WholeMinute \ {Undated}, piece = [Draft EXCEPT !.isPublished = TRUE, !.publishedAt = d]
        PROVE  ComesOnTheMinute
    BY <2>2 DEF ComesOnTheMinute, Draft
  <2>. QED
    BY <2>1, <2>2 DEF NewsInit
<1>. QED
  BY <1>2, <1>3, <1>4, UndatedIsWhole
     DEF NewsInit, NewsInv, DatedWhilePublished, RequestHolds, NoDto

LEMMA DateTyped ==
  ASSUME piece \in Piece, time \in 0..EndOfTime, NEW d \in Dto, NEW e \in Piece
  PROVE  DateOnUpdate(d, e) \in Instant
BY DEF DateOnUpdate, Piece, Dto, Instant

\* An update of what it has read dates what it publishes, and leaves no date on
\* a draft.
LEMMA DateFollows ==
  ASSUME piece \in Piece, time \in 0..EndOfTime, NEW d \in Dto, NEW e \in Piece,
         d.isPublished = "absent" => d.publishedAt = Undated,
         ~piece.isPublished => piece.publishedAt = Undated
  PROVE  /\ ~After(d.isPublished, piece.isPublished) => DateOnUpdate(d, e) = Undated
         /\ e = piece /\ (piece.isPublished => piece.publishedAt # Undated)
            /\ After(d.isPublished, piece.isPublished) => DateOnUpdate(d, e) # Undated
BY EndOfTimeAssumption DEF DateOnUpdate, Piece, Dto, Instant, Flag, After

\* A request that asks for what stands leaves the date in its minute.
LEMMA DateKept ==
  ASSUME piece \in Piece, NEW d \in Dto,
         ~piece.isPublished => piece.publishedAt = Undated,
         d.isPublished \in {"absent", Yes(piece.isPublished)},
         d.publishedAt \in {Undated, ToMinute(piece.publishedAt)}
  PROVE  DateOnUpdate(d, piece) \in {piece.publishedAt, ToMinute(piece.publishedAt)}
BY DEF DateOnUpdate, Piece, Dto, Flag, Yes, ToMinute

\* A date that is not the present one was chosen.
LEMMA DateOnTheMinute ==
  ASSUME piece \in Piece, time \in 0..EndOfTime, ComesOnTheMinute,
         NEW d \in Dto, NEW e \in Piece, d.publishedAt \in WholeMinute
  PROVE  DateOnUpdate(d, e) \in 0..time \/ DateOnUpdate(d, e) \in WholeMinute
<1>1. DateOnUpdate(d, e) \in {Undated, d.publishedAt, time, piece.publishedAt}
  BY DEF DateOnUpdate
<1>2. time \in 0..time
  BY EndOfTimeAssumption
<1>. QED
  BY <1>1, <1>2, UndatedIsWhole DEF ComesOnTheMinute

LEMMA AskInv ==
  ASSUME NewsInv, NEW w \in Redactor, NEW d \in Dto,
         NEW c \in SUBSET {"isPublished", "date", "archived"}, Ask(w, d, c),
         d.isPublished = "absent" => d.publishedAt = Undated,
         "isPublished" \notin c => d.isPublished \in {"absent", Yes(piece.isPublished)},
         "archived" \notin c => d.archived = "absent",
         c \cap {"isPublished", "date"} = {} =>
           d.publishedAt \in {Undated, ToMinute(piece.publishedAt)},
         d.publishedAt \in WholeMinute
  PROVE  NewsInv'
<1>1. NewsTypeOK'
  BY DEF NewsInv, NewsTypeOK, Ask
<1>2. ASSUME NEW v \in Redactor
      PROVE  RequestHolds(v)'
  <2>1. CASE v = w
    BY <2>1 DEF NewsInv, NewsTypeOK, Ask, RequestHolds, Yes, ToMinute
  <2>2. CASE v # w
    BY <2>2 DEF NewsInv, NewsTypeOK, Ask, RequestHolds, Yes, ToMinute
  <2>. QED
    BY <2>1, <2>2
<1>. QED
  BY <1>1, <1>2 DEF NewsInv, DatedWhilePublished, ComesOnTheMinute, Ask

LEMMA NewsWriteInv ==
  ASSUME NewsInv, NEW w \in Redactor, NewsWrite(w)
  PROVE  NewsInv'
<1>1. /\ dto[w] \in Dto /\ found[w] \in Piece /\ piece \in Piece /\ time \in 0..EndOfTime
      /\ RequestHolds(w)
  BY DEF NewsInv, NewsTypeOK
<1>2. /\ DateOnUpdate(dto[w], found[w]) \in Instant
      /\ After(dto[w].isPublished, piece.isPublished) \in BOOLEAN
      /\ ArchivedAfter(dto[w].archived, found[w]) \in BOOLEAN
  BY <1>1, DateTyped DEF Piece, Dto, Flag, After, ArchivedAfter
<1>3. piece' \in Piece
  BY <1>2 DEF NewsWrite, Piece
<1>4. NoDto \in Dto /\ Draft \in Piece
  BY DEF NoDto, Dto, Flag, Draft, Piece, Instant
<1>5. NewsTypeOK'
  BY <1>3, <1>4 DEF NewsInv, NewsTypeOK, NewsWrite
<1>6. ~piece'.isPublished => piece'.publishedAt = Undated
  BY <1>1, DateFollows DEF NewsInv, RequestHolds, NewsWrite
<1>7. DatedWhilePublished'
  BY <1>1, <1>6, DateFollows DEF NewsInv, RequestHolds, NewsWrite, DatedWhilePublished
<1>8. ASSUME NEW v \in Redactor
      PROVE  RequestHolds(v)'
  BY <1>4, UndatedIsWhole DEF NewsInv, NewsTypeOK, NewsWrite, RequestHolds, NoDto
<1>9. ComesOnTheMinute'
  BY <1>1, DateOnTheMinute DEF NewsInv, NewsWrite, RequestHolds, ComesOnTheMinute
<1>. QED
  BY <1>5, <1>6, <1>7, <1>8, <1>9 DEF NewsInv

LEMMA NewsNextInv ==
  ASSUME NewsInv, [NewsNext]_newsVars
  PROVE  NewsInv'
<1>. NoDto \in Dto /\ piece \in Piece
  BY DEF NoDto, Dto, Flag, Instant, NewsInv, NewsTypeOK
<1>1. CASE UNCHANGED newsVars
  BY <1>1 DEF NewsInv, NewsTypeOK, DatedWhilePublished, RequestHolds, Yes, ToMinute,
              ComesOnTheMinute, newsVars, newsTraces
<1>2. CASE NewsTick
  <2>1. time' \in 0..EndOfTime /\ 0..time \subseteq 0..time'
    BY <1>2, EndOfTimeAssumption DEF NewsInv, NewsTypeOK, NewsTick
  <2>2. ComesOnTheMinute'
    BY <1>2, <2>1 DEF NewsInv, NewsTick, ComesOnTheMinute
  <2>. QED
    BY <1>2, <2>1, <2>2
       DEF NewsInv, NewsTypeOK, NewsTick, DatedWhilePublished, RequestHolds, Yes, ToMinute, newsTraces
<1>3. ASSUME NEW w \in Redactor, TogglePublish(w)
      PROVE  NewsInv'
  <2>1. [NoDto EXCEPT !.isPublished = Yes(~piece.isPublished)] \in Dto
    BY DEF NoDto, Dto, Yes, Flag, Instant
  <2>. QED
    BY <1>3, <2>1, AskInv, UndatedIsWhole DEF TogglePublish, NoDto
<1>4. ASSUME NEW w \in Redactor, ToggleArchive(w)
      PROVE  NewsInv'
  <2>1. [NoDto EXCEPT !.archived = Yes(~piece.archived)] \in Dto
    BY DEF NoDto, Dto, Yes, Flag, Instant
  <2>. QED
    BY <1>4, <2>1, AskInv, UndatedIsWhole DEF ToggleArchive, NoDto
<1>5. ASSUME NEW w \in Redactor, NEW c \in SUBSET {"isPublished", "date"}, NEW d \in WholeMinute,
             SaveForm(w, c, d)
      PROVE  NewsInv'
  <2>. DEFINE e == [AsShown EXCEPT
         !.isPublished = IF "isPublished" \in c THEN Yes(~piece.isPublished) ELSE @,
         !.publishedAt = IF "date" \in c THEN d ELSE @]
  <2>. WholeMinute \subseteq Instant /\ ToMinute(piece.publishedAt) \in WholeMinute
    BY MinuteOf DEF WholeMinute, Piece
  <2>1. /\ AsShown \in Dto /\ AsShown.archived = "absent"
        /\ AsShown.isPublished = Yes(piece.isPublished)
        /\ AsShown.publishedAt = ToMinute(piece.publishedAt)
    BY DEF AsShown, NoDto, Dto, Yes, Flag, Piece
  <2>2. e \in Dto /\ Ask(w, e, c)
    BY <1>5, <2>1 DEF Dto, Yes, Flag, SaveForm
  <2>3. /\ e.isPublished # "absent" /\ e.archived = "absent"
        /\ "isPublished" \notin c => e.isPublished = Yes(piece.isPublished)
        /\ "date" \notin c => e.publishedAt = ToMinute(piece.publishedAt)
        /\ e.publishedAt \in WholeMinute
    BY <2>1 DEF Dto, Yes
  <2>. HIDE DEF e
  <2>. QED
    BY <2>2, <2>3, AskInv
<1>6. ASSUME NEW w \in Redactor, NewsRead(w)
      PROVE  NewsInv'
  BY <1>6 DEF NewsInv, NewsTypeOK, NewsRead, DatedWhilePublished, RequestHolds, Yes, ToMinute,
              ComesOnTheMinute
<1>. QED
  BY <1>1, <1>2, <1>3, <1>4, <1>5, <1>6, NewsWriteInv DEF NewsNext

LEMMA NewsEdits ==
  ASSUME NewsInv, NewsNext, NEW w \in Redactor, step[w] = "read", step'[w] = "none", w \notin stale
  PROVE  /\ piece'.isPublished # piece.isPublished => "isPublished" \in changed[w]
         /\ piece'.archived # piece.archived => "archived" \in changed[w]
         /\ piece'.publishedAt # piece.publishedAt =>
              changed[w] \cap {"isPublished", "date"} # {} \/ Rounded
<1>1. NewsWrite(w)
  <2>1. step \in [Redactor -> {"none", "sent", "read"}]
    BY DEF NewsInv, NewsTypeOK
  <2>2. ASSUME NEW v \in Redactor, NEW d, NEW c, Ask(v, d, c) PROVE FALSE
    BY <2>1, <2>2 DEF Ask
  <2>3. ASSUME NEW v \in Redactor, NewsRead(v) PROVE FALSE
    BY <2>1, <2>3 DEF NewsRead
  <2>4. ASSUME NEW v \in Redactor, NewsWrite(v) PROVE v = w
    BY <2>1, <2>4 DEF NewsWrite
  <2>. QED
    BY <2>2, <2>3, <2>4 DEF NewsNext, NewsTick, TogglePublish, ToggleArchive, SaveForm
<1>2. dto[w] \in Dto /\ piece \in Piece /\ RequestHolds(w) /\ found[w] = piece
  BY DEF NewsInv, NewsTypeOK, RequestHolds
<1>3. "isPublished" \notin changed[w] => piece'.isPublished = piece.isPublished
  BY <1>1, <1>2 DEF NewsWrite, RequestHolds, After, Yes, Piece
<1>4. "archived" \notin changed[w] => piece'.archived = piece.archived
  BY <1>1, <1>2 DEF NewsWrite, RequestHolds, ArchivedAfter, After
<1>5. changed[w] \cap {"isPublished", "date"} = {} =>
        piece'.publishedAt \in {piece.publishedAt, ToMinute(piece.publishedAt)}
  BY <1>1, <1>2, DateKept DEF NewsInv, NewsWrite, RequestHolds
<1>6. piece.publishedAt \in 0..time \/ ToMinute(piece.publishedAt) = piece.publishedAt
  BY DEF NewsInv, ComesOnTheMinute, WholeMinute
<1>. QED
  BY <1>3, <1>4, <1>5, <1>6 DEF Rounded

-----------------------------------------------------------------------------
(* Where an article shows *)

AnnouncementsInv == article \in Article /\ now \in Tick

\* A day that begins with one instant and not after another holds or follows it.
LEMMA DayOf ==
  ASSUME NEW s \in Nat, NEW t \in Nat
  PROVE  s >= StartOfToday(t) <=> ~(t \div DayLength > s \div DayLength)
<1>. DEFINE D == DayLength
            a == s \div D
            b == t \div D
<1>1. D \in Nat \ {0}
  BY ClockAssumption
<1>2. /\ a \in Int /\ b \in Int /\ s % D \in 0..(D - 1) /\ t % D \in 0..(D - 1)
      /\ s = (D * a) + (s % D) /\ t = (D * b) + (t % D)
  BY <1>1
<1>. HIDE DEF a, b, D
<1>3. CASE a >= b
  <2>1. D * a >= D * b
    BY <1>1, <1>2, <1>3
  <2>2. s >= t - (t % D)
    BY <1>1, <1>2, <2>1
  <2>. QED
    BY <1>2, <1>3, <2>2 DEF StartOfToday, a, b, D
<1>4. CASE b >= a + 1
  <2>1. D * b >= D * (a + 1) /\ D * (a + 1) = D * a + D
    BY <1>1, <1>2, <1>4
  <2>2. ~(s >= t - (t % D))
    BY <1>1, <1>2, <2>1
  <2>. QED
    BY <1>2, <1>4, <2>2 DEF StartOfToday, a, b, D
<1>. QED
  BY <1>2, <1>3, <1>4

LEMMA AnnouncementsInitInv == AnnouncementsInit => AnnouncementsInv
BY ClockAssumption DEF AnnouncementsInit, AnnouncementsInv, Tick

LEMMA AnnouncementsNextInv ==
  ASSUME AnnouncementsInv, [ClockTicks]_announcementsVars
  PROVE  AnnouncementsInv'
BY ClockAssumption DEF AnnouncementsInv, ClockTicks, announcementsVars, Tick

LEMMA AnnouncementsAgree == AnnouncementsInv => FiltersAgree
<1> SUFFICES ASSUME AnnouncementsInv PROVE FiltersAgree
  OBVIOUS
<1>1. /\ now \in Nat
      /\ \A d \in Date : d \in Nat \/ d = NoDate
      /\ article.isPublished \in BOOLEAN /\ article.archived \in BOOLEAN
      /\ article.publishedAt \in Date /\ article.eventStartsAt \in Date /\ article.eventEndsAt \in Date
  BY DEF AnnouncementsInv, Article, Tick, Date
<1>2. OneState
  <2>1. ArticleStatus(article, now) \in Status
    BY DEF ArticleStatus, Status
  <2>2. \A s \in Status : StatusWhere(s, article, now) <=> s = ArticleStatus(article, now)
    <3>. DEFINE late == article.publishedAt # NoDate /\ article.publishedAt > now
    <3>1. VisibleNow(article, now) <=> article.isPublished /\ ~article.archived /\ ~late
      BY <1>1, NoDateAssumption DEF VisibleNow, AtOrBefore
    <3>2. StatusWhere("archived", article, now) <=> article.archived
      BY DEF StatusWhere
    <3>3. StatusWhere("draft", article, now) <=> ~article.isPublished /\ ~article.archived
      BY DEF StatusWhere
    <3>4. StatusWhere("scheduled", article, now) <=>
             article.isPublished /\ ~article.archived /\ late
      BY DEF StatusWhere
    <3>5. StatusWhere("published", article, now) <=> VisibleNow(article, now)
      BY DEF StatusWhere
    <3>6. ArticleStatus(article, now) =
            IF article.archived THEN "archived" ELSE IF ~article.isPublished THEN "draft"
            ELSE IF late THEN "scheduled" ELSE "published"
      BY DEF ArticleStatus
    <3>. HIDE DEF late
    <3>. QED
      BY <3>1, <3>2, <3>3, <3>4, <3>5, <3>6 DEF Status
  <2>. QED
    BY <2>1, <2>2 DEF OneState
<1>3. UpcomingUntilOver
  <2>1. ASSUME VisibleNow(article, now), article.showInUpcoming, InWindow(article, now)
        PROVE  Upcoming(article, now) <=> ~Over(article, now)
    <3>1. CASE article.eventEndsAt # NoDate
      BY <1>1, <2>1, <3>1 DEF Upcoming, Over
    <3>2. CASE article.eventEndsAt = NoDate /\ article.eventStartsAt = NoDate
      BY <1>1, <2>1, <3>2 DEF Upcoming, Over
    <3>3. CASE article.eventEndsAt = NoDate /\ article.eventStartsAt # NoDate
      <4>1. article.eventStartsAt \in Nat
        BY <1>1, <3>3
      <4>2. article.eventStartsAt >= StartOfToday(now) <=> ~(now \div DayLength > article.eventStartsAt \div DayLength)
        BY <1>1, <4>1, DayOf
      <4>. QED
        BY <2>1, <3>3, <4>2 DEF Upcoming, Over
    <3>. QED
      BY <3>1, <3>2, <3>3
  <2>2. Upcoming(article, now) \/ Banner(article, now) => ReachableNow(article, now)
    BY DEF Upcoming, Banner, VisibleNow, ReachableNow
  <2>. QED
    BY <2>1, <2>2 DEF UpcomingUntilOver
<1>. QED
  BY <1>2, <1>3 DEF FiltersAgree

-----------------------------------------------------------------------------
(* The menu *)

\* A request that creates has a row of its own, which is not there yet; one
\* that moves never names an item as its own parent.
DeedHolds(h) ==
  /\ deed[h] # "none" => target[h] \in Item
  /\ deed[h] \in {"create", "parent", "move"} => under[h] # target[h]
  /\ deed[h] = "parent" => under[h] \in Item
  /\ deed[h] = "create" =>
       /\ target[h] \in created /\ target[h] \notin Live
       /\ \A g \in Webmaster \ {h} : deed[g] = "create" => target[g] # target[h]

NavigationInv == NavigationTypeOK /\ \A h \in Webmaster : DeedHolds(h)

LEMMA NavigationInitInv == NavigationInit => NavigationInv
BY ItemAssumption
   DEF NavigationInit, NavigationInv, NavigationTypeOK, DeedHolds, Live, Deed, Place

LEMMA NavigationNextInv ==
  ASSUME NavigationInv, [NavigationNext]_navigationVars
  PROVE  NavigationInv'
<1>. USE ItemAssumption
     DEF NavigationInv, NavigationTypeOK, DeedHolds, Live, Deed, Place, Turn, Finish
<1>1. CASE UNCHANGED navigationVars
  BY <1>1 DEF navigationVars
<1>2. ASSUME NEW h \in Webmaster, NEW i \in Item, NEW p \in Place, CreateChecks(h, i, p)
      PROVE  NavigationInv'
  BY <1>2 DEF CreateChecks
<1>3. ASSUME NEW h \in Webmaster, NEW i \in Item, NEW p \in Place, UpdateChecks(h, i, p)
      PROVE  NavigationInv'
  BY <1>3 DEF UpdateChecks, OwnParent
<1>4. ASSUME NEW h \in Webmaster, CreateItem(h)
      PROVE  NavigationInv'
  BY <1>4 DEF CreateItem
<1>5. ASSUME NEW h \in Webmaster, ParentChecked(h)
      PROVE  NavigationInv'
  BY <1>5 DEF ParentChecked
<1>6. ASSUME NEW h \in Webmaster, UpdateItem(h)
      PROVE  NavigationInv'
  BY <1>6 DEF UpdateItem
<1>7. ASSUME NEW h \in Webmaster, NEW i \in Item, RemoveChecks(h, i)
      PROVE  NavigationInv'
  BY <1>7 DEF RemoveChecks
<1>8. ASSUME NEW h \in Webmaster, Promote(h)
      PROVE  NavigationInv'
  BY <1>8 DEF Promote
<1>9. ASSUME NEW h \in Webmaster, DeleteItem(h)
      PROVE  NavigationInv'
  BY <1>9 DEF DeleteItem, ParentsWithout
<1>. QED
  BY <1>1, <1>2, <1>3, <1>4, <1>5, <1>6, <1>7, <1>8, <1>9 DEF NavigationNext

\* Only a move takes an item, or the one it is under, out of the menu.
LEMMA MenuKept ==
  ASSUME NavigationInv, NavigationNext, NEW i \in Menu, i \in Live' \ Menu'
  PROVE  Moves(i) \/ Moves(parent[i])
<1>. USE ItemAssumption DEF Menu, Roots, Live, Moves
<1>1. /\ parent \in [Item -> Item \cup {Top, Gone}] /\ deed \in [Webmaster -> Deed]
      /\ \A h \in Webmaster : DeedHolds(h)
  BY DEF NavigationInv, NavigationTypeOK
<1>2. i \in Item /\ (parent[i] = Top \/ (parent[i] \in Item /\ parent[parent[i]] = Top))
  BY <1>1
<1>3. parent' # parent
  OBVIOUS
<1>4. ASSUME NEW h \in Webmaster, CreateItem(h)
      PROVE  FALSE
  BY <1>1, <1>2, <1>4 DEF CreateItem, DeedHolds
<1>5. ASSUME NEW h \in Webmaster, UpdateItem(h)
      PROVE  Moves(i) \/ Moves(parent[i])
  BY <1>1, <1>2, <1>5 DEF UpdateItem, DeedHolds, Finish, Turn
<1>6. ASSUME NEW h \in Webmaster, Promote(h)
      PROVE  FALSE
  BY <1>1, <1>2, <1>6 DEF Promote, DeedHolds
<1>7. ASSUME NEW h \in Webmaster, DeleteItem(h)
      PROVE  FALSE
  BY <1>1, <1>2, <1>7 DEF DeleteItem, ParentsWithout, DeedHolds
<1>. QED
  BY <1>3, <1>4, <1>5, <1>6, <1>7
     DEF NavigationNext, CreateChecks, UpdateChecks, ParentChecked, RemoveChecks

-----------------------------------------------------------------------------
(* The email templates *)

Updates == {"save", "toggle", "save read", "toggle read"}

Jobs == {"none", "save", "toggle", "reset", "test", "save read", "toggle read", "tested"}

TemplateShapes ==
  /\ template \in TemplateKey /\ (wording = NoRow \/ wording \in Wordings)
  /\ tab \in [Writer -> {"none", "editor", "notifications"}] /\ job \in [Writer -> Jobs]
  /\ onScreen \in [Writer -> Wordings] /\ drafted \in [Writer -> Wordings]
  /\ input \in [Writer -> Wordings] /\ readWords \in [Writer -> [Cell -> Text]]
  /\ wanted \in [Writer -> SUBSET (Cell \cup {OnOff})]
  /\ renews \in [Writer -> BOOLEAN] /\ behind \in [Writer -> BOOLEAN]
  /\ passedBy \in [Writer -> BOOLEAN]
  /\ typing \in 0..MaxTyping /\ sends \in 0..MaxSends /\ chosen \in BOOLEAN

LEMMA ShapesTyped == TemplateShapes => TemplatesTypeOK
BY DEF TemplateShapes, TemplatesTypeOK, Jobs

\* The row can always be sent in French, and is on where that is required and
\* only by choice where it ships off.
RowHolds ==
  /\ wording # NoRow => HasFrench(wording.words) /\ (template \in RequiredKey => wording.on)
  /\ ShippedOn \/ chosen \/ ~View(wording).on

\* A screen that is not behind shows the row.
ScreenHolds(w) ==
  /\ tab[w] = "none" => onScreen[w] = NoView /\ ~renews[w] /\ job[w] = "none"
  /\ tab[w] # "none" /\ ~behind[w] => onScreen[w] = View(wording)
  /\ template \in RequiredKey /\ tab[w] # "none" => onScreen[w].on /\ drafted[w].on
  /\ ShippedOn \/ chosen \/ ~onScreen[w].on

\* A request that nothing has crossed sends the row, but for what is wanted of
\* it, and has read the row.
UpdateHolds(w) ==
  job[w] \in Updates =>
    /\ template \in RequiredKey => job[w] \in {"save", "save read"} /\ input[w].on
    /\ ShippedOn \/ chosen \/ ~input[w].on \/ OnOff \in wanted[w]
    /\ ~passedBy[w] =>
         /\ \A c \in Cell \ wanted[w] : input[w].words[c] = View(wording).words[c]
         /\ OnOff \notin wanted[w] => input[w].on = View(wording).on
         /\ job[w] \in {"save read", "toggle read"} => readWords[w] = View(wording).words

TestHolds(w) ==
  ~passedBy[w] =>
    /\ job[w] = "test" => input[w].words = View(wording).words
    /\ job[w] = "tested" => readWords[w] = input[w].words

TemplatesInv ==
  /\ TemplateShapes /\ RowHolds
  /\ \A w \in Writer : ScreenHolds(w) /\ UpdateHolds(w) /\ TestHolds(w)

LEMMA ShippedTyped == ShippedWords \in [Cell -> Text] /\ HasFrench(ShippedWords)
BY DEF ShippedWords, Text, HasFrench, Cell, Field, Tongue

LEMMA ViewTyped ==
  ASSUME NEW row, row = NoRow \/ row \in Wordings
  PROVE  View(row) \in Wordings
BY ShippedTyped DEF View, Wordings, ShippedOn

\* What a read may answer: it is on where it has to be, and off where it ships
\* off and nobody has chosen.
LEMMA GotHolds ==
  ASSUME TemplatesInv, NEW view \in Got
  PROVE  /\ view \in Wordings
         /\ template \in RequiredKey => view.on
         /\ ShippedOn \/ chosen \/ ~view.on
<1>1. View(wording) \in Wordings /\ View(NoRow) \in Wordings
  BY ViewTyped DEF TemplatesInv, TemplateShapes, Jobs
<1>2. template \in RequiredKey => View(wording).on /\ View(NoRow).on
  BY DEF View
<1>3. ShippedOn \/ ~View(NoRow).on
  BY DEF View, ShippedOn, RequiredKey, OffAtFirst
<1>. QED
  BY <1>1, <1>2, <1>3 DEF Got, TemplatesInv, RowHolds

LEMMA WordingSame ==
  ASSUME UNCHANGED <<template, wording>>
  PROVE  /\ View(wording)' = View(wording) /\ ShippedOn' = ShippedOn
         /\ (RowHolds /\ (chosen => chosen')) => RowHolds'
BY DEF View, ShippedWords, ShippedOn, RowHolds, HasFrench

LEMMA TemplatesInitInv == TemplatesInit => TemplatesInv
<1> SUFFICES ASSUME TemplatesInit PROVE TemplatesInv
  OBVIOUS
<1>1. NoView \in Wordings /\ NoWords \in [Cell -> Text] /\ ~NoView.on
  BY DEF NoView, NoWords, Wordings, Text
<1>2. RowHolds
  BY DEF TemplatesInit, RowHolds, View, ShippedOn, RequiredKey, OffAtFirst
<1>3. typing \in 0..MaxTyping /\ sends \in 0..MaxSends
  BY TypingAssumption DEF TemplatesInit
<1>4. TemplateShapes
  BY <1>1, <1>3, StudiedAssumption DEF TemplatesInit, TemplateShapes, Jobs
<1>. QED
  BY <1>1, <1>2, <1>4
     DEF TemplatesInit, TemplatesInv, ScreenHolds, UpdateHolds, TestHolds, Updates

\* A screen shows what it has fetched.
LEMMA FetchesInv ==
  ASSUME TemplatesInv, NEW w \in Writer, NEW view \in Got, Fetches(w, view),
         NEW s \in {"editor", "notifications"}, tab' = [tab EXCEPT ![w] = s],
         UNCHANGED <<template, wording, typing, sends, chosen, requestVars>>
  PROVE  TemplatesInv'
<1>1. View(wording)' = View(wording) /\ ShippedOn' = ShippedOn /\ RowHolds'
  BY WordingSame DEF TemplatesInv
<1>2. /\ view \in Wordings
      /\ template \in RequiredKey => view.on
      /\ ShippedOn \/ chosen \/ ~view.on
  BY GotHolds
<1>3. TemplateShapes'
  BY <1>2 DEF TemplatesInv, TemplateShapes, Jobs, Fetches, requestVars
<1>4. ASSUME NEW v \in Writer
      PROVE  ScreenHolds(v)'
  <2>1. ScreenHolds(v) /\ ScreenHolds(w)
    BY DEF TemplatesInv
  <2>2. /\ onScreen \in [Writer -> Wordings] /\ drafted \in [Writer -> Wordings]
        /\ behind \in [Writer -> BOOLEAN] /\ tab \in [Writer -> {"none", "editor", "notifications"}]
    BY DEF TemplatesInv, TemplateShapes
  <2>3. CASE v = w
    <3>1. /\ tab'[w] = s /\ onScreen'[w] = view /\ behind'[w] = (view # View(wording))
          /\ drafted'[w] = IF view # onScreen[w] THEN view ELSE drafted[w]
      BY <2>2 DEF Fetches
    <3>2. template \in RequiredKey => drafted'[w].on
      BY <1>2, <2>1, <3>1 DEF ScreenHolds, NoView
    <3>. QED
      BY <1>1, <1>2, <2>3, <3>1, <3>2 DEF ScreenHolds
  <2>4. CASE v # w
    <3>1. /\ tab'[v] = tab[v] /\ onScreen'[v] = onScreen[v] /\ behind'[v] = behind[v]
          /\ drafted'[v] = drafted[v] /\ (renews'[v] => renews[v]) /\ job'[v] = job[v]
      BY <2>2, <2>4 DEF TemplatesInv, TemplateShapes, Fetches, requestVars
    <3>. QED
      BY <1>1, <2>1, <3>1 DEF ScreenHolds
  <2>. QED
    BY <2>3, <2>4
<1>5. ASSUME NEW v \in Writer
      PROVE  UpdateHolds(v)' /\ TestHolds(v)'
  <2>1. UpdateHolds(v) /\ TestHolds(v)
    BY DEF TemplatesInv
  <2>2. UpdateHolds(v)'
    BY <1>1, <2>1 DEF requestVars, UpdateHolds
  <2>3. TestHolds(v)'
    BY <1>1, <2>1 DEF requestVars, TestHolds
  <2>. QED
    BY <2>2, <2>3
<1>. QED
  BY <1>1, <1>3, <1>4, <1>5 DEF TemplatesInv

LEMMA LeaveScreenInv ==
  ASSUME TemplatesInv, NEW w \in Writer, LeaveScreen(w)
  PROVE  TemplatesInv'
<1>1. View(wording)' = View(wording) /\ ShippedOn' = ShippedOn /\ RowHolds'
  BY WordingSame DEF TemplatesInv, LeaveScreen
<1>2. NoView \in Wordings /\ ~NoView.on
  BY DEF NoView, NoWords, Wordings, Text
<1>3. TemplateShapes'
  BY <1>2 DEF TemplatesInv, TemplateShapes, Jobs, LeaveScreen, requestVars
<1>4. ASSUME NEW v \in Writer
      PROVE  ScreenHolds(v)'
  BY <1>1, <1>2 DEF TemplatesInv, TemplateShapes, Jobs, LeaveScreen, requestVars, ScreenHolds
<1>5. ASSUME NEW v \in Writer
      PROVE  UpdateHolds(v)' /\ TestHolds(v)'
  <2>1. UpdateHolds(v) /\ TestHolds(v)
    BY DEF TemplatesInv
  <2>2. UpdateHolds(v)'
    BY <1>1, <2>1 DEF LeaveScreen, requestVars, UpdateHolds
  <2>3. TestHolds(v)'
    BY <1>1, <2>1 DEF LeaveScreen, requestVars, TestHolds
  <2>. QED
    BY <2>2, <2>3
<1>. QED
  BY <1>1, <1>3, <1>4, <1>5 DEF TemplatesInv

\* What is typed changes a draft alone.
LEMMA DraftInv ==
  ASSUME TemplatesInv, drafted' \in [Writer -> Wordings],
         \A v \in Writer : template \in RequiredKey /\ tab[v] # "none" => drafted'[v].on,
         typing < MaxTyping, typing' = typing + 1,
         UNCHANGED <<template, wording, sends, chosen, tab, onScreen, renews, behind, requestVars>>
  PROVE  TemplatesInv'
<1>1. View(wording)' = View(wording) /\ ShippedOn' = ShippedOn /\ RowHolds'
  BY WordingSame DEF TemplatesInv
<1>2. typing' \in 0..MaxTyping
  <2>1. typing \in 0..MaxTyping
    BY DEF TemplatesInv, TemplateShapes
  <2>. QED
    BY <2>1, TypingAssumption
<1>3. TemplateShapes'
  BY <1>2 DEF TemplatesInv, TemplateShapes, Jobs, requestVars
<1>4. ASSUME NEW v \in Writer
      PROVE  ScreenHolds(v)'
  BY <1>1 DEF TemplatesInv, requestVars, ScreenHolds
<1>5. ASSUME NEW v \in Writer
      PROVE  UpdateHolds(v)' /\ TestHolds(v)'
  <2>1. UpdateHolds(v) /\ TestHolds(v)
    BY DEF TemplatesInv
  <2>2. UpdateHolds(v)'
    BY <1>1, <2>1 DEF requestVars, UpdateHolds
  <2>3. TestHolds(v)'
    BY <1>1, <2>1 DEF requestVars, TestHolds
  <2>. QED
    BY <2>2, <2>3
<1>. QED
  BY <1>1, <1>3, <1>4, <1>5 DEF TemplatesInv

LEMMA TypedInv ==
  ASSUME TemplatesInv, NEW w \in Writer,
         TickActive(w) \/ \E c \in Typable, t \in {"blank", w} : TypeWords(w, c, t)
  PROVE  TemplatesInv'
<1>1. /\ drafted \in [Writer -> Wordings]
      /\ \A v \in Writer : template \in RequiredKey /\ tab[v] # "none" => drafted[v].on
  BY DEF TemplatesInv, TemplateShapes, ScreenHolds
<1>2. CASE TickActive(w)
  <2>1. drafted' \in [Writer -> Wordings]
    BY <1>1, <1>2 DEF TickActive, Wordings
  <2>. QED
    BY <1>1, <1>2, <2>1, DraftInv DEF TickActive
<1>3. ASSUME NEW c \in Typable, NEW t \in {"blank", w}, TypeWords(w, c, t)
      PROVE  TemplatesInv'
  <2>1. drafted' \in [Writer -> Wordings]
    BY <1>1, <1>3, StudiedAssumption DEF TypeWords, Wordings, Text
  <2>2. \A v \in Writer : drafted'[v].on = drafted[v].on
    BY <1>1, <1>3 DEF TypeWords, Wordings
  <2>. QED
    BY <1>1, <1>3, <2>1, <2>2, DraftInv DEF TypeWords
<1>. QED
  BY <1>2, <1>3

\* A request sends what its author changed on a screen that is as behind as it
\* is passed by.
LEMMA SendsInv ==
  ASSUME TemplatesInv, NEW w \in Writer, tab[w] # "none",
         NEW kind \in {"save", "toggle", "reset", "test"}, NEW what \in Wordings,
         Sends(w, kind, what),
         kind = "save" /\ template \in RequiredKey => what.on,
         kind = "toggle" => template \notin RequiredKey,
         kind = "test" => what = onScreen[w]
  PROVE  TemplatesInv'
<1>1. View(wording)' = View(wording) /\ ShippedOn' = ShippedOn /\ RowHolds'
  BY WordingSame DEF TemplatesInv, Sends
<1>2. sends' \in 0..MaxSends
  <2>1. sends \in 0..MaxSends
    BY DEF TemplatesInv, TemplateShapes
  <2>. QED
    BY <2>1, TypingAssumption DEF Sends
<1>3. /\ wanted'[w] \subseteq Cell \cup {OnOff}
      /\ \A c \in Cell \ wanted'[w] : what.words[c] = onScreen[w].words[c]
      /\ OnOff \notin wanted'[w] => (what.on = onScreen[w].on)
  BY DEF TemplatesInv, TemplateShapes, Sends, Wordings
<1>4. TemplateShapes'
  BY <1>2, <1>3 DEF TemplatesInv, TemplateShapes, Jobs, Sends, screenVars
<1>5. ASSUME NEW v \in Writer
      PROVE  ScreenHolds(v)'
  BY <1>1 DEF TemplatesInv, TemplateShapes, Jobs, Sends, screenVars, ScreenHolds
<1>6. ASSUME NEW v \in Writer
      PROVE  UpdateHolds(v)' /\ TestHolds(v)'
  <2>1. CASE v = w
    <3>1. /\ job[w] = "none" /\ job'[w] = kind /\ input'[w] = what /\ passedBy'[w] = behind[w]
          /\ chosen' = chosen /\ template' = template
      BY DEF TemplatesInv, TemplateShapes, Sends
    <3>2. ~behind[w] => onScreen[w] = View(wording)
      BY DEF TemplatesInv, ScreenHolds
    <3>3. ShippedOn \/ chosen \/ ~onScreen[w].on
      BY DEF TemplatesInv, ScreenHolds
    <3>4. UpdateHolds(w)'
      BY <1>1, <1>3, <3>1, <3>2, <3>3 DEF UpdateHolds, Updates
    <3>5. TestHolds(w)'
      BY <1>1, <3>1, <3>2 DEF TestHolds
    <3>. QED
      BY <2>1, <3>4, <3>5
  <2>2. CASE v # w
    <3>1. /\ job'[v] = job[v] /\ input'[v] = input[v] /\ passedBy'[v] = passedBy[v]
          /\ wanted'[v] = wanted[v] /\ readWords'[v] = readWords[v]
          /\ chosen' = chosen /\ template' = template
      BY <2>2 DEF TemplatesInv, TemplateShapes, Sends
    <3>2. UpdateHolds(v) /\ TestHolds(v)
      BY DEF TemplatesInv
    <3>3. UpdateHolds(v)'
      BY <1>1, <3>1, <3>2 DEF UpdateHolds
    <3>. QED
      BY <1>1, <3>1, <3>2, <3>3 DEF TestHolds
  <2>. QED
    BY <2>1, <2>2
<1>. QED
  BY <1>1, <1>4, <1>5, <1>6 DEF TemplatesInv

\* A request that ends leaves nothing of it, and its writer nothing to prove.
LEMMA EndsInv ==
  ASSUME TemplatesInv, NEW w \in Writer, EndsWithoutWriting(w)
  PROVE  TemplatesInv'
<1>1. View(wording)' = View(wording) /\ ShippedOn' = ShippedOn /\ RowHolds'
  BY WordingSame DEF TemplatesInv, EndsWithoutWriting
<1>2. NoView \in Wordings /\ NoWords \in [Cell -> Text]
  BY DEF NoView, NoWords, Wordings, Text
<1>3. TemplateShapes'
  BY <1>2 DEF TemplatesInv, TemplateShapes, Jobs, EndsWithoutWriting, Ended, screenVars
<1>4. ASSUME NEW v \in Writer
      PROVE  ScreenHolds(v)'
  BY <1>1 DEF TemplatesInv, TemplateShapes, EndsWithoutWriting, Ended, screenVars, ScreenHolds
<1>5. ASSUME NEW v \in Writer
      PROVE  UpdateHolds(v)' /\ TestHolds(v)'
  <2>1. CASE v = w
    BY <2>1 DEF TemplatesInv, TemplateShapes, EndsWithoutWriting, Ended, UpdateHolds, TestHolds,
            Updates
  <2>2. CASE v # w
    <3>1. /\ job'[v] = job[v] /\ input'[v] = input[v] /\ passedBy'[v] = passedBy[v]
          /\ wanted'[v] = wanted[v] /\ readWords'[v] = readWords[v]
          /\ chosen' = chosen /\ template' = template
      BY <2>2 DEF TemplatesInv, TemplateShapes, EndsWithoutWriting, Ended
    <3>2. UpdateHolds(v) /\ TestHolds(v)
      BY DEF TemplatesInv
    <3>3. UpdateHolds(v)'
      <4>1. CASE job[v] \in Updates
        <5>1. /\ template \in RequiredKey => job[v] \in {"save", "save read"} /\ input[v].on
              /\ ShippedOn \/ chosen \/ ~input[v].on \/ OnOff \in wanted[v]
          BY <3>2, <4>1 DEF UpdateHolds
        <5>2. ~passedBy[v] =>
                /\ \A c \in Cell \ wanted[v] : input[v].words[c] = View(wording).words[c]
                /\ OnOff \notin wanted[v] => input[v].on = View(wording).on
                /\ job[v] \in {"save read", "toggle read"} => readWords[v] = View(wording).words
          BY <3>2, <4>1 DEF UpdateHolds
        <5>3. View(wording)' = View(wording) /\ ShippedOn' = ShippedOn
          BY <1>1
        <5>4. \A c \in Cell : input'[v].words[c] = input[v].words[c]
          BY <3>1
        <5>5. (\A c \in Cell \ wanted[v] : input[v].words[c] = View(wording).words[c])
              => (\A c \in Cell \ wanted[v] : input[v].words[c] = View(wording).words[c])'
          BY <3>1, <5>3, <5>4
        <5>6. (template \in RequiredKey => job[v] \in {"save", "save read"} /\ input[v].on)'
          BY <3>1, <5>1
        <5>7. (ShippedOn \/ chosen \/ ~input[v].on \/ OnOff \in wanted[v])'
          BY <3>1, <5>1, <5>3
        <5>8. (OnOff \notin wanted[v] => input[v].on = View(wording).on)
              => (OnOff \notin wanted[v] => input[v].on = View(wording).on)'
          BY <3>1, <5>3
        <5>. QED
          BY <3>1, <5>2, <5>3, <5>5, <5>6, <5>7, <5>8 DEF UpdateHolds
      <4>. QED
        BY <3>1, <4>1 DEF UpdateHolds
    <3>. QED
      BY <1>1, <3>1, <3>2, <3>3 DEF TestHolds
  <2>. QED
    BY <2>1, <2>2
<1>. QED
  BY <1>1, <1>3, <1>4, <1>5 DEF TemplatesInv

\* A read that is not the row, because it failed, passes the request by.
LEMMA ReadsInv ==
  ASSUME TemplatesInv, NEW w \in Writer, UpdateReadTemplate(w) \/ TestSends(w)
  PROVE  TemplatesInv'
<1>1. View(wording)' = View(wording) /\ ShippedOn' = ShippedOn /\ RowHolds'
  <2>1. template' = template /\ wording' = wording /\ chosen' = chosen
    BY DEF UpdateReadTemplate, TestSends
  <2>. QED
    BY <2>1, WordingSame DEF TemplatesInv
<1>2. PICK view \in Got :
        /\ readWords' = [readWords EXCEPT ![w] = view.words]
        /\ passedBy' = [passedBy EXCEPT ![w] = @ \/ view # View(wording)]
  BY DEF UpdateReadTemplate, TestSends
<1>3. view.words \in [Cell -> Text]
  BY GotHolds DEF Wordings
<1>4. /\ job[w] \in {"save", "toggle", "test"}
      /\ job' = [job EXCEPT ![w] = IF @ = "save" THEN "save read"
                                   ELSE IF @ = "toggle" THEN "toggle read" ELSE "tested"]
      /\ UNCHANGED <<template, wording, typing, sends, chosen, screenVars, input, wanted>>
  BY DEF UpdateReadTemplate, TestSends, TemplatesInv, TemplateShapes
<1>5. TemplateShapes'
  BY <1>2, <1>3, <1>4 DEF TemplatesInv, TemplateShapes, Jobs, screenVars
<1>6. ASSUME NEW v \in Writer
      PROVE  ScreenHolds(v)'
  BY <1>1, <1>4 DEF TemplatesInv, TemplateShapes, screenVars, ScreenHolds
<1>7. ASSUME NEW v \in Writer
      PROVE  UpdateHolds(v)' /\ TestHolds(v)'
  <2>1. UpdateHolds(v) /\ TestHolds(v)
    BY DEF TemplatesInv
  <2>2. CASE v = w
    <3>1. /\ job'[w] = (IF job[w] = "save" THEN "save read"
                        ELSE IF job[w] = "toggle" THEN "toggle read" ELSE "tested")
          /\ readWords'[w] = view.words /\ passedBy'[w] = (passedBy[w] \/ view # View(wording))
      BY <1>2, <1>4 DEF TemplatesInv, TemplateShapes
    <3>2. /\ template' = template /\ chosen' = chosen /\ input' = input /\ wanted' = wanted
          /\ job[w] \in {"save", "toggle", "test"} /\ UpdateHolds(w) /\ TestHolds(w)
      BY <1>4, <2>1, <2>2
    <3>3. ~passedBy'[w] => ~passedBy[w] /\ readWords'[w] = View(wording).words
      BY <3>1
    <3>4. UpdateHolds(w)'
      <4>1. CASE job[w] = "test"
        BY <3>1, <4>1 DEF UpdateHolds, Updates
      <4>2. CASE job[w] = "save"
        BY <1>1, <3>1, <3>2, <3>3, <4>2 DEF UpdateHolds, Updates
      <4>3. CASE job[w] = "toggle"
        BY <1>1, <3>1, <3>2, <3>3, <4>3 DEF UpdateHolds, Updates
      <4>. QED
        BY <3>2, <4>1, <4>2, <4>3
    <3>5. TestHolds(w)'
      BY <3>1, <3>2, <3>3 DEF TestHolds
    <3>. QED
      BY <2>2, <3>4, <3>5
  <2>3. CASE v # w
    <3>1. /\ job'[v] = job[v] /\ passedBy'[v] = passedBy[v] /\ readWords'[v] = readWords[v]
      BY <1>2, <1>4, <2>3 DEF TemplatesInv, TemplateShapes
    <3>2. UpdateHolds(v)'
      BY <1>1, <1>4, <2>1, <3>1 DEF UpdateHolds
    <3>. QED
      BY <1>1, <1>4, <2>1, <3>1, <3>2 DEF TestHolds
  <2>. QED
    BY <2>2, <2>3
<1>. QED
  BY <1>1, <1>5, <1>6, <1>7 DEF TemplatesInv

\* A row that is written puts every screen behind it and passes every request
\* by, but a test that has been sent.
LEMMA WritesInv ==
  ASSUME TemplatesInv, NEW w \in Writer, job[w] # "none", NEW row \in Wordings,
         WritesTemplate(w, row), HasFrench(row.words), template \in RequiredKey => row.on,
         chosen' \in BOOLEAN, chosen => chosen', ShippedOn \/ chosen' \/ ~row.on
  PROVE  TemplatesInv'
<1>1. template' = template /\ wording' = row /\ ShippedOn' = ShippedOn
  BY DEF WritesTemplate, ShippedOn
<1>2. RowHolds'
  <2>1. HasFrench(wording.words)'
    BY <1>1 DEF HasFrench
  <2>2. (ShippedOn \/ chosen \/ ~View(wording).on)'
    BY <1>1 DEF View, ShippedOn, RequiredKey, OffAtFirst
  <2>. QED
    BY <1>1, <2>1, <2>2 DEF RowHolds
<1>3. NoView \in Wordings /\ NoWords \in [Cell -> Text]
  BY DEF NoView, NoWords, Wordings, Text
<1>4. TemplateShapes'
  BY <1>1, <1>3 DEF TemplatesInv, TemplateShapes, Jobs, WritesTemplate, Ended
<1>5. ASSUME NEW v \in Writer
      PROVE  ScreenHolds(v)'
  <2>1. ScreenHolds(v) /\ ScreenHolds(w)
    BY DEF TemplatesInv
  <2>2. /\ tab' = tab /\ onScreen' = onScreen /\ drafted' = drafted
        /\ behind'[v] = (tab[v] # "none")
        /\ job'[v] = IF v = w THEN "none" ELSE job[v]
        /\ renews'[v] = IF v = w THEN TRUE ELSE renews[v]
    BY DEF TemplatesInv, TemplateShapes, WritesTemplate, Ended
  <2>. QED
    BY <1>1, <2>1, <2>2 DEF ScreenHolds
<1>6. ASSUME NEW v \in Writer
      PROVE  UpdateHolds(v)' /\ TestHolds(v)'
  <2>1. CASE v = w
    BY <2>1
       DEF TemplatesInv, TemplateShapes, WritesTemplate, Ended, UpdateHolds, TestHolds, Updates
  <2>2. CASE v # w
    <3>1. UpdateHolds(v) /\ TestHolds(v)
      BY DEF TemplatesInv
    <3>2. /\ job'[v] = job[v] /\ input'[v] = input[v] /\ wanted'[v] = wanted[v]
          /\ readWords'[v] = readWords[v]
          /\ passedBy'[v] = (passedBy[v] \/ job[v] \notin {"none", "tested"})
      BY <2>2 DEF TemplatesInv, TemplateShapes, WritesTemplate, Ended
    <3>3. UpdateHolds(v)'
      BY <1>1, <3>1, <3>2 DEF UpdateHolds, Updates
    <3>. QED
      BY <3>1, <3>2, <3>3 DEF TestHolds
  <2>. QED
    BY <2>1, <2>2
<1>. QED
  BY <1>2, <1>4, <1>5, <1>6 DEF TemplatesInv

LEMMA WordsWriteInv ==
  ASSUME TemplatesInv, NEW w \in Writer, UpdateWriteTemplate(w) \/ ResetWrites(w)
  PROVE  TemplatesInv'
<1>1. CASE UpdateWriteTemplate(w)
  <2>1. MergedWords(w) \in [Cell -> Text] /\ input[w].on \in BOOLEAN
    BY DEF TemplatesInv, TemplateShapes, MergedWords, Wordings
  <2>2. /\ job[w] \in Updates /\ UpdateHolds(w) /\ job[w] # "none"
    BY <1>1 DEF UpdateWriteTemplate, Updates, TemplatesInv
  <2>3. /\ template \in RequiredKey => input[w].on
        /\ chosen' \in BOOLEAN /\ (chosen => chosen') /\ (ShippedOn \/ chosen' \/ ~input[w].on)
    BY <1>1, <2>2 DEF UpdateWriteTemplate, UpdateHolds, TemplatesInv, TemplateShapes
  <2>4. [words |-> MergedWords(w), on |-> input[w].on] \in Wordings
    BY <2>1 DEF Wordings
  <2>. QED
    BY <1>1, <2>2, <2>3, <2>4, WritesInv DEF UpdateWriteTemplate
<1>2. CASE ResetWrites(w)
  <2>. DEFINE row == [words |-> ShippedWords, on |-> OnAfterReset(wording)]
  <2>1. row \in Wordings /\ HasFrench(row.words)
    BY ShippedTyped DEF Wordings, OnAfterReset, TemplatesInv, TemplateShapes
  <2>2. /\ template \in RequiredKey => row.on
        /\ chosen' \in BOOLEAN /\ (chosen => chosen') /\ (ShippedOn \/ chosen' \/ ~row.on)
    BY <1>2 DEF ResetWrites, OnAfterReset, TemplatesInv, TemplateShapes, RowHolds, View
  <2>3. job[w] # "none" /\ WritesTemplate(w, row)
    BY <1>2 DEF ResetWrites
  <2>. HIDE DEF row
  <2>. QED
    BY <2>1, <2>2, <2>3, WritesInv
<1>. QED
  BY <1>1, <1>2

\* The seed stores what is in force already.
LEMMA BootInv ==
  ASSUME TemplatesInv, Boot
  PROVE  TemplatesInv'
<1>1. /\ template' = template /\ ShippedOn' = ShippedOn /\ chosen' = chosen
      /\ wording' = wording \/ (wording = NoRow /\ wording' = ShippedRow)
  BY DEF Boot, ShippedOn, SeededRow
<1>2. ShippedRow \in Wordings /\ HasFrench(ShippedRow.words) /\ ShippedRow.on = ShippedOn
  BY ShippedTyped DEF ShippedRow, Wordings, ShippedOn
<1>3. RowHolds'
  <2>1. CASE wording' = wording
    BY <1>1, <2>1, WordingSame DEF TemplatesInv
  <2>2. CASE wording' = ShippedRow
    <3>1. HasFrench(wording.words)'
      BY <1>2, <2>2 DEF HasFrench
    <3>2. (template \in RequiredKey => wording.on)'
      BY <1>1, <1>2, <2>2 DEF ShippedOn, RequiredKey, OffAtFirst
    <3>3. (ShippedOn \/ chosen \/ ~View(wording).on)'
      BY <1>1, <1>2, <2>2 DEF View, ShippedOn, RequiredKey, OffAtFirst
    <3>. QED
      BY <3>1, <3>2, <3>3 DEF RowHolds
  <2>. QED
    BY <1>1, <2>1, <2>2
<1>4. NoView \in Wordings /\ NoWords \in [Cell -> Text]
  BY DEF NoView, NoWords, Wordings, Text
<1>5. TemplateShapes'
  BY <1>1, <1>2, <1>4 DEF TemplatesInv, TemplateShapes, Jobs, Boot
<1>6. ASSUME NEW v \in Writer
      PROVE  ScreenHolds(v)'
  <2>1. ScreenHolds(v)
    BY DEF TemplatesInv
  <2>2. /\ tab' = tab /\ onScreen' = onScreen /\ drafted' = drafted /\ renews' = renews
        /\ behind'[v] = (tab[v] # "none" /\ (behind[v] \/ wording' # wording))
        /\ job'[v] = "none"
    BY DEF Boot
  <2>3. wording' = wording => View(wording)' = View(wording)
    BY <1>1, WordingSame
  <2>. QED
    BY <1>1, <2>1, <2>2, <2>3 DEF ScreenHolds
<1>7. ASSUME NEW v \in Writer
      PROVE  UpdateHolds(v)' /\ TestHolds(v)'
  BY DEF Boot, UpdateHolds, TestHolds, Updates
<1>. QED
  BY <1>3, <1>5, <1>6, <1>7 DEF TemplatesInv

LEMMA TemplatesNextInv ==
  ASSUME TemplatesInv, [TemplatesNext]_templatesVars
  PROVE  TemplatesInv'
<1>1. CASE UNCHANGED templatesVars
  <2>1. /\ View(wording)' = View(wording) /\ ShippedOn' = ShippedOn /\ RowHolds'
        /\ UNCHANGED <<template, wording, typing, sends, chosen, tab, onScreen, drafted, renews,
                       behind, job, input, readWords, passedBy, wanted>>
    BY <1>1, WordingSame DEF TemplatesInv, templatesVars, requestVars, screenVars
  <2>2. TemplateShapes'
    BY <2>1 DEF TemplatesInv, TemplateShapes
  <2>3. ASSUME NEW v \in Writer PROVE ScreenHolds(v)' /\ UpdateHolds(v)' /\ TestHolds(v)'
    <3>1. ScreenHolds(v) /\ UpdateHolds(v) /\ TestHolds(v)
      BY DEF TemplatesInv
    <3>2. ScreenHolds(v)'
      BY <2>1, <3>1 DEF ScreenHolds
    <3>3. UpdateHolds(v)'
      BY <2>1, <3>1 DEF UpdateHolds
    <3>. QED
      BY <2>1, <3>1, <3>2, <3>3 DEF TestHolds
  <2>. QED
    BY <2>1, <2>2, <2>3 DEF TemplatesInv
<1>2. CASE Boot
  BY <1>2, BootInv
<1>3. ASSUME NEW w \in Writer, OpenTemplate(w) \/ OpenNotifications(w)
      PROVE  TemplatesInv'
  BY <1>3, FetchesInv DEF OpenTemplate, OpenNotifications, Got
<1>4. ASSUME NEW w \in Writer, FetchedAgain(w)
      PROVE  TemplatesInv'
  <2>1. tab[w] \in {"editor", "notifications"} /\ tab' = [tab EXCEPT ![w] = tab[w]]
    BY <1>4 DEF TemplatesInv, TemplateShapes, ScreenHolds, FetchedAgain
  <2>2. PICK view \in Got : Fetches(w, view)
    BY <1>4 DEF FetchedAgain, Got
  <2>. QED
    BY <1>4, <2>1, <2>2, FetchesInv DEF FetchedAgain
<1>5. ASSUME NEW w \in Writer, SaveTemplate(w)
      PROVE  TemplatesInv'
  BY <1>5, SendsInv DEF SaveTemplate, TemplatesInv, TemplateShapes, ScreenHolds
<1>6. ASSUME NEW w \in Writer, ToggleTemplate(w)
      PROVE  TemplatesInv'
  <2>1. [onScreen[w] EXCEPT !.on = ~@] \in Wordings
    BY DEF TemplatesInv, TemplateShapes, Wordings
  <2>. QED
    BY <1>6, <2>1, SendsInv DEF ToggleTemplate
<1>7. ASSUME NEW w \in Writer, ResetTemplate(w)
      PROVE  TemplatesInv'
  BY <1>7, ViewTyped, SendsInv DEF ResetTemplate
<1>8. ASSUME NEW w \in Writer, TestTemplate(w)
      PROVE  TemplatesInv'
  BY <1>8, SendsInv DEF TestTemplate, MayTest, Altered, TemplatesInv, TemplateShapes
<1>. QED
  BY <1>1, <1>2, <1>3, <1>4, <1>5, <1>6, <1>7, <1>8, LeaveScreenInv, TypedInv, ReadsInv,
     WordsWriteInv, EndsInv
     DEF TemplatesNext

LEMMA TemplatesStand == TemplatesInv => TemplatesTypeOK /\ TemplatesHold
<1> SUFFICES ASSUME TemplatesInv PROVE TemplatesTypeOK /\ TemplatesHold
  OBVIOUS
<1>1. HasFrench(View(wording).words)
  BY ShippedTyped DEF TemplatesInv, RowHolds, View
<1>2. NeverBlank
  BY <1>1 DEF NeverBlank, Rendered, Pick, Effective, HasFrench, Field
<1>3. OffUntilChosen /\ TestIsShown
  BY DEF TemplatesInv, RowHolds, TestHolds, OffUntilChosen, TestIsShown
<1>. QED
  BY <1>2, <1>3, ShapesTyped DEF TemplatesInv, TemplatesHold

\* The row is written by a reset or by what somebody wanted of it.
LEMMA WordsKept ==
  ASSUME TemplatesInv, [TemplatesNext]_templatesVars, wording # NoRow
  PROVE  /\ \A c \in Cell :
              wording'.words[c] # wording.words[c] =>
                \E w \in Writer : ResetNow(w) \/ (WriteNow(w) /\ (c \in wanted[w] \/ passedBy[w]))
         /\ wording'.on # wording.on =>
              \E w \in Writer : WriteNow(w) /\ (OnOff \in wanted[w] \/ passedBy[w])
<1>1. CASE wording' = wording
  BY <1>1
<1>2. ASSUME NEW w \in Writer, ResetWrites(w)
      PROVE  ResetNow(w) /\ wording'.on = wording.on
  BY <1>2 DEF ResetWrites, WritesTemplate, Ended, OnAfterReset, ResetNow, TemplatesInv,
              TemplateShapes
<1>3. ASSUME NEW w \in Writer, UpdateWriteTemplate(w)
      PROVE  /\ WriteNow(w)
             /\ \A c \in Cell : wording'.words[c] # wording.words[c] => c \in wanted[w] \/ passedBy[w]
             /\ wording'.on # wording.on => OnOff \in wanted[w] \/ passedBy[w]
  <2>1. WriteNow(w)
    BY <1>3
       DEF UpdateWriteTemplate, WritesTemplate, Ended, WriteNow, TemplatesInv, TemplateShapes
  <2>2. /\ job[w] \in {"save read", "toggle read"} /\ job[w] \in Updates /\ UpdateHolds(w)
        /\ wording'.words = MergedWords(w) /\ wording'.on = input[w].on
    BY <1>3 DEF UpdateWriteTemplate, WritesTemplate, TemplatesInv, Updates
  <2>3. View(wording).words = wording.words
    BY DEF View
  <2>4. template \notin RequiredKey => View(wording).on = wording.on
    BY DEF View, TemplatesInv, TemplateShapes, Wordings
  <2>5. template \in RequiredKey => input[w].on = wording.on
    BY <2>2 DEF UpdateHolds, TemplatesInv, TemplateShapes, RowHolds, Wordings
  <2>6. ASSUME NEW c \in Cell, wording'.words[c] # wording.words[c]
        PROVE  c \in wanted[w] \/ passedBy[w]
    <3>1. MergedWords(w) = IF job[w] = "save read" THEN input[w].words ELSE readWords[w]
      BY DEF MergedWords
    <3>2. CASE job[w] = "save read"
      BY <2>2, <2>3, <2>6, <3>1, <3>2 DEF UpdateHolds
    <3>3. CASE job[w] = "toggle read"
      <4>1. ~passedBy[w] => readWords[w] = View(wording).words
        BY <2>2, <3>3 DEF UpdateHolds
      <4>. QED
        BY <2>2, <2>3, <2>6, <3>1, <3>3, <4>1
    <3>. QED
      BY <2>2, <3>2, <3>3
  <2>7. wording'.on # wording.on => OnOff \in wanted[w] \/ passedBy[w]
    BY <2>2, <2>4, <2>5 DEF UpdateHolds
  <2>. QED
    BY <2>1, <2>6, <2>7
<1>4. CASE UNCHANGED templatesVars
  BY <1>4 DEF templatesVars
<1>5. CASE Boot
  BY <1>5 DEF Boot, SeededRow
<1>6. ASSUME NEW w \in Writer, wording' # wording, ~ResetWrites(w), ~UpdateWriteTemplate(w)
      PROVE  ~(\/ OpenTemplate(w) \/ OpenNotifications(w) \/ FetchedAgain(w) \/ LeaveScreen(w)
               \/ \E c \in Typable, t \in {"blank", w} : TypeWords(w, c, t)
               \/ TickActive(w) \/ SaveTemplate(w) \/ ToggleTemplate(w) \/ ResetTemplate(w)
               \/ TestTemplate(w) \/ UpdateReadTemplate(w) \/ EndsWithoutWriting(w)
               \/ TestSends(w))
  BY <1>6 DEF OpenTemplate, OpenNotifications, FetchedAgain, LeaveScreen, TypeWords, TickActive,
              SaveTemplate, ToggleTemplate, ResetTemplate, TestTemplate, Sends,
              UpdateReadTemplate, EndsWithoutWriting, TestSends
<1>. QED
  BY <1>1, <1>2, <1>3, <1>4, <1>5, <1>6 DEF TemplatesNext

-----------------------------------------------------------------------------
(* The catalogue *)

AnyValue == BOOLEAN \cup Typed \cup Photo \cup {"first"}

\* The rows a form or the table may hold: a file of the library is one that was
\* uploaded.
Form ==
  {r \in [Fields -> AnyValue] :
     /\ \A c \in Fields : r[c] \in Values(c)
     /\ Image \in Fields /\ r[Image] \in Photo => r[Image] \in uploads}
MaybeForm == Form \cup {NoEntry}
CallShape ==
  [of : {"none", "edit", "create", "toggle"}, step : {"none", "upload", "sent", "read"},
   sent : MaybeForm, seen : MaybeForm, base : MaybeForm]

\* A request under way sends a form, and has read a row when it says so.
CallHolds(d) ==
  /\ call[d].of = "none" <=> call[d].step = "none"
  /\ call[d].of # "none" => call[d].sent \in Form
  /\ call[d].step = "upload" => call[d].of \in {"edit", "create"} /\ Image \in Fields
  /\ call[d].step = "read" => call[d].of \in {"edit", "toggle"} /\ call[d].base \in Form

CatalogueShapes ==
  /\ entryKind \in EntryKind /\ entry \in MaybeForm
  /\ worn \subseteq uploads /\ uploads \subseteq Photo
  /\ listed \in [Curator -> MaybeForm]
  /\ values \in [Curator -> Form] /\ opened \in [Curator -> Form]
  /\ dialogForm \in [Curator -> {"closed", "edit", "create"}]
  /\ call \in [Curator -> CallShape]
  /\ changes \in 0..MaxChanges /\ sentCalls \in 0..MaxCalls /\ failures \in Nat
  /\ \A d \in Curator : CallHolds(d)

\* The files that were uploaded, never put on a row, and that no save brings.
Strays == {p \in uploads \ worn : \A d \in Saving : call[d].sent[Image] # p}
Busy == {d \in Curator : call[d].of # "none"}

CatalogueInv ==
  /\ CatalogueShapes
  /\ Cardinality(Strays) <= failures
  /\ failures + Cardinality(Busy) <= sentCalls

-----------------------------------------------------------------------------
(* Rows *)

LEMMA FieldsOfKinds ==
  ASSUME entryKind \in EntryKind
  PROVE  /\ Fields \subseteq Title \cup More \cup {LinkField, Icon, Image, Published}
         /\ Published \in Fields
         /\ Image \notin Title \cup More \cup {LinkField, Icon, Published}
         /\ Published \notin Title \cup More \cup {LinkField, Icon, Image}
         /\ Icon \notin Title \cup More \cup {LinkField, Image, Published}
<1>1. Fields \in {MissionFields, PartnerFields, FigureFields, AlbumFields}
  BY DEF EntryKind, Fields
<1>2. /\ Fields \subseteq Title \cup More \cup {LinkField, Icon, Image, Published}
      /\ Published \in Fields
  BY <1>1 DEF MissionFields, PartnerFields, FigureFields, AlbumFields
<1>3. /\ Image # LinkField /\ Image # Published /\ Published # LinkField
      /\ Image \notin Title \cup More /\ Published \notin Title \cup More
  BY DEF Title, More, LinkField, Image, Published
<1>4. /\ Icon # LinkField /\ Icon # Published /\ Icon # Image
      /\ Icon \notin Title \cup More
  BY DEF Title, More, LinkField, Icon, Image, Published
<1>. QED
  BY <1>2, <1>3, <1>4

LEMMA EmptyFormIsForm == entryKind \in EntryKind => EmptyForm \in Form
BY FieldsOfKinds, PhotoAssumption DEF EmptyForm, Form, Values, AnyValue, Typed

\* The form of a row holds a row.
LEMMA FormOfIsForm ==
  ASSUME entryKind \in EntryKind, NEW row \in Form
  PROVE  FormOf(row) \in Form
<1>1. ASSUME NEW c \in Fields
      PROVE  FormOf(row)[c] \in Values(c) /\ FormOf(row)[c] \in AnyValue
  BY FieldsOfKinds DEF FormOf, Form, Values, AnyValue
<1>2. Image \in Fields => FormOf(row)[Image] = row[Image]
  BY FieldsOfKinds DEF FormOf
<1>. QED
  BY <1>1, <1>2 DEF FormOf, Form, AnyValue

LEMMA FormIsRow ==
  ASSUME NEW r \in Form
  PROVE  IsRow(r)
BY DEF Form, IsRow

LEMMA FieldChanged ==
  ASSUME NEW r \in Form, NEW c \in Fields, NEW v \in Values(c),
         c = Image => v \notin Photo \/ v \in uploads
  PROVE  [r EXCEPT ![c] = v] \in Form
<1>1. v \in AnyValue
  BY DEF Values, AnyValue
<1>. QED
  BY <1>1 DEF Form

LEMMA MergedIsForm ==
  ASSUME entryKind \in EntryKind, NEW old \in Form, NEW f \in Form
  PROVE  /\ [c \in Fields |-> Merged(old, f, c)] \in Form
         /\ Image \in Fields => Merged(old, f, Image) = f[Image]
<1>1. ASSUME NEW c \in Fields
      PROVE  Merged(old, f, c) \in Values(c)
  BY FieldsOfKinds DEF Merged, Form, Values, Typed
<1>2. Image \in Fields => Merged(old, f, Image) = f[Image]
  BY FieldsOfKinds DEF Merged
<1>3. \A c \in Fields : Merged(old, f, c) \in AnyValue
  BY <1>1 DEF Values, AnyValue
<1>. QED
  BY <1>1, <1>2, <1>3 DEF Form

\* Forms stay forms as files are uploaded.
LEMMA FormsStand ==
  ASSUME UNCHANGED entryKind, uploads \subseteq uploads'
  PROVE  /\ Fields' = Fields
         /\ Form \subseteq Form' /\ MaybeForm \subseteq MaybeForm'
         /\ CallShape \subseteq CallShape'
         /\ EmptyForm' = EmptyForm
<1>1. Fields' = Fields
  BY DEF Fields
<1>2. Form \subseteq Form'
  BY <1>1 DEF Form
<1>3. MaybeForm \subseteq MaybeForm'
  BY <1>2 DEF MaybeForm
<1>4. CallShape \subseteq CallShape'
  BY <1>3 DEF CallShape
<1>. QED
  BY <1>1, <1>2, <1>3, <1>4 DEF EmptyForm

LEMMA FormsSame ==
  ASSUME UNCHANGED <<entryKind, uploads>>
  PROVE  /\ Fields' = Fields /\ Form' = Form /\ MaybeForm' = MaybeForm
         /\ CallShape' = CallShape /\ EmptyForm' = EmptyForm
<1>1. Fields' = Fields
  BY DEF Fields
<1>2. Form' = Form
  BY <1>1 DEF Form
<1>. QED
  BY <1>1, <1>2 DEF MaybeForm, CallShape, EmptyForm

LEMMA CatalogueInitInv == CatalogueInit => CatalogueInv
<1> SUFFICES ASSUME CatalogueInit PROVE CatalogueInv
  OBVIOUS
<1>1. entryKind \in EntryKind
  BY DEF CatalogueInit
<1>2. entry \in Form /\ EmptyForm \in Form
  <2>1. \A c \in Fields : entry[c] \in Values(c) /\ entry[c] \in AnyValue
    BY <1>1, FieldsOfKinds DEF CatalogueInit, Values, AnyValue, Typed, Title
  <2>2. Image \in Fields => entry[Image] = "blank"
    BY <1>1, FieldsOfKinds DEF CatalogueInit
  <2>. QED
    BY <1>1, <2>1, <2>2, EmptyFormIsForm, PhotoAssumption DEF CatalogueInit, Form
<1>3. Idle \in CallShape
  BY DEF Idle, CallShape, MaybeForm
<1>4. 0 \in 0..MaxChanges /\ 0 \in 0..MaxCalls
  BY ChangesAssumption
<1>5. CatalogueShapes
  BY <1>1, <1>2, <1>3, <1>4 DEF CatalogueInit, CatalogueShapes, CallHolds, Idle, MaybeForm
<1>6. Strays = {} /\ Busy = {}
  BY DEF CatalogueInit, Strays, Busy, Idle
<1>. QED
  BY <1>5, <1>6, FS_EmptySet DEF CatalogueInv, CatalogueInit

-----------------------------------------------------------------------------
(* What a step does to the shapes *)

\* The request of a curator is over.
LEMMA CallEnds ==
  ASSUME CatalogueShapes, NEW d \in Curator, UNCHANGED <<entryKind, uploads>>,
         call' = [call EXCEPT ![d] = Idle]
  PROVE  call' \in [Curator -> CallShape'] /\ \A e \in Curator : CallHolds(e)'
<1>1. Idle \in CallShape /\ Idle.of = "none" /\ Idle.step = "none"
  BY DEF Idle, CallShape, MaybeForm
<1>. QED
  BY <1>1, FormsSame DEF CatalogueShapes, CallHolds

LEMMA AnsweredShapes ==
  ASSUME CatalogueShapes, NEW d \in Curator, Answered(d)
  PROVE  /\ values' \in [Curator -> Form] /\ opened' \in [Curator -> Form]
         /\ dialogForm' \in [Curator -> {"closed", "edit", "create"}]
         /\ call' = [call EXCEPT ![d] = Idle]
<1>1. EmptyForm \in Form /\ FormOf(EmptyForm) \in Form
  BY EmptyFormIsForm, FormOfIsForm DEF CatalogueShapes
<1>. QED
  BY <1>1 DEF Answered, Opens, CatalogueShapes

LEMMA WearsUploads ==
  ASSUME worn \subseteq uploads, NEW row \in Form, Wears(row)
  PROVE  worn' \subseteq uploads
BY DEF Wears, Form

LEMMA ShapesNext ==
  ASSUME CatalogueShapes, [CatalogueNext]_catalogueVars
  PROVE  CatalogueShapes'
<1>. USE DEF CatalogueShapes, CallHolds
<1>1. CASE UNCHANGED catalogueVars
  BY <1>1, FormsSame DEF catalogueVars
<1>2. ASSUME NEW d \in Curator, FetchList(d)
      PROVE  CatalogueShapes'
  BY <1>2, FormsSame DEF FetchList
<1>3. ASSUME NEW d \in Curator, OpenForm(d)
      PROVE  CatalogueShapes'
  BY <1>3, FormsSame, EmptyFormIsForm, FormOfIsForm DEF OpenForm, Opens, MaybeForm
<1>4. ASSUME NEW d \in Curator, CloseForm(d)
      PROVE  CatalogueShapes'
  BY <1>4, FormsSame, EmptyFormIsForm, FormOfIsForm DEF CloseForm, Opens
<1>5. ASSUME NEW d \in Curator, NEW c \in Fields, ChangeField(d, c)
      PROVE  CatalogueShapes'
  <2>1. PICK v \in CASE c = Published -> BOOLEAN
                     [] c = Image     -> {d, "blank"} \cup uploads
                     [] c = Icon      -> {d, "first"}
                     [] OTHER         -> {d, "blank"} :
          values' = [values EXCEPT ![d][c] = v]
    BY <1>5 DEF ChangeField
  <2>2. v \in Values(c) /\ (c = Image => v \notin Photo \/ v \in uploads)
    BY <2>1, PhotoAssumption, FieldsOfKinds DEF Values, Typed
  <2>3. [values[d] EXCEPT ![c] = v] \in Form
    BY <2>2, FieldChanged
  <2>4. values' \in [Curator -> Form]
    BY <2>1, <2>3
  <2>5. changes' \in 0..MaxChanges
    BY <1>5, ChangesAssumption DEF ChangeField
  <2>. QED
    BY <1>5, <2>4, <2>5, FormsSame DEF ChangeField
<1>6. ASSUME NEW d \in Curator, SubmitForm(d)
      PROVE  CatalogueShapes'
  <2>1. sentCalls' \in 0..MaxCalls
    BY <1>6, ChangesAssumption DEF SubmitForm, Calls
  <2>. QED
    BY <1>6, <2>1, FormsSame DEF SubmitForm, Calls, CallShape, MaybeForm
<1>7. ASSUME NEW d \in Curator, UploadPicked(d)
      PROVE  CatalogueShapes'
  <2>1. PICK p \in Photo \ uploads :
          /\ uploads' = uploads \cup {p}
          /\ call' = [call EXCEPT ![d].sent[Image] = ImageId(call[d].sent, p), ![d].step = "sent"]
    BY <1>7 DEF UploadPicked
  <2>2. /\ Fields' = Fields /\ Form \subseteq Form' /\ MaybeForm \subseteq MaybeForm'
        /\ CallShape \subseteq CallShape'
    BY <1>7, <2>1, FormsStand DEF UploadPicked
  <2>3. call[d].sent \in Form /\ call[d].sent \in Form' /\ Image \in Fields'
    BY <1>7, <2>2 DEF UploadPicked, CallShape
  <2>4. [call[d].sent EXCEPT ![Image] = p] \in Form'
    <3>1. p \in Values(Image) /\ p \in AnyValue /\ p \in uploads'
      BY <2>1, FieldsOfKinds DEF Values, AnyValue
    <3>. QED
      BY <2>3, <3>1 DEF Form
  <2>5. call'[d] = [call[d] EXCEPT !.sent = [call[d].sent EXCEPT ![Image] = p], !.step = "sent"]
    BY <2>1 DEF ImageId, CallShape
  <2>6. \A e \in Curator \ {d} : call'[e] = call[e]
    BY <2>1
  <2>. QED
    BY <1>7, <2>1, <2>2, <2>4, <2>5, <2>6 DEF UploadPicked, CallShape, MaybeForm
<1>8. ASSUME NEW d \in Curator, TogglePublished(d)
      PROVE  CatalogueShapes'
  <2>1. sentCalls' \in 0..MaxCalls
    BY <1>8, ChangesAssumption DEF TogglePublished, Calls
  <2>2. [listed[d] EXCEPT ![Published] = ~@] \in Form
    BY <1>8, FieldsOfKinds, FieldChanged DEF TogglePublished, MaybeForm, Values
  <2>. QED
    BY <1>8, <2>1, <2>2, FormsSame DEF TogglePublished, Calls, CallShape, MaybeForm
<1>9. ASSUME NEW d \in Curator, ReadEntry(d)
      PROVE  CatalogueShapes'
  <2>1. entry \in Form /\ call[d] \in CallShape
    BY <1>9 DEF ReadEntry, MaybeForm
  <2>2. call'[d] = [of |-> call[d].of, step |-> "read", sent |-> call[d].sent,
                    seen |-> call[d].seen, base |-> entry]
    BY <1>9, <2>1 DEF ReadEntry, CallShape
  <2>3. \A e \in Curator \ {d} : call'[e] = call[e]
    BY <1>9 DEF ReadEntry
  <2>4. call'[d] \in CallShape
    BY <2>1, <2>2 DEF CallShape, MaybeForm
  <2>5. DOMAIN call' = Curator /\ call' = [e \in Curator |-> call'[e]]
    BY <1>9 DEF ReadEntry
  <2>6. call' \in [Curator -> CallShape]
    BY <2>3, <2>4, <2>5
  <2>7. \A e \in Curator : CallHolds(e)'
    BY <1>9, <2>1, <2>2, <2>3, FormsSame DEF ReadEntry
  <2>. QED
    BY <1>9, <2>6, <2>7, FormsSame DEF ReadEntry
<1>10. ASSUME NEW d \in Curator, WriteEntry(d)
       PROVE  CatalogueShapes'
  <2>1. call[d].sent \in Form /\ call[d].base \in Form
    BY <1>10 DEF WriteEntry
  <2>2. entry' \in Form
    BY <1>10, <2>1, MergedIsForm DEF WriteEntry
  <2>3. worn' \subseteq uploads
    BY <1>10, <2>2, WearsUploads DEF WriteEntry
  <2>. QED
    BY <1>10, <2>2, <2>3, AnsweredShapes, CallEnds, FormsSame DEF WriteEntry, MaybeForm
<1>11. ASSUME NEW d \in Curator, WriteToggle(d)
       PROVE  CatalogueShapes'
  <2>1. call[d].sent \in Form /\ entry \in Form /\ Published \in Fields
    BY <1>11, FieldsOfKinds DEF WriteToggle, MaybeForm
  <2>2. call[d].sent[Published] \in Values(Published) /\ Published # Image
    BY <2>1, FieldsOfKinds DEF Form
  <2>3. entry' \in Form
    BY <1>11, <2>1, <2>2, FieldChanged DEF WriteToggle
  <2>. QED
    BY <1>11, <2>3, CallEnds, FormsSame DEF WriteToggle, MaybeForm
<1>12. ASSUME NEW d \in Curator, CreateEntry(d)
       PROVE  CatalogueShapes'
  <2>1. call[d].sent \in Form
    BY <1>12 DEF CreateEntry
  <2>2. entry' \in MaybeForm
    BY <1>12, <2>1 DEF CreateEntry, MaybeForm
  <2>3. worn' \subseteq uploads
    BY <1>12, <2>1, WearsUploads DEF CreateEntry
  <2>. QED
    BY <1>12, <2>2, <2>3, AnsweredShapes, CallEnds, FormsSame DEF CreateEntry
<1>13. ASSUME NEW d \in Curator, CallFails(d)
       PROVE  CatalogueShapes'
  <2>1. failures' \in Nat
    BY <1>13 DEF CallFails
  <2>. QED
    BY <1>13, <2>1, CallEnds, FormsSame DEF CallFails
<1>14. ASSUME NEW d \in Curator, RemoveEntry(d)
       PROVE  CatalogueShapes'
  BY <1>14, FormsSame DEF RemoveEntry, MaybeForm
<1>. QED
  BY <1>1, <1>2, <1>3, <1>4, <1>5, <1>6, <1>7, <1>8, <1>9, <1>10, <1>11, <1>12, <1>13, <1>14
     DEF CatalogueNext

-----------------------------------------------------------------------------
(* Counting the requests and the files *)

\* A request is counted once: as it is sent, then under way or failed.
LEMMA BusyCounted ==
  ASSUME CatalogueInv, [CatalogueNext]_catalogueVars
  PROVE  failures' + Cardinality(Busy') <= sentCalls'
<1>1. IsFiniteSet(Busy) /\ Cardinality(Busy) \in Nat /\ failures \in Nat /\ sentCalls \in Nat
  BY PeopleAssumption, FS_Subset, FS_CardinalityType, ChangesAssumption
     DEF Busy, CatalogueInv, CatalogueShapes
<1>2. failures + Cardinality(Busy) <= sentCalls
  BY DEF CatalogueInv
<1>3. call \in [Curator -> CallShape] /\ \A d \in Curator : CallHolds(d)
  BY DEF CatalogueInv, CatalogueShapes
<1>4. CASE Busy' = Busy /\ failures' = failures /\ sentCalls' = sentCalls
  BY <1>2, <1>4
<1>5. ASSUME NEW d \in Curator, NEW of, NEW s, NEW what, NEW seen,
             Calls(d, of, s, what, seen), failures' = failures
      PROVE  failures' + Cardinality(Busy') <= sentCalls'
  <2>1. d \notin Busy /\ Busy' \subseteq Busy \cup {d} /\ sentCalls' = sentCalls + 1
    BY <1>3, <1>5 DEF Calls, Busy, Idle
  <2>2. /\ IsFiniteSet(Busy \cup {d}) /\ Cardinality(Busy \cup {d}) = Cardinality(Busy) + 1
    BY <1>1, <2>1, FS_AddElement
  <2>3. Cardinality(Busy') \in Nat /\ Cardinality(Busy') <= Cardinality(Busy) + 1
    BY <2>1, <2>2, FS_Subset, FS_CardinalityType
  <2>. QED
    BY <1>1, <1>2, <1>5, <2>1, <2>3
<1>6. ASSUME NEW d \in Busy, call' = [call EXCEPT ![d] = Idle], sentCalls' = sentCalls,
             failures' \in {failures, failures + 1}
      PROVE  failures' + Cardinality(Busy') <= sentCalls'
  <2>1. Busy' = Busy \ {d}
    BY <1>3, <1>6 DEF Busy, Idle
  <2>2. Cardinality(Busy') = Cardinality(Busy) - 1
    BY <1>1, <2>1, FS_RemoveElement
  <2>. QED
    BY <1>1, <1>2, <1>6, <2>2
<1>7. CASE UNCHANGED catalogueVars
  BY <1>4, <1>7 DEF catalogueVars, Busy
<1>8. ASSUME NEW d \in Curator,
             \/ FetchList(d) \/ OpenForm(d) \/ CloseForm(d) \/ RemoveEntry(d)
             \/ \E c \in Fields \cap Touched[entryKind] : ChangeField(d, c)
      PROVE  failures' + Cardinality(Busy') <= sentCalls'
  <2>1. call' = call /\ failures' = failures /\ sentCalls' = sentCalls
    BY <1>8 DEF FetchList, OpenForm, CloseForm, RemoveEntry, ChangeField
  <2>. QED
    BY <1>4, <2>1 DEF Busy
<1>9. ASSUME NEW d \in Curator, UploadPicked(d) \/ ReadEntry(d)
      PROVE  failures' + Cardinality(Busy') <= sentCalls'
  <2>1. failures' = failures /\ sentCalls' = sentCalls
    BY <1>9 DEF UploadPicked, ReadEntry
  <2>2. \A e \in Curator : call'[e].of = call[e].of
    BY <1>3, <1>9 DEF UploadPicked, ReadEntry, CallShape
  <2>. QED
    BY <1>4, <2>1, <2>2 DEF Busy
<1>10. ASSUME NEW d \in Curator, SubmitForm(d) \/ TogglePublished(d)
       PROVE  failures' + Cardinality(Busy') <= sentCalls'
  BY <1>5, <1>10 DEF SubmitForm, TogglePublished
<1>11. ASSUME NEW d \in Curator, WriteEntry(d) \/ WriteToggle(d) \/ CreateEntry(d)
       PROVE  failures' + Cardinality(Busy') <= sentCalls'
  <2>1. /\ d \in Busy /\ call' = [call EXCEPT ![d] = Idle]
        /\ failures' = failures /\ sentCalls' = sentCalls
    BY <1>11 DEF WriteEntry, WriteToggle, CreateEntry, Answered, Busy
  <2>. QED
    BY <1>6, <2>1
<1>12. ASSUME NEW d \in Curator, CallFails(d)
       PROVE  failures' + Cardinality(Busy') <= sentCalls'
  <2>1. /\ call' = [call EXCEPT ![d] = Idle]
        /\ failures' \in {failures, failures + 1} /\ sentCalls' = sentCalls
    BY <1>12 DEF CallFails
  <2>2. CASE d \in Busy
    BY <1>6, <2>1, <2>2
  <2>3. CASE d \notin Busy
    <3>1. d \notin Saving
      BY <2>3 DEF Saving, Busy
    <3>2. Busy' = Busy
      BY <1>3, <2>1, <2>3 DEF Busy, Idle
    <3>. QED
      BY <1>4, <1>12, <3>1, <3>2 DEF CallFails
  <2>. QED
    BY <2>2, <2>3
<1>. QED
  BY <1>7, <1>8, <1>9, <1>10, <1>11, <1>12 DEF CatalogueNext

\* A file is no more astray than it was, where every save that brought one has
\* put it on a row or brings it still.
LEMMA StraysShrink ==
  ASSUME UNCHANGED entryKind,
         \A q \in uploads' \ worn' :
           q \in uploads \ worn \/ \E e \in Saving' : call'[e].sent[Image] = q,
         \A e \in Saving :
           \/ call[e].sent[Image] \in worn'
           \/ e \in Saving' /\ call'[e].sent[Image] = call[e].sent[Image]
  PROVE  Strays' \subseteq Strays
<1> SUFFICES ASSUME NEW q \in Strays' PROVE q \in Strays
  OBVIOUS
<1>1. q \in uploads' /\ q \notin worn' /\ \A e \in Saving' : call'[e].sent[Image] # q
  BY DEF Strays
<1>2. q \in uploads \ worn
  BY <1>1
<1>3. \A e \in Saving : call[e].sent[Image] # q
  BY <1>1
<1>. QED
  BY <1>2, <1>3 DEF Strays

LEMMA SavingOthers ==
  ASSUME UNCHANGED entryKind, NEW e \in Curator, call'[e] = call[e]
  PROVE  e \in Saving' <=> (e \in Curator /\ call[e].of \in {"edit", "create"}
                            /\ call[e].step \in {"sent", "read"}
                            /\ Image \in Fields /\ call[e].sent[Image] \in Photo \ worn')
BY DEF Saving, Fields

LEMMA StraysCounted ==
  ASSUME CatalogueInv, [CatalogueNext]_catalogueVars
  PROVE  Cardinality(Strays') <= failures'
<1>. USE DEF CatalogueShapes
<1>1. CatalogueShapes /\ CatalogueShapes'
  BY ShapesNext DEF CatalogueInv
<1>2. IsFiniteSet(Strays) /\ Cardinality(Strays) \in Nat /\ Cardinality(Strays) <= failures
  BY <1>1, PeopleAssumption, FS_Subset, FS_CardinalityType DEF Strays, CatalogueInv
<1>3. ASSUME Strays' \subseteq Strays, failures' = failures
      PROVE  Cardinality(Strays') <= failures'
  BY <1>1, <1>2, <1>3, FS_Subset, FS_CardinalityType
<1>4. entryKind' = entryKind /\ Fields' = Fields
  BY DEF CatalogueNext, catalogueVars, FetchList, OpenForm, CloseForm, ChangeField, SubmitForm,
         UploadPicked, TogglePublished, ReadEntry, WriteEntry, WriteToggle, CreateEntry,
         CallFails, RemoveEntry, Fields
<1>5. CASE UNCHANGED <<call, uploads, worn, failures>>
  BY <1>3, <1>4, <1>5 DEF Strays, Saving
<1>6. ASSUME NEW d \in Curator, \A e \in Curator \ {d} : call'[e] = call[e],
             UNCHANGED <<uploads, worn, failures>>,
             d \in Saving => d \in Saving' /\ call'[d].sent[Image] = call[d].sent[Image]
      PROVE  Cardinality(Strays') <= failures'
  BY <1>3, <1>4, <1>6, StraysShrink, SavingOthers DEF Saving
<1>7. ASSUME NEW d \in Curator, \A e \in Curator \ {d} : call'[e] = call[e],
             UNCHANGED <<uploads, failures>>, worn \subseteq worn',
             d \in Saving => call[d].sent[Image] \in worn'
      PROVE  Cardinality(Strays') <= failures'
  <2>1. \A e \in Saving :
          \/ call[e].sent[Image] \in worn'
          \/ e \in Saving' /\ call'[e].sent[Image] = call[e].sent[Image]
    BY <1>4, <1>7, SavingOthers DEF Saving
  <2>. QED
    BY <1>3, <1>4, <1>7, <2>1, StraysShrink
<1>8. ASSUME NEW d \in Curator, SubmitForm(d) \/ TogglePublished(d)
      PROVE  Cardinality(Strays') <= failures'
  BY <1>1, <1>6, <1>8 DEF SubmitForm, TogglePublished, Calls, Saving, Idle
<1>9. ASSUME NEW d \in Curator, UploadPicked(d)
      PROVE  Cardinality(Strays') <= failures'
  <2>1. PICK p \in Photo \ uploads :
          /\ uploads' = uploads \cup {p}
          /\ call' = [call EXCEPT ![d].sent[Image] = ImageId(call[d].sent, p), ![d].step = "sent"]
    BY <1>9 DEF UploadPicked
  <2>2. /\ call[d].step = "upload" /\ call[d].of \in {"edit", "create"} /\ Image \in Fields
        /\ call[d].sent \in Form /\ worn' = worn /\ failures' = failures
    BY <1>1, <1>9 DEF UploadPicked, CallHolds
  <2>3. /\ call'[d].sent[Image] = p /\ call'[d].of = call[d].of /\ call'[d].step = "sent"
        /\ \A e \in Curator \ {d} : call'[e] = call[e]
    BY <1>1, <2>1, <2>2 DEF ImageId, CallShape, Form
  <2>4. d \in Saving' /\ d \notin Saving
    BY <1>1, <1>4, <2>1, <2>2, <2>3 DEF Saving
  <2>5. \A e \in Saving : e \in Saving' /\ call'[e].sent[Image] = call[e].sent[Image]
    BY <1>4, <2>2, <2>3, <2>4, SavingOthers DEF Saving
  <2>6. Strays' \subseteq Strays
    BY <1>4, <2>1, <2>2, <2>3, <2>4, <2>5, StraysShrink
  <2>. QED
    BY <1>3, <2>2, <2>6
<1>10. ASSUME NEW d \in Curator, ReadEntry(d)
       PROVE  Cardinality(Strays') <= failures'
  <2>1. /\ \A e \in Curator \ {d} : call'[e] = call[e]
        /\ call'[d].sent = call[d].sent /\ call'[d].of = call[d].of /\ call'[d].step = "read"
        /\ UNCHANGED <<uploads, worn, failures>>
    BY <1>1, <1>10 DEF ReadEntry, CallShape
  <2>2. d \in Saving => d \in Saving' /\ call'[d].sent[Image] = call[d].sent[Image]
    BY <1>4, <2>1 DEF Saving
  <2>. QED
    BY <1>6, <2>1, <2>2
<1>11. ASSUME NEW d \in Curator, WriteEntry(d)
       PROVE  Cardinality(Strays') <= failures'
  <2>1. /\ call' = [call EXCEPT ![d] = Idle] /\ UNCHANGED <<uploads, failures>>
        /\ Wears(entry') /\ call[d].sent \in Form /\ call[d].base \in Form
        /\ entry' = [c \in Fields |-> Merged(call[d].base, call[d].sent, c)]
    BY <1>1, <1>11 DEF WriteEntry, Answered, CallHolds
  <2>2. Image \in Fields => entry'[Image] = call[d].sent[Image]
    BY <1>1, <2>1, MergedIsForm
  <2>3. worn \subseteq worn' /\ (d \in Saving => call[d].sent[Image] \in worn')
    BY <2>1, <2>2 DEF Wears, Saving
  <2>. QED
    BY <1>1, <1>7, <2>1, <2>3
<1>12. ASSUME NEW d \in Curator, CreateEntry(d)
       PROVE  Cardinality(Strays') <= failures'
  <2>1. call' = [call EXCEPT ![d] = Idle] /\ UNCHANGED <<uploads, failures>> /\ Wears(call[d].sent)
    BY <1>12 DEF CreateEntry, Answered
  <2>2. worn \subseteq worn' /\ (d \in Saving => call[d].sent[Image] \in worn')
    BY <2>1 DEF Wears, Saving
  <2>. QED
    BY <1>1, <1>7, <2>1, <2>2
<1>13. ASSUME NEW d \in Curator, WriteToggle(d)
       PROVE  Cardinality(Strays') <= failures'
  <2>1. call' = [call EXCEPT ![d] = Idle] /\ UNCHANGED <<uploads, failures, worn>> /\ d \notin Saving
    BY <1>13 DEF WriteToggle, Saving
  <2>. QED
    BY <1>1, <1>7, <2>1
<1>14. ASSUME NEW d \in Curator, CallFails(d)
       PROVE  Cardinality(Strays') <= failures'
  <2>1. call' = [call EXCEPT ![d] = Idle] /\ UNCHANGED <<uploads, worn>>
    BY <1>14 DEF CallFails
  <2>2. CASE d \notin Saving
    BY <1>1, <1>7, <1>14, <2>1, <2>2 DEF CallFails
  <2>3. CASE d \in Saving
    <3>. DEFINE p == call[d].sent[Image]
    <3>1. failures' = failures + 1
      BY <1>14, <2>3 DEF CallFails
    <3>2. \A e \in Saving \ {d} : e \in Saving' /\ call'[e].sent[Image] = call[e].sent[Image]
      BY <1>1, <1>4, <2>1, SavingOthers DEF Saving
    <3>3. Strays' \subseteq Strays \cup {p}
      BY <2>1, <3>2 DEF Strays
    <3>4. IsFiniteSet(Strays \cup {p}) /\ Cardinality(Strays \cup {p}) <= Cardinality(Strays) + 1
      <4>1. p \in Strays => Strays \cup {p} = Strays
        OBVIOUS
      <4>2. p \notin Strays =>
              /\ IsFiniteSet(Strays \cup {p})
              /\ Cardinality(Strays \cup {p}) = Cardinality(Strays) + 1
        BY <1>2, FS_AddElement
      <4>. HIDE DEF p
      <4>3. CASE p \in Strays
        <5>1. Cardinality(Strays \cup {p}) = Cardinality(Strays) /\ IsFiniteSet(Strays \cup {p})
          BY <1>2, <4>1, <4>3
        <5>. QED
          BY <1>2, <5>1
      <4>. QED
        BY <1>2, <4>2, <4>3
    <3>5. /\ Cardinality(Strays') <= Cardinality(Strays \cup {p})
          /\ Cardinality(Strays') \in Nat /\ Cardinality(Strays \cup {p}) \in Nat
      BY <3>3, <3>4, FS_Subset, FS_CardinalityType
    <3>. QED
      BY <1>1, <1>2, <3>1, <3>4, <3>5
  <2>. QED
    BY <2>2, <2>3
<1>15. ASSUME NEW d \in Curator,
              \/ FetchList(d) \/ OpenForm(d) \/ CloseForm(d) \/ RemoveEntry(d)
              \/ \E c \in Fields \cap Touched[entryKind] : ChangeField(d, c)
       PROVE  Cardinality(Strays') <= failures'
  BY <1>5, <1>15 DEF FetchList, OpenForm, CloseForm, RemoveEntry, ChangeField
<1>16. CASE UNCHANGED catalogueVars
  BY <1>5, <1>16 DEF catalogueVars
<1>. QED
  BY <1>8, <1>9, <1>10, <1>11, <1>12, <1>13, <1>14, <1>15, <1>16 DEF CatalogueNext

LEMMA CatalogueNextInv ==
  ASSUME CatalogueInv, [CatalogueNext]_catalogueVars
  PROVE  CatalogueInv'
BY ShapesNext, BusyCounted, StraysCounted DEF CatalogueInv

-----------------------------------------------------------------------------
(* What they show *)

\* As many files are brought by saves as are unused and not astray.
LEMMA CatalogueStands == CatalogueInv => CatalogueTypeOK /\ FewStrays
<1> SUFFICES ASSUME CatalogueInv PROVE CatalogueTypeOK /\ FewStrays
  OBVIOUS
<1>1. CatalogueShapes
  BY DEF CatalogueInv
<1>2. CatalogueTypeOK
  <2>1. failures \in 0..MaxCalls
    <3>1. /\ Cardinality(Busy) \in Nat /\ failures \in Nat /\ sentCalls \in 0..MaxCalls
          /\ failures + Cardinality(Busy) <= sentCalls
      BY <1>1, PeopleAssumption, FS_Subset, FS_CardinalityType
         DEF Busy, CatalogueInv, CatalogueShapes
    <3>. QED
      BY <3>1, ChangesAssumption
  <2>. QED
    BY <1>1, <2>1, FormIsRow DEF CatalogueShapes, CatalogueTypeOK, MaybeForm, CallShape
<1>3. FewStrays
  <2>. DEFINE brings(d) == call[d].sent[Image]
              Brought == {brings(d) : d \in Saving}
  <2>1. IsFiniteSet(Saving) /\ Cardinality(Saving) \in Nat
    BY PeopleAssumption, FS_Subset, FS_CardinalityType DEF Saving
  <2>2. IsFiniteSet(Brought) /\ Cardinality(Brought) <= Cardinality(Saving)
    <3>1. [d \in Saving |-> brings(d)] \in Surjection(Saving, Brought)
      BY DEF Surjection
    <3>. QED
      BY <2>1, <3>1, FS_Surjection
  <2>3. IsFiniteSet(Strays)
    BY <1>1, PeopleAssumption, FS_Subset DEF Strays, CatalogueShapes
  <2>4. uploads \ worn \subseteq Strays \cup Brought
    BY DEF Strays
  <2>5. /\ IsFiniteSet(Strays \cup Brought)
        /\ Cardinality(Strays \cup Brought) <= Cardinality(Strays) + Cardinality(Brought)
    <3>1. Cardinality(Strays \cup Brought) =
            Cardinality(Strays) + Cardinality(Brought) - Cardinality(Strays \cap Brought)
      BY <2>2, <2>3, FS_Union
    <3>2. IsFiniteSet(Strays \cap Brought) /\ IsFiniteSet(Strays \cup Brought)
      BY <2>2, <2>3, FS_Union, FS_Intersection
    <3>. HIDE DEF Brought
    <3>. QED
      BY <2>2, <2>3, <3>1, <3>2, FS_CardinalityType
  <2>6. Cardinality(uploads \ worn) <= Cardinality(Strays \cup Brought)
    BY <2>4, <2>5, FS_Subset
  <2>7. /\ Cardinality(uploads \ worn) \in Nat /\ Cardinality(Strays) \in Nat
        /\ Cardinality(Brought) \in Nat /\ Cardinality(Strays \cup Brought) \in Nat
    BY <2>2, <2>3, <2>4, <2>5, FS_Subset, FS_CardinalityType
  <2>8. failures \in Nat /\ Cardinality(Strays) <= failures
    BY DEF CatalogueInv, CatalogueShapes
  <2>. HIDE DEF Brought
  <2>. QED
    BY <2>1, <2>2, <2>5, <2>6, <2>7, <2>8 DEF FewStrays
<1>. QED
  BY <1>2, <1>3

\* A field is written by somebody who meant it, or who was shown something else.
LEMMA EntryKept ==
  ASSUME CatalogueInv, CatalogueNext, entry # NoEntry, entry' # NoEntry,
         NEW c \in Fields, entry'[c] # entry[c]
  PROVE  \E d \in Curator :
           /\ WritesNow(d) /\ (Authored(d, c) \/ Fills(c))
           /\ (c \in Title \cup More /\ entry'[c] = "blank") => Erases(d, c)
<1>1. CatalogueShapes
  BY DEF CatalogueInv
<1>2. ASSUME NEW d \in Curator, WriteEntry(d)
      PROVE  /\ WritesNow(d) /\ (Authored(d, c) \/ Fills(c))
             /\ (c \in Title \cup More /\ entry'[c] = "blank") => Erases(d, c)
  <2>1. WritesNow(d)
    BY <1>1, <1>2 DEF WriteEntry, Answered, WritesNow, CatalogueShapes
  <2>2. entry'[c] = Merged(call[d].base, call[d].sent, c)
    BY <1>2 DEF WriteEntry
  <2>. QED
    BY <2>1, <2>2 DEF Merged, Authored, Fills, FormOf, Erases, Cleared
<1>3. ASSUME NEW d \in Curator, WriteToggle(d)
      PROVE  /\ WritesNow(d) /\ (Authored(d, c) \/ Fills(c))
             /\ (c \in Title \cup More /\ entry'[c] = "blank") => Erases(d, c)
  <2>1. WritesNow(d)
    BY <1>1, <1>3 DEF WriteToggle, WritesNow, CatalogueShapes
  <2>2. c = Published /\ entry'[c] = call[d].sent[c]
    BY <1>1, <1>3 DEF WriteToggle, CatalogueShapes, MaybeForm, Form
  <2>3. c \notin Title \cup More /\ c # Icon
    BY <1>1, <2>2, FieldsOfKinds DEF CatalogueShapes
  <2>. QED
    BY <2>1, <2>2, <2>3 DEF Authored, FormOf
<1>4. ASSUME NEW d \in Curator
      PROVE  ~CreateEntry(d) /\ ~RemoveEntry(d)
  BY DEF CreateEntry, RemoveEntry
<1>5. PICK d \in Curator : WriteEntry(d) \/ WriteToggle(d)
  BY <1>4 DEF CatalogueNext, FetchList, OpenForm, CloseForm, ChangeField, SubmitForm,
              UploadPicked, TogglePublished, ReadEntry, CallFails
<1>. QED
  BY <1>2, <1>3, <1>5

-----------------------------------------------------------------------------
(* The order of a list *)

\* Ages are transitive; of a creation under way the row is not there yet and is
\* nobody else's, and its position is after all the others unless it was outrun;
\* a move sends what its screen shows with two neighbours swapped.
OrderRequestHolds(s) ==
  /\ request[s] = "create" =>
       /\ subject[s] \in known \ present
       /\ \A t \in Screen \ {s} : request[t] = "create" => subject[t] # subject[s]
       /\ s \notin outrun => \A p \in present : order[p] < number[s]
  /\ request[s] = "move" => \E i \in 1..(Len(shown[s]) - 1) : ids[s] = Swapped(shown[s], i)

OrderedInv ==
  /\ OrderedTypeOK /\ IsFiniteSet(present)
  /\ \A p, q, r \in present : <<p, q>> \in older /\ <<q, r>> \in older => <<p, r>> \in older
  /\ \A s \in Screen : OrderRequestHolds(s)

\* A finite set of positions that is not empty has a greatest one.
LEMMA LastPosition ==
  ASSUME NEW S, IsFiniteSet(S), S # {}, S \subseteq Nat
  PROVE  \E m \in S : \A x \in S : x <= m
<1> DEFINE Above(x) == {y \in S : x <= y}
           T == {Above(x) : x \in S}
<1>1. T \subseteq FiniteSubsetsOf(S)
  BY FS_Subset DEF FiniteSubsetsOf
<1>2. T # {}
  OBVIOUS
<1>3. PICK A \in T : \A B \in T : <<B, A>> \notin StrictSubsetOrdering(S)
  <2> HIDE DEF T, Above
  <2>. QED
    BY <1>1, <1>2, FS_StrictSubsetOrderingWellFounded, WFMin
<1>4. PICK m \in S : A = Above(m)
  BY Zenon
<1>5. ASSUME NEW x \in S, ~(x <= m)
      PROVE  FALSE
  <2>1. \A y \in S : x <= y => m <= y
    BY <1>5
  <2>2. Above(x) \subseteq Above(m)
    BY <2>1, Zenon
  <2>3. m <= m
    OBVIOUS
  <2>4. <<Above(x), A>> \notin StrictSubsetOrdering(S)
    BY <1>3, Zenon
  <2>5. Above(x) = Above(m)
    BY <1>4, <2>2, <2>4 DEF StrictSubsetOrdering
  <2>. QED
    BY <1>5, <2>3, <2>5, Zenon
<1>. QED
  BY <1>5, Zenon

LEMMA NextOrderIsNext ==
  ASSUME present \subseteq Partner, order \in [Partner -> Nat], IsFiniteSet(present)
  PROVE  NextOrder \in Nat /\ \A p \in present : order[p] < NextOrder
<1> DEFINE S == {order[p] : p \in present}
<1>1. CASE present = {}
  BY <1>1 DEF NextOrder
<1>2. CASE present # {}
  <2>1. S # {} /\ S \subseteq Nat
    BY <1>2
  <2>2. IsFiniteSet(S)
    <3> DEFINE f == [p \in present |-> order[p]]
    <3>1. f \in Surjection(present, S)
      BY DEF Surjection
    <3>. QED
      BY <3>1, FS_Surjection
  <2>3. \E m \in S : \A x \in S : x <= m
    <3> HIDE DEF S
    <3>. QED
      BY <2>1, <2>2, LastPosition
  <2>4. Max(S) \in S /\ \A x \in S : Max(S) >= x
    <3>1. \E m \in S : \A x \in S : m >= x
      BY <2>1, <2>3
    <3> HIDE DEF S
    <3>. QED
      BY <3>1 DEF Max
  <2>5. NextOrder = Max(S) + 1
    BY <1>2 DEF NextOrder
  <2>6. Max(S) \in Nat /\ \A p \in present : order[p] \in S /\ order[p] \in Nat
    BY <2>1, <2>4
  <2>7. ASSUME NEW p \in present PROVE order[p] < Max(S) + 1
    <3>1. Max(S) >= order[p]
      BY <2>4, <2>6
    <3>. QED
      BY <2>6, <3>1
  <2>. QED
    BY <2>5, <2>6, <2>7
<1>. QED
  BY <1>1, <1>2

LEMMA ListFacts ==
  ASSUME NEW l, l \in Lists
  PROVE  /\ Len(l) \in Nat /\ DOMAIN l = 1..Len(l)
         /\ \A i \in 1..Len(l) : l[i] \in known
         /\ \A i, j \in 1..Len(l) : l[i] = l[j] => i = j
<1>1. l \in Seq(known)
  BY DEF Lists
<1>2. Len(l) \in Nat /\ DOMAIN l = 1..Len(l) /\ \A i \in 1..Len(l) : l[i] \in known
  BY <1>1
<1>. QED
  BY <1>2 DEF Lists, IsInjective

LEMMA SwappedFacts ==
  ASSUME NEW l, l \in Lists, NEW i \in 1..(Len(l) - 1)
  PROVE  /\ Swapped(l, i) \in Lists /\ ToSet(Swapped(l, i)) = ToSet(l)
         /\ Len(Swapped(l, i)) = Len(l)
         /\ Swapped(l, i) = Exchanged(l, i)
<1> DEFINE m == Swapped(l, i)
<1>1. /\ Len(l) \in Nat /\ DOMAIN l = 1..Len(l) /\ l \in Seq(known)
      /\ \A k \in 1..Len(l) : l[k] \in known
      /\ \A j, k \in 1..Len(l) : l[j] = l[k] => j = k
  BY ListFacts DEF Lists
<1>2. /\ i \in 1..Len(l) /\ i + 1 \in 1..Len(l) /\ i # i + 1
  BY <1>1
<1>3. /\ m \in Seq(known) /\ Len(m) = Len(l)
      /\ m[i] = l[i + 1] /\ m[i + 1] = l[i]
      /\ \A k \in 1..Len(l) \ {i, i + 1} : m[k] = l[k]
  BY <1>1, <1>2 DEF Swapped
<1>4. DOMAIN m = 1..Len(l)
  BY <1>1, <1>3
<1> HIDE DEF m
<1>5. \A j, k \in 1..Len(l) : m[j] = m[k] => j = k
  <2> SUFFICES ASSUME NEW j \in 1..Len(l), NEW k \in 1..Len(l), m[j] = m[k] PROVE j = k
    OBVIOUS
  <2>. QED
    BY <1>1, <1>2, <1>3
<1>6. IsInjective(m)
  BY <1>4, <1>5 DEF IsInjective
<1>7. ToSet(m) = ToSet(l)
  <2>1. ASSUME NEW x \in ToSet(m) PROVE x \in ToSet(l)
    <3>1. PICK k \in 1..Len(l) : x = m[k]
      BY <2>1, <1>4 DEF ToSet
    <3>2. x \in {l[k], l[i], l[i + 1]}
      BY <3>1, <1>2, <1>3
    <3>. QED
      BY <3>2, <1>1, <1>2 DEF ToSet
  <2>2. ASSUME NEW x \in ToSet(l) PROVE x \in ToSet(m)
    <3>1. PICK k \in 1..Len(l) : x = l[k]
      BY <2>2, <1>1 DEF ToSet
    <3>2. x \in {m[k], m[i], m[i + 1]}
      BY <3>1, <1>2, <1>3
    <3>. QED
      BY <3>2, <1>4, <1>2 DEF ToSet
  <2>. QED
    BY <2>1, <2>2
<1>8. m = Exchanged(l, i)
  BY DEF m, Swapped, Exchanged
<1>. QED
  BY <1>3, <1>6, <1>7, <1>8 DEF Lists, m

\* A list that is fetched shows each row once.
LEMMA ListedIsList ==
  ASSUME OrderedTypeOK, IsFiniteSet(present), NEW l \in Listed
  PROVE  l \in Lists /\ ToSet(l) = present /\ DOMAIN l = 1..Cardinality(present)
<1>1. Cardinality(present) \in Nat
  BY FS_CardinalityType
<1>2. /\ l \in [1..Cardinality(present) -> present] /\ ToSet(l) = present
      /\ \A i, j \in DOMAIN l : i < j => Before(l[i], l[j], order, older)
  BY DEF Listed
<1>3. l \in Seq(known)
  <2>1. present \subseteq known
    BY DEF OrderedTypeOK
  <2>. QED
    BY <1>1, <1>2, <2>1
<1>4. ASSUME NEW i \in DOMAIN l, NEW j \in DOMAIN l, l[i] = l[j], i < j
      PROVE  FALSE
  <2>1. l[i] \in present /\ order[l[i]] \in Nat /\ <<l[i], l[i]>> \notin older
    BY <1>2, <1>4 DEF OrderedTypeOK
  <2>. QED
    BY <1>2, <1>4, <2>1 DEF Before
<1>5. \A i, j \in DOMAIN l : l[i] = l[j] => i = j
  BY <1>1, <1>2, <1>4
<1>. QED
  BY <1>2, <1>3, <1>5 DEF Lists, IsInjective

LEMMA OrderedInitInv == OrderedInit => OrderedInv
<1> SUFFICES ASSUME OrderedInit PROVE OrderedInv
  OBVIOUS
<1>1. <<>> \in Lists
  BY DEF Lists, IsInjective
<1>2. IsFiniteSet({})
  BY FS_EmptySet
<1>. QED
  BY <1>1, <1>2 DEF OrderedInit, OrderedInv, OrderedTypeOK, OrderRequestHolds

\* A list stays one of rows that were created, whichever are known besides.
LEMMA OrderedNextInv ==
  ASSUME OrderedInv, [OrderedNext]_orderedVars
  PROVE  OrderedInv'
<1> USE DEF OrderedInv, partners, requests
<1>0. <<>> \in Lists /\ \A K : known \subseteq K => \A l \in Lists : l \in Seq(K)
  BY DEF Lists, IsInjective
<1>1. ASSUME NEW s \in Screen, List(s)
      PROVE  OrderedInv'
  <2>1. PICK l \in Listed : shown' = [shown EXCEPT ![s] = l]
    BY <1>1 DEF List
  <2>2. l \in Lists
    BY ListedIsList
  <2>3. \A t \in Screen : shown'[t] \in Lists /\ (t # s => shown'[t] = shown[t])
    BY <2>1, <2>2 DEF OrderedTypeOK
  <2>4. OrderedTypeOK'
    BY <1>1, <2>3 DEF List, OrderedTypeOK, Lists
  <2>. QED
    BY <1>1, <2>3, <2>4 DEF List, OrderRequestHolds
<1>2. ASSUME NEW s \in Screen, NEW p \in Partner, CreateReads(s, p)
      PROVE  OrderedInv'
  <2>1. NextOrder \in Nat /\ \A q \in present : order[q] < NextOrder
    BY NextOrderIsNext DEF OrderedTypeOK
  <2>2. Lists \subseteq Lists'
    BY <1>2 DEF CreateReads, Lists
  <2>3. OrderedTypeOK'
    BY <1>0, <1>2, <2>1, <2>2 DEF CreateReads, Put, OrderedTypeOK
  <2>4. /\ request'[s] = "create" /\ subject'[s] = p /\ number'[s] = NextOrder
        /\ \A t \in Screen \ {s} :
             request'[t] = request[t] /\ subject'[t] = subject[t] /\ number'[t] = number[t]
               /\ ids'[t] = ids[t]
    BY <1>2 DEF CreateReads, Put, OrderedTypeOK
  <2>5. OrderRequestHolds(s)'
    <3>1. p \notin present /\ p \in known' /\ UNCHANGED <<present, order>>
      BY <1>2 DEF CreateReads, OrderedTypeOK
    <3>2. \A t \in Screen \ {s} : request'[t] = "create" => subject'[t] # p
      BY <1>2, <2>4 DEF CreateReads, OrderRequestHolds
    <3>. QED
      BY <2>1, <2>4, <3>1, <3>2 DEF OrderRequestHolds
  <2>6. ASSUME NEW t \in Screen \ {s} PROVE OrderRequestHolds(t)'
    <3>1. request[t] = "create" => subject[t] # p
      BY <1>2 DEF CreateReads, OrderRequestHolds
    <3>. QED
      BY <1>2, <2>4, <3>1 DEF CreateReads, OrderRequestHolds
  <2>. QED
    BY <1>2, <2>3, <2>5, <2>6 DEF CreateReads
<1>3. ASSUME NEW s \in Screen, CreateWrites(s)
      PROVE  OrderedInv'
  <2> DEFINE p == subject[s]
  <2>1. p \in known \ present /\ p \in Partner /\ number[s] \in Nat
    BY <1>3 DEF CreateWrites, OrderRequestHolds, OrderedTypeOK
  <2>2. OrderedTypeOK'
    <3>1. /\ present' \subseteq known' /\ known' \subseteq Partner
          /\ older' \subseteq present' \X present'
          /\ order' \in [Partner -> Nat]
      BY <1>3, <2>1 DEF CreateWrites, OrderedTypeOK
    <3>2. \A q, r \in present' : <<q, r>> \in older' <=> q # r /\ <<r, q>> \notin older'
      BY <1>3, <2>1 DEF CreateWrites, OrderedTypeOK
    <3>3. \A t \in Screen : shown'[t] \in Lists' /\ ids'[t] \in Lists'
      BY <1>0, <1>3 DEF CreateWrites, Rest, Put, OrderedTypeOK, Lists
    <3>. QED
      BY <1>3, <3>1, <3>2, <3>3 DEF CreateWrites, Rest, Put, Outrun, OrderedTypeOK
  <2>3. IsFiniteSet(present')
    BY <1>3, FS_AddElement DEF CreateWrites
  <2>4. \A q, r, t \in present' : <<q, r>> \in older' /\ <<r, t>> \in older' => <<q, t>> \in older'
    BY <1>3, <2>1 DEF CreateWrites, OrderedTypeOK
  <2>5. /\ request'[s] = "none"
        /\ \A t \in Screen \ {s} :
             request'[t] = request[t] /\ subject'[t] = subject[t] /\ ids'[t] = ids[t]
    BY <1>3 DEF CreateWrites, Rest, Put, OrderedTypeOK
  <2>6. \A t \in Screen : request'[t] = "create" => t \in outrun'
    BY <1>3, <2>5 DEF CreateWrites, Outrun
  <2>7. \A t \in Screen : OrderRequestHolds(t)'
    BY <1>3, <2>5, <2>6 DEF CreateWrites, OrderRequestHolds
  <2>. QED
    BY <2>2, <2>3, <2>4, <2>7
<1>4. ASSUME NEW s \in Screen, NEW p \in Partner, RemovePartner(s, p)
      PROVE  OrderedInv'
  <2>1. OrderedTypeOK'
    BY <1>4 DEF RemovePartner, OrderedTypeOK, Lists, Outrun
  <2>2. IsFiniteSet(present')
    BY <1>4, FS_Subset DEF RemovePartner
  <2>3. \A q, r, t \in present' : <<q, r>> \in older' /\ <<r, t>> \in older' => <<q, t>> \in older'
    BY <1>4 DEF RemovePartner
  <2>4. p \in present => \A t \in Screen : request[t] = "create" => t \in outrun'
    BY <1>4 DEF RemovePartner, Outrun
  <2>5. \A q \in present' : q \in present /\ order'[q] = order[q]
    BY <1>4 DEF RemovePartner, OrderedTypeOK
  <2>6. \A t \in Screen : OrderRequestHolds(t)'
    BY <1>4, <2>4, <2>5 DEF RemovePartner, OrderRequestHolds
  <2>. QED
    BY <2>1, <2>2, <2>3, <2>6
<1>5. ASSUME NEW s \in Screen, NEW i \in 1..Len(shown[s]), Move(s, i)
      PROVE  OrderedInv'
  <2>1. shown[s] \in Lists /\ i \in 1..(Len(shown[s]) - 1)
    BY <1>5 DEF Move, OrderedTypeOK
  <2>2. Swapped(shown[s], i) \in Lists
    BY <2>1, SwappedFacts
  <2>3. /\ request'[s] = "move" /\ ids'[s] = Swapped(shown[s], i)
        /\ \A t \in Screen \ {s} :
             request'[t] = request[t] /\ subject'[t] = subject[t] /\ number'[t] = number[t]
               /\ ids'[t] = ids[t]
    BY <1>5 DEF Move, Put, OrderedTypeOK
  <2>4. OrderedTypeOK'
    <3>1. \A t \in Screen : shown'[t] \in Lists' /\ ids'[t] \in Lists'
      BY <1>5, <2>2, <2>3 DEF Move, OrderedTypeOK, Lists
    <3>. QED
      BY <1>5, <3>1 DEF Move, Put, OrderedTypeOK
  <2>5. \A t \in Screen : OrderRequestHolds(t)'
    BY <1>5, <2>1, <2>3 DEF Move, OrderRequestHolds
  <2>. QED
    BY <1>5, <2>4, <2>5 DEF Move
<1>6. ASSUME NEW s \in Screen, Reorder(s)
      PROVE  OrderedInv'
  <2>1. order' \in [Partner -> Nat]
    <3>1. \A p \in ToSet(ids[s]) : (CHOOSE i \in DOMAIN ids[s] : ids[s][i] = p) - 1 \in Nat
      <4>1. DOMAIN ids[s] = 1..Len(ids[s]) /\ Len(ids[s]) \in Nat
        BY ListFacts DEF OrderedTypeOK
      <4> SUFFICES ASSUME NEW p \in ToSet(ids[s])
                   PROVE  (CHOOSE i \in DOMAIN ids[s] : ids[s][i] = p) - 1 \in Nat
        OBVIOUS
      <4>2. \E i \in DOMAIN ids[s] : ids[s][i] = p
        BY DEF ToSet
      <4>3. (CHOOSE i \in DOMAIN ids[s] : ids[s][i] = p) \in DOMAIN ids[s]
        BY <4>2
      <4>. QED
        BY <4>1, <4>3
    <3>2. order \in [Partner -> Nat]
      BY DEF OrderedTypeOK
    <3>3. CASE ToSet(ids[s]) \subseteq present
      <4>1. order' = [p \in Partner |-> IF p \in ToSet(ids[s])
                                        THEN (CHOOSE i \in DOMAIN ids[s] : ids[s][i] = p) - 1
                                        ELSE order[p]]
        BY <1>6, <3>3 DEF Reorder
      <4>. QED
        BY <3>1, <3>2, <4>1
    <3>4. CASE ~(ToSet(ids[s]) \subseteq present)
      BY <1>6, <3>2, <3>4 DEF Reorder
    <3>. QED
      BY <3>3, <3>4
  <2>2. OrderedTypeOK'
    <3>1. \A t \in Screen : shown'[t] \in Lists' /\ ids'[t] \in Lists'
      BY <1>0, <1>6 DEF Reorder, Rest, Put, OrderedTypeOK, Lists
    <3>. QED
      BY <1>6, <2>1, <3>1 DEF Reorder, Rest, Put, Outrun, OrderedTypeOK
  <2>3. /\ request'[s] = "none"
        /\ \A t \in Screen \ {s} :
             request'[t] = request[t] /\ subject'[t] = subject[t] /\ number'[t] = number[t]
               /\ ids'[t] = ids[t]
    BY <1>6 DEF Reorder, Rest, Put, OrderedTypeOK
  <2>4. \/ UNCHANGED <<order, outrun>>
        \/ \A t \in Screen : request'[t] = "create" => t \in outrun'
    BY <1>6, <2>3 DEF Reorder, Outrun
  <2>5. \A t \in Screen : OrderRequestHolds(t)'
    BY <1>6, <2>3, <2>4 DEF Reorder, OrderRequestHolds
  <2>. QED
    BY <1>6, <2>2, <2>5 DEF Reorder
<1>7. CASE UNCHANGED orderedVars
  BY <1>7 DEF orderedVars, OrderedTypeOK, OrderRequestHolds, Lists
<1>. QED
  BY <1>1, <1>2, <1>3, <1>4, <1>5, <1>6, <1>7 DEF OrderedNext

\* A list of the rows that are there is numbered as it was sent.
LEMMA Renumbered ==
  ASSUME OrderedInv, NEW s \in Screen, Reorder(s), ToSet(ids[s]) \subseteq present
  PROVE  /\ ids[s] \in Lists
         /\ \A i \in 1..Len(ids[s]) : order'[ids[s][i]] = i - 1
<1> DEFINE l == ids[s]
<1>1. /\ l \in Lists /\ Len(l) \in Nat /\ DOMAIN l = 1..Len(l)
      /\ \A i, j \in 1..Len(l) : l[i] = l[j] => i = j
  BY ListFacts DEF OrderedInv, OrderedTypeOK
<1>2. order' = [p \in Partner |-> IF p \in ToSet(l)
                                  THEN (CHOOSE i \in DOMAIN l : l[i] = p) - 1 ELSE order[p]]
  BY DEF Reorder
<1>3. ASSUME NEW i \in 1..Len(l) PROVE order'[l[i]] = i - 1
  <2>1. l[i] \in ToSet(l) /\ l[i] \in Partner
    BY <1>1 DEF ToSet, OrderedInv, OrderedTypeOK
  <2>2. (CHOOSE j \in DOMAIN l : l[j] = l[i]) = i
    BY <1>1
  <2>. QED
    BY <1>2, <2>1, <2>2
<1>. QED
  BY <1>1, <1>3

\* A creation that was not outrun puts its row after all the others.
LEMMA NewComesLast ==
  ASSUME OrderedInv, [OrderedNext]_orderedVars, NEW s \in Screen,
         request[s] = "create", request'[s] = "none", s \notin outrun
  PROVE  /\ present' = present \cup {subject[s]} /\ subject[s] \notin present
         /\ OrderStays(present)
         /\ \A p \in present : Before(p, subject[s], order', older')
<1>1. CreateWrites(s)
  <2>1. request \in [Screen -> {"none", "create", "move"}]
    BY DEF OrderedInv, OrderedTypeOK
  <2>. QED
    BY <2>1 DEF OrderedNext, List, CreateReads, CreateWrites, RemovePartner, Move, Reorder, Rest,
                Put, requests, orderedVars
<1> DEFINE n == subject[s]
<1>2. /\ n \notin present /\ n \in Partner /\ order \in [Partner -> Nat] /\ number[s] \in Nat
      /\ \A p \in present : p \in Partner /\ order[p] < number[s]
      /\ older \subseteq present \X present
  BY DEF OrderedInv, OrderedTypeOK, OrderRequestHolds
<1>3. /\ present' = present \cup {n} /\ older' = older \cup (present \X {n})
      /\ order'[n] = number[s] /\ \A p \in present : order'[p] = order[p]
  BY <1>1, <1>2 DEF CreateWrites
<1>4. OrderStays(present)
  BY <1>2, <1>3 DEF OrderStays, Before
<1>5. \A p \in present : Before(p, n, order', older')
  BY <1>2, <1>3 DEF Before
<1>. QED
  BY <1>2, <1>3, <1>4, <1>5

\* A move numbers all the rows of its screen, or none.
LEMMA MoveIsAsSent ==
  ASSUME OrderedInv, [OrderedNext]_orderedVars, NEW s \in Screen,
         request[s] = "move", request'[s] = "none"
  PROVE  /\ IF ToSet(shown[s]) \subseteq present
            THEN /\ ToSet(ids[s]) = ToSet(shown[s])
                 /\ \A i, j \in DOMAIN ids[s] :
                      i < j => Before(ids[s][i], ids[s][j], order', older')
            ELSE OrderStays(present)
         /\ shown[s] \in Listed =>
              \E i \in 1..(Len(shown[s]) - 1) : Exchanged(shown[s], i) \in Listed'
<1>1. Reorder(s)
  <2>1. request \in [Screen -> {"none", "create", "move"}]
    BY DEF OrderedInv, OrderedTypeOK
  <2>2. ASSUME NEW t \in Screen, CreateWrites(t) \/ (Reorder(t) /\ t # s)
        PROVE  FALSE
    BY <2>1, <2>2 DEF CreateWrites, Reorder, Rest, Put
  <2>3. ASSUME NEW t \in Screen, List(t) \/ \E p \in Partner : RemovePartner(t, p)
        PROVE  FALSE
    BY <2>3 DEF List, RemovePartner, requests
  <2>4. ASSUME NEW t \in Screen,
               \/ \E p \in Partner : CreateReads(t, p)
               \/ \E i \in 1..Len(shown[t]) : Move(t, i)
        PROVE  FALSE
    BY <2>1, <2>4 DEF CreateReads, Move, Put
  <2>5. CASE UNCHANGED orderedVars
    BY <2>5 DEF orderedVars, requests
  <2>. QED
    BY <2>2, <2>3, <2>4, <2>5 DEF OrderedNext
<1>2. PICK k \in 1..(Len(shown[s]) - 1) : ids[s] = Swapped(shown[s], k)
  BY DEF OrderedInv, OrderRequestHolds
<1>3. /\ shown[s] \in Lists /\ ids[s] \in Lists /\ ToSet(ids[s]) = ToSet(shown[s])
      /\ Len(ids[s]) = Len(shown[s]) /\ ids[s] = Exchanged(shown[s], k)
  BY <1>2, SwappedFacts DEF OrderedInv, OrderedTypeOK
<1>4. Len(ids[s]) \in Nat /\ DOMAIN ids[s] = 1..Len(ids[s])
  BY <1>3, ListFacts
<1>5. present' = present /\ older' = older
  BY <1>1 DEF Reorder
<1>6. CASE ToSet(shown[s]) \subseteq present
  <2>1. \A i \in 1..Len(ids[s]) : order'[ids[s][i]] = i - 1
    BY <1>1, <1>3, <1>6, Renumbered
  <2>2. \A i, j \in DOMAIN ids[s] : i < j => Before(ids[s][i], ids[s][j], order', older')
    BY <1>4, <2>1 DEF Before
  <2>3. ASSUME shown[s] \in Listed PROVE ids[s] \in Listed'
    <3>1. /\ ToSet(shown[s]) = present /\ DOMAIN shown[s] = 1..Cardinality(present)
          /\ DOMAIN shown[s] = 1..Len(shown[s])
      BY <2>3, <1>3, ListedIsList, ListFacts DEF OrderedInv
    <3>2. DOMAIN ids[s] = 1..Cardinality(present) /\ ToSet(ids[s]) = present
      BY <3>1, <1>3, <1>4
    <3>3. ids[s] \in [1..Cardinality(present) -> present]
      <4>1. ids[s] \in Seq(known)
        BY <1>3 DEF Lists
      <4>2. ids[s] = [i \in DOMAIN ids[s] |-> ids[s][i]]
        BY <4>1
      <4>3. \A i \in DOMAIN ids[s] : ids[s][i] \in present
        BY <3>2 DEF ToSet
      <4>. QED
        BY <3>2, <4>2, <4>3
    <3>. QED
      BY <1>5, <2>2, <3>2, <3>3 DEF Listed
  <2>. QED
    BY <1>2, <1>3, <1>6, <2>2, <2>3
<1>7. CASE ~(ToSet(shown[s]) \subseteq present)
  <2>1. UNCHANGED order
    BY <1>1, <1>3, <1>7 DEF Reorder
  <2>2. shown[s] \notin Listed
    BY <1>7 DEF Listed
  <2>. QED
    BY <1>5, <1>7, <2>1, <2>2 DEF OrderStays
<1>. QED
  BY <1>6, <1>7

\* Position and age together order the rows.
LEMMA BeforeOrders ==
  ASSUME OrderedInv
  PROVE  LET B(p, q) == Before(p, q, order, older) IN
         /\ \A p, q \in present : p # q => B(p, q) \/ B(q, p)
         /\ \A p \in present : ~B(p, p)
         /\ \A p, q, r \in present : B(p, q) /\ B(q, r) => B(p, r)
<1>1. /\ \A p \in present : order[p] \in Nat
      /\ \A p, q \in present : <<p, q>> \in older <=> p # q /\ <<q, p>> \notin older
      /\ \A p, q, r \in present : <<p, q>> \in older /\ <<q, r>> \in older => <<p, r>> \in older
  BY DEF OrderedInv, OrderedTypeOK
<1>. QED
  BY <1>1 DEF Before

\* A list of some of the rows.
ListOf(S) ==
  {l \in [1..Cardinality(S) -> S] :
     /\ ToSet(l) = S
     /\ \A i, j \in DOMAIN l : i < j => Before(l[i], l[j], order, older)}

\* Some row is before no other.
LEMMA LastRow ==
  ASSUME OrderedInv, NEW S \in SUBSET present, S # {}
  PROVE  \E m \in S : \A p \in S \ {m} : Before(p, m, order, older)
<1> DEFINE Beyond(p) == {q \in S : Before(p, q, order, older)}
           T == {Beyond(p) : p \in S}
<1>1. IsFiniteSet(S)
  BY FS_Subset DEF OrderedInv
<1>2. T \subseteq FiniteSubsetsOf(S) /\ T # {}
  <2>1. \A p \in S : Beyond(p) \in SUBSET S
    OBVIOUS
  <2>2. \A p \in S : IsFiniteSet(Beyond(p))
    <3> HIDE DEF Beyond
    <3>. QED
      BY <1>1, <2>1, FS_Subset
  <2>3. \A p \in S : Beyond(p) \in FiniteSubsetsOf(S)
    <3> HIDE DEF Beyond
    <3>. QED
      BY <2>1, <2>2 DEF FiniteSubsetsOf
  <2>. QED
    <3> HIDE DEF Beyond
    <3>. QED
      BY <2>3
<1>3. PICK A \in T : \A B \in T : <<B, A>> \notin StrictSubsetOrdering(S)
  <2> HIDE DEF T, Beyond
  <2>. QED
    BY <1>2, FS_StrictSubsetOrderingWellFounded, WFMin
<1>4. PICK m \in S : A = Beyond(m)
  BY Zenon
<1>5. ASSUME NEW p \in Beyond(m)
      PROVE  FALSE
  <2>1. p \in S /\ Beyond(p) \in T
    OBVIOUS
  <2>2. Beyond(p) \subseteq Beyond(m) /\ p \in Beyond(m) /\ p \notin Beyond(p)
    BY BeforeOrders
  <2>3. Beyond(p) # Beyond(m)
    BY <2>2
  <2>. QED
    BY <1>3, <1>4, <2>1, <2>2, <2>3 DEF StrictSubsetOrdering
<1>6. \A p \in S \ {m} : Before(p, m, order, older)
  BY <1>5, BeforeOrders
<1>. QED
  BY <1>6

LEMMA OneMoreListed ==
  ASSUME OrderedInv, NEW S \in SUBSET present, NEW m \in S,
         \A p \in S \ {m} : Before(p, m, order, older), ListOf(S \ {m}) # {}
  PROVE  ListOf(S) # {}
<1> DEFINE n == Cardinality(S)
<1>1. PICK k \in ListOf(S \ {m}) : TRUE
  OBVIOUS
<1>2. IsFiniteSet(S)
  BY FS_Subset DEF OrderedInv
<1>3. n \in Nat /\ n # 0 /\ Cardinality(S \ {m}) = n - 1
  BY <1>2, FS_CardinalityType, FS_EmptySet, FS_RemoveElement
<1>4. /\ k \in [1..(n - 1) -> S \ {m}] /\ ToSet(k) = S \ {m} /\ DOMAIN k = 1..(n - 1)
      /\ \A i, j \in 1..(n - 1) : i < j => Before(k[i], k[j], order, older)
  BY <1>1, <1>3 DEF ListOf
<1> HIDE DEF n
<1> DEFINE l == [i \in 1..n |-> IF i = n THEN m ELSE k[i]]
<1>5. /\ l \in [1..n -> S] /\ l[n] = m /\ DOMAIN l = 1..n
      /\ \A i \in 1..(n - 1) : l[i] = k[i] /\ i \in 1..n
  BY <1>3, <1>4
<1> HIDE DEF l
<1>6. ToSet(l) = S
  <2>1. ASSUME NEW p \in S PROVE p \in ToSet(l)
    <3>1. CASE p = m
      BY <1>3, <1>5, <3>1 DEF ToSet
    <3>2. CASE p # m
      <4>1. PICK i \in 1..(n - 1) : k[i] = p
        BY <1>4, <3>2 DEF ToSet
      <4>. QED
        BY <1>5, <4>1 DEF ToSet
    <3>. QED
      BY <3>1, <3>2
  <2>. QED
    BY <1>5, <2>1 DEF ToSet
<1>7. ASSUME NEW i \in 1..n, NEW j \in 1..n, i < j
      PROVE  Before(l[i], l[j], order, older)
  <2>1. i \in 1..(n - 1) /\ k[i] \in S \ {m}
    BY <1>3, <1>4, <1>7
  <2>2. CASE j = n
    BY <1>5, <2>1, <2>2
  <2>3. CASE j # n
    <3>1. j \in 1..(n - 1)
      BY <1>3, <2>3
    <3>. QED
      BY <1>4, <1>5, <1>7, <2>1, <3>1
  <2>. QED
    BY <2>2, <2>3
<1>8. l \in ListOf(S)
  BY <1>5, <1>6, <1>7 DEF ListOf, n
<1>. QED
  BY <1>8

\* So the rows can always be listed.
LEMMA RowsAreListed == OrderedInv => Listed # {}
<1> SUFFICES ASSUME OrderedInv, Listed = {} PROVE FALSE
  OBVIOUS
<1> DEFINE Bad == {S \in FiniteSubsetsOf(present) : ListOf(S) = {}}
<1>1. present \in Bad
  BY DEF Listed, ListOf, OrderedInv, FiniteSubsetsOf
<1>2. PICK S \in Bad : \A R \in Bad : <<R, S>> \notin StrictSubsetOrdering(present)
  <2>1. Bad \subseteq FiniteSubsetsOf(present) /\ Bad # {}
    BY <1>1
  <2> HIDE DEF Bad
  <2>. QED
    BY <2>1, FS_StrictSubsetOrderingWellFounded, WFMin
<1>3. S \in SUBSET present /\ IsFiniteSet(S) /\ ListOf(S) = {}
  BY DEF FiniteSubsetsOf
<1>4. S # {}
  <2>1. Cardinality({}) = 0
    BY FS_EmptySet
  <2>2. <<>> \in [1..0 -> {}] /\ ToSet(<<>>) = {} /\ DOMAIN <<>> = {}
    BY DEF ToSet
  <2>3. <<>> \in ListOf({})
    BY <2>1, <2>2 DEF ListOf
  <2>. QED
    BY <1>3, <2>3
<1>5. PICK m \in S : \A p \in S \ {m} : Before(p, m, order, older)
  BY <1>3, <1>4, LastRow
<1>6. ListOf(S \ {m}) # {}
  <2>1. S \ {m} \in FiniteSubsetsOf(present) /\ S \ {m} \subseteq S /\ S \ {m} # S
    BY <1>3, FS_RemoveElement DEF FiniteSubsetsOf
  <2>2. S \ {m} \notin Bad
    BY <1>2, <1>3, <2>1 DEF StrictSubsetOrdering
  <2>. QED
    BY <2>1, <2>2
<1>. QED
  BY <1>3, <1>5, <1>6, OneMoreListed

-----------------------------------------------------------------------------
(* The office as a whole *)

officeVars ==
  <<part, sectionsVars, newsVars, announcementsVars, navigationVars, orderedVars,
    emailSettingsVars, contactVars, templatesVars, catalogueVars>>

OfficeInv ==
  /\ SectionsInv /\ SettingsInv /\ NewsInv /\ AnnouncementsInv
  /\ NavigationInv /\ OrderedInv /\ ContactInv /\ TemplatesInv /\ CatalogueInv

LEMMA OfficeInitInv == OfficeInit => OfficeInv
BY SectionsInitInv, SettingsInitInv, NewsInitInv, AnnouncementsInitInv, NavigationInitInv,
   OrderedInitInv, ContactInitInv, TemplatesInitInv, CatalogueInitInv
   DEF OfficeInit, OfficeInv

\* A step of the office is one of each component, or leaves it as it is.
LEMMA OfficeSteps ==
  ASSUME [OfficeNext]_officeVars
  PROVE  /\ [SectionsNext]_sectionsVars /\ [EmailSettingsNext]_emailSettingsVars
         /\ [NewsNext]_newsVars /\ [ClockTicks]_announcementsVars
         /\ [NavigationNext]_navigationVars /\ [OrderedNext]_orderedVars
         /\ [ContactNext]_contactVars
         /\ [TemplatesNext]_templatesVars /\ [CatalogueNext]_catalogueVars
BY DEF OfficeNext, officeVars

LEMMA OfficeNextInv ==
  ASSUME OfficeInv, [OfficeNext]_officeVars
  PROVE  OfficeInv'
BY OfficeSteps, SectionsNextInv, SettingsNextInv, NewsNextInv, AnnouncementsNextInv,
   NavigationNextInv, OrderedNextInv, ContactNextInv, TemplatesNextInv, CatalogueNextInv
   DEF OfficeInv

\* What holds of each component on its own holds of the office as a whole.
THEOREM OfficeInvariance == OfficeSpec => []OfficeInv
<1>1. OfficeInv /\ [OfficeNext]_officeVars => OfficeInv'
  BY OfficeNextInv
<1>. QED
  BY OfficeInitInv, <1>1, PTL DEF OfficeSpec, officeVars

\* The components keep to their types, and an article has a date exactly while
\* it is published, but for two updates that crossed (news.service.ts).
THEOREM OfficeIsSound == OfficeSpec => []OfficeOK
<1>1. OfficeInv => OfficeOK
  BY TemplatesStand, CatalogueStands
     DEF OfficeInv, OfficeOK, SectionsInv, SettingsInv, NewsInv, NavigationInv, ContactInv
<1>. QED
  BY OfficeInvariance, <1>1, PTL

\* At every instant the filters of the site and of the editor's list agree on
\* where an article is, for any length of the day (announcement.ts).
THEOREM FiltersAlwaysAgree == OfficeSpec => []FiltersAgree
<1>1. OfficeInv => FiltersAgree
  BY AnnouncementsAgree DEF OfficeInv
<1>. QED
  BY OfficeInvariance, <1>1, PTL

\* Sending is on for a server that can be reached the way it was tested
\* (validate, ensureConfigured, recordTest).
THEOREM SettingsStaySound == OfficeSpec => []SettingsSound
<1>1. OfficeInv => SettingsSound
  BY DEF OfficeInv, SettingsInv
<1>. QED
  BY OfficeInvariance, <1>1, PTL

\* Of a request that was answered each email is queued or has its own reason,
\* nobody is told of one that was not stored, and one that was deleted stays
\* so (contact.service.ts).
THEOREM ContactIsKept == OfficeSpec => []ContactKept
<1>1. OfficeInv => ContactKept
  BY DEF OfficeInv, ContactInv
<1>. QED
  BY OfficeInvariance, <1>1, PTL

\* No email goes out without words, none that ships off before somebody chose
\* it, a test sends what was shown; and no more files lie unused than saves
\* have failed or are under way (templates.service.ts, pendingImage.ts).
THEOREM OfficeStaysTidy == OfficeSpec => []TidyOffice
<1>1. OfficeInv => TidyOffice
  BY TemplatesStand, CatalogueStands DEF OfficeInv, TidyOffice
<1>. QED
  BY OfficeInvariance, <1>1, PTL

\* No edit of a section is lost but to a save that another one crossed, and a
\* publication is of somebody's edit, beside everything else the office does.
THEOREM SectionsStayWhole == OfficeSpec => SectionsHold
<1>1. OfficeSpec => SectionsSpec
  <2>1. OfficeInit => SectionsInit
    BY DEF OfficeInit
  <2>2. [OfficeNext]_officeVars => [SectionsNext]_sectionsVars
    BY OfficeSteps
  <2>. QED
    BY <2>1, <2>2, PTL DEF OfficeSpec, SectionsSpec, officeVars
<1>. QED
  BY <1>1, SectionsHoldProved

\* A save changes what its author changed, or was shown otherwise: of the email
\* settings, of an article, of a template and of the catalogue; and an item
\* leaves the menu only when it, or the item it is under, is moved.
THEOREM OfficeChangesOnPurpose == OfficeSpec => OnlyOnPurpose
<1>1. OfficeInv /\ [OfficeNext]_officeVars =>
        [\A a \in Admin : saving[a] = "write" /\ saving'[a] = "answer" /\ a \notin outdated =>
           /\ \A f \in DOMAIN config : config'[f] # config[f] => f \in payload[a].retyped \/ Suggested(a, f)
           /\ secret' # secret => "password" \in payload[a].retyped]_emailSettingsVars
  BY OfficeSteps, StepOnlyTyped DEF OfficeInv
<1>2. OfficeInv /\ [OfficeNext]_officeVars =>
        [\A w \in Redactor : step[w] = "read" /\ step'[w] = "none" /\ w \notin stale =>
           /\ piece'.isPublished # piece.isPublished => "isPublished" \in changed[w]
           /\ piece'.archived # piece.archived => "archived" \in changed[w]
           /\ piece'.publishedAt # piece.publishedAt =>
                changed[w] \cap {"isPublished", "date"} # {} \/ Rounded]_newsVars
  BY OfficeSteps, NewsEdits DEF OfficeInv
<1>3. OfficeInv /\ [OfficeNext]_officeVars =>
        [wording # NoRow =>
           /\ \A c \in Cell :
                wording'.words[c] # wording.words[c] =>
                  \E w \in Writer : ResetNow(w) \/ (WriteNow(w) /\ (c \in wanted[w] \/ passedBy[w]))
           /\ wording'.on # wording.on =>
                \E w \in Writer : WriteNow(w) /\ (OnOff \in wanted[w] \/ passedBy[w])]_templatesVars
  BY OfficeSteps, WordsKept DEF OfficeInv
<1>4. OfficeInv /\ [OfficeNext]_officeVars =>
        [entry # NoEntry /\ entry' # NoEntry =>
           \A c \in Fields : entry'[c] # entry[c] =>
             \E d \in Curator :
               /\ WritesNow(d) /\ (Authored(d, c) \/ Fills(c))
               /\ (c \in Title \cup More /\ entry'[c] = "blank") => Erases(d, c)]_catalogueVars
  BY OfficeSteps, EntryKept DEF OfficeInv
<1>5. OfficeInv /\ [OfficeNext]_officeVars =>
        [\A i \in Menu : i \in Live' \ Menu' => Moves(i) \/ Moves(parent[i])]_navigationVars
  BY OfficeSteps, MenuKept DEF OfficeInv
<1>6. OfficeSpec => [][OfficeNext]_officeVars
  BY PTL DEF OfficeSpec, officeVars
<1>. QED
  BY OfficeInvariance, <1>1, <1>2, <1>3, <1>4, <1>5, <1>6, PTL
     DEF OnlyOnPurpose, OnlyTypedIsChanged, EditLeavesPublication, WordingKept, CatalogueKept,
         LeavesForCause

\* However often rows are listed, created, removed and moved, from any number of
\* screens, there is a list that findAll can answer: position and age together
\* order the rows, the ones with the same position as well (partners.service.ts).
THEOREM RowsCanBeListed == OfficeSpec => [](Listed # {})
<1>1. OfficeInv => Listed # {}
  BY RowsAreListed DEF OfficeInv
<1>. QED
  BY OfficeInvariance, <1>1, PTL

\* A new row comes after all the others, but for a write since its position was
\* read, and a move numbers all the rows that its author was shown as they were
\* sent, or none of them (create and reorder, partners.service.ts).
THEOREM ListsAlwaysHold == OfficeSpec => ListsHold
<1>1. OfficeInv => OrderedTypeOK
  BY DEF OfficeInv, OrderedInv
<1>2. OfficeInv /\ [OfficeNext]_officeVars =>
        [\A s \in Screen : request[s] = "create" /\ request'[s] = "none" /\ s \notin outrun =>
           /\ present' = present \cup {subject[s]} /\ subject[s] \notin present
           /\ OrderStays(present)
           /\ \A p \in present : Before(p, subject[s], order', older')]_orderedVars
  BY OfficeSteps, NewComesLast DEF OfficeInv
<1>3. OfficeInv /\ [OfficeNext]_officeVars =>
        [\A s \in Screen : request[s] = "move" /\ request'[s] = "none" =>
           /\ IF ToSet(shown[s]) \subseteq present
              THEN /\ ToSet(ids[s]) = ToSet(shown[s])
                   /\ \A i, j \in DOMAIN ids[s] :
                        i < j => Before(ids[s][i], ids[s][j], order', older')
              ELSE OrderStays(present)
           /\ shown[s] \in Listed =>
                \E i \in 1..(Len(shown[s]) - 1) : Exchanged(shown[s], i) \in Listed']_orderedVars
  BY OfficeSteps, MoveIsAsSent DEF OfficeInv
<1>4. OfficeSpec => [][OfficeNext]_officeVars
  BY PTL DEF OfficeSpec, officeVars
<1>. QED
  BY OfficeInvariance, <1>1, <1>2, <1>3, <1>4, PTL DEF ListsHold, OrderFollows, NewIsLast, MovedAsSent
=============================================================================
