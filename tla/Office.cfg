SPECIFICATION OfficeSpec
CONSTANTS
 Section = {home, seo}
 Part = {title, hero}
 Editor = {p1, p2}
 NoSection = NoSection
 NoDraft = NoDraft
 MaxEdits = 2
 Redactor = {p1, p2}
 EndOfTime = 2
 Minute = 2
 Undated = Undated
 LastTick = 3
 DayLength = 2
 NoDate = NoDate
 Item = {i1, i2, i3}
 Top = Top
 Gone = Gone
 Webmaster = {p1, p2}
 Partner = {p1, p2, p3}
 NoPartner = NoPartner
 Screen = {p1, p2}
 Admin = {p1, p2}
 Server = {m1}
 NoServer = NoServer
 Site = {"here"}
 NoSite = NoSite
 Origin <- MCOrigin
 Deployed = FALSE
 EditedFields = {"host", "enabled", "password"}
 MaxActs = 2
 Visitor = {v1}
 MaxPosts = 1
 Clerk = {p1, p2}
 NoRequest = NoRequest
 MaxToggles = 1
 Studied = {"newsletter_confirm", "newsletter_subscribed"}
 Typable <- MCTypable
 Writer = {p1, p2}
 MaxTyping = 2
 MaxSends = 2
 NoRow = NoRow
 Curator = {p1, p2}
 Photo = {f1, f2}
 Touched <- MCTouched
 MaxChanges = 2
 MaxCalls = 2
 NoEntry = NoEntry
SYMMETRY MCSymmetry
INVARIANTS OfficeOK FiltersAgree SettingsSound ContactKept TidyOffice
PROPERTIES SectionsHold OnlyOnPurpose ListsHold
CHECK_DEADLOCK FALSE
