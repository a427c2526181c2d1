SPECIFICATION AdministrationSpec
CONSTANTS
 Account = {root, ann}
 Root = root
 Lesser = {"EDITOR"}
 Window = {w1, w2}
 NoAccount = NoAccount
 Section = {home}
 Part = {hero}
 Editor = {e1}
 NoSection = NoSection
 NoDraft = NoDraft
 MaxEdits = 2
 Media = {m1}
 NoMedia = NoMedia
 Librarian = {w1, w2}
 MaxCrashes = 1
 Colleague = {k1}
 Outside = Outside
 Desk = {w1, w2}
 NoCampaign = NoCampaign
 NoCount = NoCount
 Reach = {0, 1, 2}
 MaxEdited = 1
 MaxMoves = 1
 MaxWrites = 2
 Listed = {"/", "/contact"}
 Front = "/"
 Pictured = {"/"}
 Private = {"/confirmation"}
 Elsewhere = {"/nowhere"}
 Slug = {"article"}
 StudiedSeo <- MCSeo
 StudiedPost <- MCPost
 Visited <- MCVisited
 Ttl = 1
 MaxWait = 1
 MaxViews = 2
 MaxRevisions = 1
 MaxDeploys = 1
 NoPage = NoPage
 Missing = Missing
SYMMETRY MCSymmetry
INVARIANTS AdministrationOK OwnPassword RightsAgree DialogShowsDraft IndexingHolds
PROPERTIES GuardRails OnlyWhatWasTouched InUseKept SendIsConfirmed
CHECK_DEADLOCK FALSE
