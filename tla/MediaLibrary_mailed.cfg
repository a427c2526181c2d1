SPECIFICATION MediaSpec
CONSTANTS
 Section = {home}
 Part = {hero}
 Editor = {e1}
 NoSection = NoSection
 NoDraft = NoDraft
 MaxEdits = 2
 Media = {m1}
 NoMedia = NoMedia
 Librarian = {w1}
 MaxCrashes = 0
PROPERTY PurgeSparesUsed
CHECK_DEADLOCK FALSE
