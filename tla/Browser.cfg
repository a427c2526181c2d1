SPECIFICATION BrowserSpec
CONSTANTS
 Person = {ann, bob}
 Nobody = Nobody
 Call = {me, c1, c2}
 MeCall = me
 MaxLoads = 1
 Path = {home, news}
 MaxSteps = 3
 Screen = {t1, t2}
 Tab = {t1}
 Notices = 3
 Capacity = 2
 MaxHandled = 3
 Dialog = {d1, d2, d3}
 Menu = menu
 Viewer = viewer
INVARIANTS BrowserOK SessionHolds VisitorHeard
PROPERTIES BrowserSettles BannerKeeps
CHECK_DEADLOCK FALSE
