SPECIFICATION LanguageSpec
CONSTANTS
 Path = {home, news}
 MaxSteps = 3
INVARIANT SharedAsRead
CHECK_DEADLOCK FALSE
