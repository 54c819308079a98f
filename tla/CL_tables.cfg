\* Deadlock is off: once every claim was granted and released nothing is left.
\* Two goroutines, each calling what it likes for two prefixes, before and after the
\* bootstrap, with and without legacy rows.
SPECIFICATION Spec
CONSTANTS
    Callers = {main, worker}
    Prefixes = {oauth2, members}
    DefaultPrefix = oauth2
    Releases = {main, worker}
    Clears = {main, worker}
    LegacyRows = {TRUE, FALSE}
    MaxRegistrations = 3
SYMMETRY Goroutines
INVARIANT OneWinner
INVARIANT NoOrphanGuard
INVARIANT OneLoaderUnlessCrossed
INVARIANT LegacyReaderAlone
CHECK_DEADLOCK FALSE
