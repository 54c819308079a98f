\* Deadlock is off: once every claim was granted and released nothing is left.
\* One goroutine registers, releases and tears down two planes while one request is
\* served, before and after the bootstrap, with and without legacy rows. What the
\* goroutines do to each other is the question of CL_tables.cfg.
SPECIFICATION ClientsSpec
CONSTANTS
    main = main
    oauth2 = oauth2
    members = members
    k1 = k1
    Callers <- OneGoroutine
    Prefixes <- BothPlanes
    DefaultPrefix = oauth2
    Releases <- OneGoroutine
    Clears <- OneGoroutine
    LegacyRows = {TRUE, FALSE}
    MaxRegistrations = 3
    Requests <- OneRequest
    Fresh = {f1}
    Chosen = {i1}
    NoPlane = NoPlane
    Old = Old
    Faults = TRUE
INVARIANT SecretHashedOnce
CHECK_DEADLOCK FALSE
