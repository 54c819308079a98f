\* Three requests over three windows; the clock may run while any of them waits.
SPECIFICATION Spec
CONSTANTS
    r1 = r1
    r2 = r2
    r3 = r3
    Requests = {r1, r2, r3}
    Window = 2
    Limit = 2
    MaxTime = 5
SYMMETRY Symmetries
INVARIANT BudgetHolds
INVARIANT DatedBeforeState
