\* Deadlock is off: when every code was used and the clock is at its bound
\* nothing is left to do.
\* Two handlers exchange, replay and clean up one code; either may be paused for as
\* long as the code lives.
SPECIFICATION Spec
CONSTANTS
  None = None
  Codes = {k1}
  ScopeSets = {{"openid", "offline"}, {}}
  Workers = {w1, w2}
  CodeLife = 1
  MaxPause = 1
  MaxTime = 2
  Enforced = {TRUE, FALSE}
  Faults = TRUE
SYMMETRY Symmetries
INVARIANT SpentIsRemembered
INVARIANT ValidIsOnce
INVARIANT VerifierRequired
INVARIANT ReplayLeavesNoRows
CHECK_DEADLOCK FALSE
