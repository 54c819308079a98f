\* Two processes boot, crash and restart over three starting databases while
\* the master key is introduced and rotated twice. Faults happen in the runs
\* that begin with faulty = TRUE.
SPECIFICATION LiveSpec
CONSTANTS
  p1 = p1
  p2 = p2
  p3 = p3
  k1 = k1
  k2 = k2
  k3 = k3
  k4 = k4
  NoKey = NoKey
  None = None
  Procs = {p1, p2}
  Names <- OneName
  Keys = {k1, k2, k3}
  Stages <- Life
  Firsts <- AnyDatabase
  Verified = TRUE
  Faults = {TRUE, FALSE}
INVARIANT OneValue
INVARIANT SealedUnderStoredContext
INVARIANT FingerprintFits
INVARIANT CurrentRingReads
PROPERTY ValueStable
PROPERTY NoDowngrade
PROPERTY EveryoneLoads
