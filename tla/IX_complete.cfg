\* Two interactions of one user for two clients, in two tabs: approvals and
\* denials of both tabs, expiry, clean-up and failing calls.
SPECIFICATION Spec
CONSTANTS
  None = None
  Ids = {i1, i2}
  Clients = {c1, c2}
  Users = {u1}
  Returning = {}
  Outsiders = {}
  Scopes = {s1}
  URIs = {uri1}
  FirstURI = uri1
  Modes = {"query"}
  Decisions = {"approve", "deny"}
  Tabs = {t1, t2}
  Lifespan = 0
  Rats <- NowOnly
  MaxTime = 1
  Faults = TRUE
SYMMETRY TabSymmetry
INVARIANT DenialIsFinal
INVARIANT CodeScopesApproved
PROPERTY ClaimedOnce
