\* Rows and tombstones expire under running handlers, and the clean-up job
\* runs between their calls.
SPECIFICATION Spec
CONSTANTS
  Requests = {q1}
  LegacyRequests = {}
  RefreshSigs = {r1, r2}
  AccessSigs = {a1, a2}
  Endpoints = {"exchange", "accessonly", "refresh", "revoke"}
  Workers = {w1, w2}
  NoRequest = NoRequest
  NoSig = NoSig
  AccessLife = 0
  RefreshLife = 1
  CodeLife = 1
  TombLife = 2
  MaxPause = 1
  MaxTime = 3
  Faults = FALSE
SYMMETRY HandlerSymmetry
INVARIANT DeadLeavesNothing
INVARIANT OneLeafAuthority
PROPERTY DeadStaysDead
PROPERTY ImplementsAuthority
