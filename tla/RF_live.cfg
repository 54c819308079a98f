\* No failures and no time: a family of three tokens, every handler that begins
\* goes on to its reply.
SPECIFICATION LiveSpec
CONSTANTS
  Requests = {q1}
  LegacyRequests = {}
  RefreshSigs = {r1, r2, r3}
  AccessSigs = {a1, a2, a3}
  Endpoints = {"exchange", "refresh", "revoke", "replay"}
  Workers = {w1, w2}
  NoRequest = NoRequest
  NoSig = NoSig
  AccessLife = 1
  RefreshLife = 3
  CodeLife = 1
  TombLife = 2
  MaxPause = 1
  MaxTime = 0
  Faults = FALSE
INVARIANT NoFork
PROPERTY DeadIsDismantled
