\* Replay of a token whose family was split by a new root.
SPECIFICATION Spec
CONSTANTS
  Requests = {q1}
  LegacyRequests = {}
  RefreshSigs = {r1, r2, r3}
  AccessSigs = {a1, a2, a3}
  Endpoints = {"exchange", "refresh"}
  Workers = {w1, w2}
  NoRequest = NoRequest
  NoSig = NoSig
  AccessLife = 0
  RefreshLife = 1
  CodeLife = 1
  TombLife = 2
  MaxPause = 1
  MaxTime = 3
  Faults = FALSE
PROPERTY DetectedReuseIsTerminal
