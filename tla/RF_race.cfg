\* Two handlers on two grants, the first of them from before family ids, no time
\* passing: every interleaving of exchange, refresh, reuse, code replay (which
\* revokes) and bearer checks, with failures.
SPECIFICATION Spec
CONSTANTS
  Requests = {q1, q2}
  LegacyRequests = {q1}
  RefreshSigs = {r1, r2, r3}
  AccessSigs = {a1, a2}
  Endpoints = {"exchange", "refresh", "replay", "check"}
  Workers = {w1, w2}
  NoRequest = NoRequest
  NoSig = NoSig
  AccessLife = 1
  RefreshLife = 3
  CodeLife = 1
  TombLife = 2
  MaxPause = 1
  MaxTime = 0
  Faults = TRUE
SYMMETRY HandlerSymmetry
INVARIANT TypeOK
INVARIANT OneAccessPerRequest
INVARIANT OneFamilyPerRequest
INVARIANT TombCoversArtifacts
INVARIANT NoTokensAfterDeath
INVARIANT NoGrantAfterDeath
INVARIANT InactiveMeansDead
PROPERTY SpentStaysSpent
