\* One request against two tokens of a grant that is revoked, rotated and expires.
SPECIFICATION Spec
CONSTANTS
    h1 = h1
    a1 = a1
    a2 = a2
    r1 = r1
    r2 = r2
    Handlers = {h1}
    Access = {a1, a2}
    Refresh = {r1, r2}
    Scopes = {"openid", "profile", "email"}
    Granted <- GrantedScopes
    Required = {"openid", "profile"}
    Changes = {"revoke", "rotate", "client", "user", "expire"}
INVARIANT PassedWasStanding
INVARIANT AttestationWasLive
INVARIANT OnlyAccessTokensPass
