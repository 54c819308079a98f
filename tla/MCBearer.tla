----------------------------- MODULE MCBearer -----------------------------
(* Model values for Bearer. *)
EXTENDS Bearer, TLC

CONSTANTS h1, a1, a2, r1, r2

\* The refresh narrows the grant.
GrantedScopes == (a1 :> {"openid", "profile"}) @@ (a2 :> {"profile"})
                 @@ (r1 :> {"openid", "profile"}) @@ (r2 :> {"profile"})
===========================================================================
