---------------------------- MODULE MCDiscovery ----------------------------
(* Model values for Discovery. Arrays of one scope make every early append
   grow; the two resources share a scope. *)
EXTENDS Discovery, TLC

CONSTANTS files, mail, d1, d2

BaseScopes == <<"openid">>
ResourceScopes == (files :> <<"read", "write">>) @@ (mail :> <<"write", "openid", "send">>)
=============================================================================
