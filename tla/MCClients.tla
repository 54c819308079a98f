----------------------------- MODULE MCClients -----------------------------
(* Model values for Clients. *)
EXTENDS Clients

CONSTANTS main, oauth2, members, k1

OneGoroutine == {main}
BothPlanes == {oauth2, members}
OneRequest == {k1}
=============================================================================
