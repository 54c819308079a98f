----------------------------- MODULE MCAuthCode ----------------------------
(* Model-checking instances of AuthCode. *)
EXTENDS AuthCode, TLC

\* Handlers are interchangeable, and so are codes.
Symmetries == Permutations(Workers) \cup Permutations(Codes)
=============================================================================
