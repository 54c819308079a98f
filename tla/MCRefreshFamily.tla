-------------------------- MODULE MCRefreshFamily --------------------------
(* Model-checking instances of RefreshFamily. *)
EXTENDS RefreshFamily, TLC

\* Handlers are interchangeable; signatures are not, FreshRefresh orders them.
HandlerSymmetry == Permutations(Workers)
=============================================================================
