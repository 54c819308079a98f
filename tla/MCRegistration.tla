--------------------------- MODULE MCRegistration ---------------------------
(* Registration, for TLC. *)
EXTENDS Registration, TLC

\* Goroutines are interchangeable where each may make every call.
Goroutines == Permutations(Callers)
=============================================================================
