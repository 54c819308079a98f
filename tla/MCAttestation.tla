--------------------------- MODULE MCAttestation ---------------------------
(* Model values for Attestation. *)
EXTENDS Attestation, TLC

CONSTANTS r1, r2, r3

Symmetries == Permutations({r1, r2, r3})
=============================================================================
