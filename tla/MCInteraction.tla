--------------------------- MODULE MCInteraction ---------------------------
(* Model-checking instances of Interaction. *)
EXTENDS Interaction, TLC

\* Tabs are interchangeable, and so are interaction ids.
TabSymmetry == Permutations(Tabs) \cup Permutations(Ids)
NowOnly == {0}
=============================================================================
