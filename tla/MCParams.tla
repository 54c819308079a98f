------------------------------ MODULE MCParams -----------------------------
(* Model-checking instances of Params. *)
EXTENDS Params, TLC

CONSTANTS p1, p2, p3, k1, k2, k3, k4

With(a, old) == [active |-> a, old |-> old]
\* The first boots without a master key, encryption is switched on, and the
\* master is rotated twice, as the README describes it.
Life == <<With(NoKey, {}), With(k1, {}), With(k2, {k1}), With(k3, {k2})>>

\* A third rotation; at the second both old masters stay beside the active one, at
\* the third they are dropped. Not in a listed run: the README tells what TLC finds.
LongLife == <<With(NoKey, {}), With(k1, {}), With(k2, {k1}), With(k3, {k1, k2}),
              With(k4, {k3})>>

ASSUME LifeAssumption ==
  RotatesForward /\ DropsOldestFirst /\ (Stages = Life => HandsOverOnce)

OneName == <<"rsa">>
NoRows == [n \in Ids |-> NoRow]
OldPlain == [n \in Ids |-> Plain("old")]
\* Envelopes from before kid and context id: bound to the data directory.
OldEnvelope == [n \in Ids |-> [Sealed("old", k1, "dir", "old") EXCEPT !.kid = NoKey]]

First(rows, key, at) == [row |-> rows, fp |-> key, stage |-> at]
\* A new database, or one of an older version in plaintext or encrypted.
AnyDatabase == {First(NoRows, NoKey, 1), First(OldPlain, NoKey, 1),
                First(OldEnvelope, k1, 2)}
=============================================================================
