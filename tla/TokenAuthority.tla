--------------------------- MODULE TokenAuthority ---------------------------
(***************************************************************************)
(* What the provider promises of refresh tokens: of one authorization      *)
(* request at most one refresh token works at a time, a token that stopped *)
(* working never works again, and once the request is dead, because a      *)
(* token was reused, revoked or its code replayed, no token of it works    *)
(* ever again.  RefreshFamily implements this module with rows, statuses   *)
(* and tombstones that it changes in several steps.                        *)
(***************************************************************************)
CONSTANTS
  Requests,   \* authorization requests
  Tokens      \* refresh tokens

VARIABLES
  leaf,    \* the refresh tokens of each request that work
  spent,   \* tokens that worked once and do not any more
  dead     \* requests under terminal authority

avars == <<leaf, spent, dead>>

AuthorityTypeOK ==
  /\ leaf \in [Requests -> SUBSET Tokens]
  /\ spent \subseteq Tokens
  /\ dead \subseteq Requests

Working == UNION {leaf[q] : q \in Requests}

\* Tokens of before the provider kept families work already.
Init ==
  /\ leaf \in [Requests -> {{}} \cup {{s} : s \in Tokens}]
  /\ \A p, q \in Requests : p # q => leaf[p] \cap leaf[q] = {}
  /\ spent = {} /\ dead = {}

\* The exchange of a code, or the second half of a rotation.
Issue(q, s) ==
  /\ q \notin dead /\ leaf[q] = {}
  /\ s \notin spent \cup Working
  /\ leaf' = [leaf EXCEPT ![q] = {s}]
  /\ UNCHANGED <<spent, dead>>

\* The first half of a rotation, or the token expired.
Spend(q) ==
  /\ leaf[q] # {}
  /\ spent' = spent \cup leaf[q]
  /\ leaf' = [leaf EXCEPT ![q] = {}]
  /\ UNCHANGED dead

\* Reuse, revocation or the replay of the code.
Kill(q) ==
  /\ dead' = dead \cup {q}
  /\ spent' = spent \cup leaf[q]
  /\ leaf' = [leaf EXCEPT ![q] = {}]

Next == \E q \in Requests : Kill(q) \/ Spend(q) \/ \E s \in Tokens : Issue(q, s)

Spec == Init /\ [][Next]_avars
=============================================================================
