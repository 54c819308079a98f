----------------------------- MODULE SingleUse -----------------------------
(***************************************************************************)
(* What the provider promises of its one-time credentials, the pending     *)
(* login interaction and the authorization code: an item is handed out     *)
(* once, is taken by at most one taker, and once it is taken or has lapsed *)
(* nobody takes it again.  Interaction and AuthCode implement this module. *)
(***************************************************************************)
CONSTANTS
  Items,    \* the one-time credentials
  Takers,   \* who may take one
  Nobody    \* the taker of an item that was not taken, no member of Takers

VARIABLES
  status,   \* the life of each item
  taker     \* who took it

svars == <<status, taker>>

SingleUseTypeOK ==
  /\ status \in [Items -> {"unborn", "open", "taken", "gone"}]
  /\ taker \in [Items -> Takers \cup {Nobody}]

Init ==
  /\ status = [i \in Items |-> "unborn"]
  /\ taker = [i \in Items |-> Nobody]

Open(i) ==
  /\ status[i] = "unborn"
  /\ status' = [status EXCEPT ![i] = "open"]
  /\ UNCHANGED taker

Take(i, t) ==
  /\ status[i] = "open"
  /\ status' = [status EXCEPT ![i] = "taken"]
  /\ taker' = [taker EXCEPT ![i] = t]

\* It expires and is cleaned up.
Lapse(i) ==
  /\ status[i] = "open"
  /\ status' = [status EXCEPT ![i] = "gone"]
  /\ UNCHANGED taker

Next == \E i \in Items : Open(i) \/ Lapse(i) \/ \E t \in Takers : Take(i, t)

Spec == Init /\ [][Next]_svars
=============================================================================
