-------------------------------- MODULE OneTime --------------------------------
(***************************************************************************)
(* What a one-time token promises: it is issued, spent once for good, and  *)
(* grants no more than its limit, only after it is spent.                  *)
(***************************************************************************)
EXTENDS Integers

CONSTANT Tokens

VARIABLES
  state,     (* each token is absent, fresh or spent                        *)
  grants,    (* how many things it has bought                               *)
  limit      (* how many a token may buy: it is fixed from the start        *)

vars == <<state, grants, limit>>

Init ==
  /\ state \in [Tokens -> {"absent", "fresh"}]
  /\ grants = [t \in Tokens |-> 0]
  /\ limit \in Nat

Issue(t) ==
  /\ state[t] = "absent"
  /\ state' = [state EXCEPT ![t] = "fresh"]
  /\ UNCHANGED grants

Spend(t) ==
  /\ state[t] = "fresh"
  /\ state' = [state EXCEPT ![t] = "spent"]
  /\ UNCHANGED grants

Grant(t) ==
  /\ state[t] = "spent"
  /\ grants[t] < limit
  /\ grants' = [grants EXCEPT ![t] = @ + 1]
  /\ UNCHANGED state

Next ==
  /\ \E t \in Tokens : Issue(t) \/ Spend(t) \/ Grant(t)
  /\ UNCHANGED limit

Spec == Init /\ [][Next]_vars
===============================================================================
