-------------------------------- MODULE Account --------------------------------
(***************************************************************************)
(* What enrolling promises about each callsign, with no handlers, workers  *)
(* or failures: an account opens and closes once, its certificate is       *)
(* issued once and revoked only after the account is closed, and a         *)
(* decision to approve means that there is a certificate.                  *)
(***************************************************************************)
CONSTANT Callsigns

VARIABLES
  decision,     (* NONE, PENDING, APPROVED or REJECTED                      *)
  account,      (* none, open or closed                                    *)
  certificate   (* none, issued or revoked                                 *)

vars == <<decision, account, certificate>>

Init ==
  /\ decision = [c \in Callsigns |-> "NONE"]
  /\ account = [c \in Callsigns |-> "none"]
  /\ certificate = [c \in Callsigns |-> "none"]

Enroll(c) ==
  /\ decision[c] = "NONE"
  /\ decision' = [decision EXCEPT ![c] = "PENDING"]
  /\ UNCHANGED <<account, certificate>>

Reject(c) ==
  /\ decision[c] # "NONE"
  /\ decision' = [decision EXCEPT ![c] = "REJECTED"]
  /\ UNCHANGED <<account, certificate>>

Approve(c) ==
  /\ decision[c] # "NONE"
  /\ certificate[c] # "none"
  /\ decision' = [decision EXCEPT ![c] = "APPROVED"]
  /\ UNCHANGED <<account, certificate>>

Open(c) ==
  /\ decision[c] # "NONE"
  /\ account[c] = "none"
  /\ account' = [account EXCEPT ![c] = "open"]
  /\ UNCHANGED <<decision, certificate>>

Close(c) ==
  /\ account[c] = "open"
  /\ account' = [account EXCEPT ![c] = "closed"]
  /\ UNCHANGED <<decision, certificate>>

Issue(c) ==
  /\ account[c] # "none"
  /\ certificate[c] = "none"
  /\ certificate' = [certificate EXCEPT ![c] = "issued"]
  /\ UNCHANGED <<decision, account>>

Revoke(c) ==
  /\ account[c] = "closed"
  /\ certificate[c] = "issued"
  /\ certificate' = [certificate EXCEPT ![c] = "revoked"]
  /\ UNCHANGED <<decision, account>>

Next == \E c \in Callsigns :
  Enroll(c) \/ Reject(c) \/ Approve(c) \/ Open(c) \/ Close(c) \/ Issue(c) \/ Revoke(c)

Spec == Init /\ [][Next]_vars
===============================================================================
