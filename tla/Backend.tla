-------------------------------- MODULE Backend --------------------------------
(***************************************************************************)
(* cert/backend.py: the settings say when the service starts which of the  *)
(* two certificate backends answers every call; the other one is not even  *)
(* imported.                                                               *)
(***************************************************************************)
EXTENDS Cfssl, CertRequests

VARIABLE
  backend       (* the backend in use                                      *)

ASSUME ConstantsAssumption ==
  /\ Persons \cap Products = {} /\ "all" \notin Products
  /\ SlugOf \in [CNs -> Slugs] /\ NoCN \notin CNs
  /\ NoCsr \notin Csrs
  /\ {MaxLocked, MaxFailures, MaxCalls, MaxDenied} \subseteq Nat

backendVars == <<backend, cfsslVars, crVars>>

-------------------------------------------------------------------------------
Init == backend \in {"cfssl", "certmanager"} /\ CfsslInit /\ CrInit

InCfssl       == backend = "cfssl" /\ UNCHANGED <<backend, crVars>>
InCertManager == backend = "certmanager" /\ UNCHANGED <<backend, cfsslVars>>

UseCfssl       == InCfssl /\ CfsslNext
UseCertManager == InCertManager /\ CrNext

Next == UseCfssl \/ UseCertManager

Spec == Init /\ [][Next]_backendVars

(* With CFSSL the event loop resumes whatever waits and the services       *)
(* answer; that calls fail or the database is locked is bounded.           *)
FairSpec ==
  /\ Spec
  /\ \A h \in Work : WF_backendVars(InCfssl /\ Proceed(h))
  /\ WF_backendVars(InCfssl /\ RunTask)

-------------------------------------------------------------------------------
(* Each backend leaves the state of the other as it was, and its own is    *)
(* well typed.                                                             *)
TypeOK ==
  /\ CfsslTypeOK /\ CrTypeOK
  /\ backend = "cfssl" => calls = 0
  /\ backend = "certmanager" => \A x \in Holders : issued[x] = 0

(* The inductive invariant of the proofs.                                  *)
IInv == TypeOK /\ CfsslInv /\ CrInv
===============================================================================
