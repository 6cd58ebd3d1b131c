------------------------------ MODULE CertRequests -----------------------------
(***************************************************************************)
(* The cert-manager backend (cert/cert_manager): sign_csr makes a          *)
(* CertificateRequest in Kubernetes, named after the CN of the CSR         *)
(* (cr_name), waits until cert-manager issues the certificate and adds the *)
(* CA bundle.  Where the name is taken it waits for the request it finds.  *)
(* Nobody deletes one: revoke_pem only checks its reason.                  *)
(*                                                                         *)
(* A CSR has a CN, or none, and a key; keys stand for everything else in   *)
(* it.  The hashes in the names do not collide.                            *)
(***************************************************************************)
EXTENDS Naturals

CONSTANTS
  CNs,          (* common names                                            *)
  Slugs,        (* CNs in lower case, other characters replaced            *)
  SlugOf,       (* the slug of each CN                                     *)
  NoCN,         (* a CSR without one                                       *)
  Keys,         (* keys                                                    *)
  Signers,      (* slots for concurrent calls of sign_csr                  *)
  NoCsr,        (* nothing being signed                                    *)
  MaxCalls,     (* bound: calls                                            *)
  MaxDenied     (* bound: failed calls and denials                         *)

VARIABLES
  crs,          (* Kubernetes: CertificateRequests                         *)
  wrapped,      (* whether the API's conflict is an APIError               *)
  answers,      (* CSRs with the certificate their call returned           *)
  step,         (* where each call is                                      *)
  csr,          (* what it signs                                           *)
  calls,        (* calls so far                                            *)
  denied        (* failures and denials so far                             *)

crVars == <<crs, wrapped, answers, step, csr, calls, denied>>

-------------------------------------------------------------------------------
Csrs == [cn : CNs \cup {NoCN}, key : Keys]

(* Mutant: a name that is only readable.                                   *)
NameBySlug(c) ==
  IF c.cn = NoCN THEN <<"rm-anon", c>> ELSE <<"rm", SlugOf[c.cn]>>

(* cr_name: the slug and a hash of the CN; a hash of the CSR without one.  *)
Name(c) == IF c.cn = NoCN THEN <<"rm-anon", c>> ELSE <<"rm", SlugOf[c.cn], c.cn>>

Requested(n) == \E cr \in crs : cr.name = n
Issued(n)    == \E cr \in crs : cr.name = n /\ cr.status = "issued"

CrInit ==
  /\ crs = {} /\ answers = {}
  /\ wrapped \in BOOLEAN
  /\ step = [s \in Signers |-> "idle"]
  /\ csr = [s \in Signers |-> NoCsr]
  /\ calls = 0 /\ denied = 0

Leave(s) == step' = [step EXCEPT ![s] = "idle"] /\ csr' = [csr EXCEPT ![s] = NoCsr]

-------------------------------------------------------------------------------
SignCsr(s, c) ==
  /\ step[s] = "idle" /\ calls < MaxCalls
  /\ calls' = calls + 1
  /\ step' = [step EXCEPT ![s] = "create"]
  /\ csr' = [csr EXCEPT ![s] = c]
  /\ UNCHANGED <<crs, wrapped, answers, denied>>

(* Mutant: a later request replaces the earlier one.                       *)
CreateReplaces(s) ==
  /\ step[s] = "create"
  /\ crs' = {cr \in crs : cr.name # Name(csr[s])} \cup
            {[name |-> Name(csr[s]), csr |-> csr[s], status |-> "pending"]}
  /\ step' = [step EXCEPT ![s] = "wait"]
  /\ UNCHANGED <<wrapped, answers, csr, calls, denied>>

(* _create_cr; a conflict is passed on as it is, or, if it is an APIError, *)
(* as a CertManagerError, which nobody expects.                            *)
Create(s) ==
  /\ step[s] = "create"
  /\ \/ /\ ~Requested(Name(csr[s]))
        /\ crs' = crs \cup {[name |-> Name(csr[s]), csr |-> csr[s], status |-> "pending"]}
        /\ step' = [step EXCEPT ![s] = "wait"]
        /\ UNCHANGED csr
     \/ /\ Requested(Name(csr[s])) /\ ~wrapped
        /\ step' = [step EXCEPT ![s] = "get"]
        /\ UNCHANGED <<crs, csr>>
     \/ /\ Requested(Name(csr[s])) /\ wrapped
        /\ Leave(s)
        /\ UNCHANGED crs
  /\ UNCHANGED <<wrapped, answers, calls, denied>>

(* _get_cr.                                                                *)
Get(s) ==
  /\ step[s] = "get"
  /\ step' = [step EXCEPT ![s] = "wait"]
  /\ UNCHANGED <<crs, wrapped, answers, csr, calls, denied>>

(* External: cert-manager signs the key of a request,                      *)
Issue(cr) ==
  /\ cr \in crs /\ cr.status = "pending"
  /\ crs' = (crs \ {cr}) \cup {[cr EXCEPT !.status = "issued"]}
  /\ UNCHANGED <<wrapped, answers, step, csr, calls, denied>>

(* or never does.                                                          *)
Deny(cr) ==
  /\ denied < MaxDenied /\ denied' = denied + 1
  /\ cr \in crs /\ cr.status = "pending"
  /\ crs' = (crs \ {cr}) \cup {[cr EXCEPT !.status = "denied"]}
  /\ UNCHANGED <<wrapped, answers, step, csr, calls>>

(* async_wait_for sees the certificate; get_ca reads a file.               *)
Answer(s) ==
  /\ step[s] = "wait"
  /\ \E cr \in crs :
       /\ cr.name = Name(csr[s]) /\ cr.status = "issued"
       /\ answers' = answers \cup {[asked |-> csr[s], got |-> cr.csr]}
  /\ Leave(s)
  /\ UNCHANGED <<crs, wrapped, calls, denied>>

(* WaitTimeout for a request that was denied;                              *)
TimesOut(s) ==
  /\ step[s] = "wait"
  /\ \E cr \in crs : cr.name = Name(csr[s]) /\ cr.status = "denied"
  /\ Leave(s)
  /\ UNCHANGED <<crs, wrapped, answers, calls, denied>>

(* for one that is late, or a call of the API or of get_ca fails.          *)
SignFails(s) ==
  /\ denied < MaxDenied /\ denied' = denied + 1
  /\ step[s] # "idle"
  /\ Leave(s)
  /\ UNCHANGED <<crs, wrapped, answers, calls>>

-------------------------------------------------------------------------------
SignerSteps(s) == Create(s) \/ Get(s) \/ Answer(s) \/ TimesOut(s)
CertManager    == \E cr \in crs : Issue(cr) \/ Deny(cr)

CrNext ==
  \/ \E s \in Signers : SignerSteps(s) \/ SignFails(s) \/ \E c \in Csrs : SignCsr(s, c)
  \/ CertManager

CrSpec == CrInit /\ [][CrNext]_crVars

-------------------------------------------------------------------------------
CrTypeOK ==
  /\ crs \subseteq [name : {Name(c) : c \in Csrs}, csr : Csrs,
                    status : {"pending", "issued", "denied"}]
  /\ \A cr \in crs : cr.name = Name(cr.csr)
  /\ wrapped \in BOOLEAN
  /\ answers \subseteq [asked : Csrs, got : Csrs]
  /\ step \in [Signers -> {"idle", "create", "get", "wait"}]
  /\ csr \in [Signers -> Csrs \cup {NoCsr}]
  /\ \A s \in Signers : step[s] \in {"get", "wait"} => Requested(Name(csr[s]))
  /\ calls \in 0..MaxCalls /\ denied \in 0..MaxDenied

(* Whatever requests its call finds, a CSR is answered with a certificate  *)
(* for its own CN, and one without a CN with a certificate for its own key.*)
AnswerIsForCN ==
  \A a \in answers : a.got.cn = a.asked.cn /\ (a.asked.cn = NoCN => a.got = a.asked)

(* One certificate for each CN for ever: all calls for a CN are answered   *)
(* with the same one, of the key that asked first.                         *)
AnswersAgree ==
  \A a, b \in answers : a.asked.cn = b.asked.cn /\ a.asked.cn # NoCN => a.got = b.got

(* The inductive invariant: a name belongs to one request for ever, and an *)
(* answer is the certificate of the request of that name.                  *)
CrInv ==
  /\ \A s \in Signers : step[s] # "idle" => csr[s] \in Csrs
  /\ \A cr, other \in crs : cr.name = other.name => cr = other
  /\ \A a \in answers : \E cr \in crs : cr.name = Name(a.asked) /\ cr.csr = a.got
===============================================================================
