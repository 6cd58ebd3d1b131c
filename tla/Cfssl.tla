--------------------------------- MODULE Cfssl ---------------------------------
(***************************************************************************)
(* The CFSSL backend (cert/cfssl): sign_csr and revoke_serial, which try   *)
(* again while the database of the CA is locked; the OCSP responses, which *)
(* ocsprest renews only when it is told to (refresh_ocsp); and who tells   *)
(* it: every signature, every notification of the products, get_bundle.    *)
(*                                                                         *)
(* A person gets its certificate in create_with_cert and is revoked in     *)
(* delete; a product gets its own in csr_common or renew_csr; and products *)
(* may have any certificate revoked, a live person's too (revoke_cert).    *)
(* These handlers run beside each other.  What happens here happens        *)
(* between two awaits, so that workers need not be told apart, and one     *)
(* that dies is its handlers and tasks failing.                            *)
(***************************************************************************)
EXTENDS Naturals

CONSTANTS
  Persons,      (* people, each created and deleted at most once           *)
  Products,     (* products: certificate holders that are notified         *)
  MaxLocked,    (* bound: answers that the CA's database is locked         *)
  MaxFailures   (* bound: failed calls and tasks                           *)

Holders == Persons \cup Products

VARIABLES
  issued,       (* CA: how many certificates each holder was signed        *)
  revoked,      (* CA: holders whose certificate is revoked                *)
  ocspGood,     (* ocsprest: certificates its responses call good          *)
  ocspRevoked,  (* ocsprest: certificates its responses call revoked       *)
  certfile,     (* holders that have received their certificate            *)
  deleted,      (* people with a deletion date                             *)
  heard,        (* what each product was told of whom                      *)
  tasks,        (* background tasks that have not ended                    *)
  at,           (* where each handler is                                   *)
  locked,       (* locked answers so far                                   *)
  failed,       (* failed handlers so far                                  *)
  lost          (* failed tasks so far                                     *)

ca   == <<issued, revoked>>
ocsp == <<ocspGood, ocspRevoked>>
cfsslVars == <<ca, ocsp, certfile, deleted, heard, tasks, at, locked, failed, lost>>

-------------------------------------------------------------------------------
(* refresh: the task of sign_csr; refresh2: that of _post_create; created, *)
(* revoked: a notification, for all products until it has refreshed.       *)
Kinds == {"refresh", "refresh2", "created", "revoked"}
Tasks == [kind : Kinds, of : Holders, to : Products \cup {"all"}]
Task(kind, x, q) == [kind |-> kind, of |-> x, to |-> q]

(* Handlers: one makes the certificate of a holder, one deletes a person,  *)
(* one revokes a certificate for a product.                                *)
Work == [does : {"create", "delete", "revoke_cert"}, of : Holders]
Creation(x)   == [does |-> "create", of |-> x]
Deletion(x)   == [does |-> "delete", of |-> x]
Revocation(x) == [does |-> "revoke_cert", of |-> x]

CreatePlaces == {"new", "sign", "sign_locked", "signed", "post_create", "bundle", "holds", "end"}
RevokePlaces == {"new", "revoke", "revoke_locked"}
DeletePlaces == RevokePlaces \cup {"revoke_done", "tell", "end"}

Go(h, place) == at' = [at EXCEPT ![h] = place]

(* revoke_cert may be called again.                                        *)
Answered(h) == Go(h, IF h.does = "revoke_cert" THEN "new" ELSE "end")

(* External: ocsprest makes its responses from the database of the CA.     *)
Refreshed ==
  /\ ocspGood' = {x \in Holders : issued[x] > 0} \ revoked
  /\ ocspRevoked' = revoked

CfsslInit ==
  /\ issued = [x \in Holders |-> 0]
  /\ revoked = {} /\ ocspGood = {} /\ ocspRevoked = {}
  /\ certfile = {} /\ deleted = {} /\ heard = {} /\ tasks = {}
  /\ at = [h \in Work |-> "new"]
  /\ locked = 0 /\ failed = 0 /\ lost = 0

-------------------------------------------------------------------------------
(* create_with_cert, or csr_common or renew_csr, calls sign_csr.           *)
Sign(x) ==
  /\ at[Creation(x)] = "new"
  /\ Go(Creation(x), "sign")
  /\ UNCHANGED <<ca, ocsp, certfile, deleted, heard, tasks, locked, failed, lost>>

(* External: the CA signs.                                                 *)
CaSigns(h) ==
  /\ at[h] = "sign"
  /\ issued' = [issued EXCEPT ![h.of] = @ + 1]
  /\ Go(h, "signed")
  /\ UNCHANGED <<revoked, ocsp, certfile, deleted, heard, tasks, locked, failed, lost>>

(* Error 11000 of the CA: DBLocked.  It has done nothing.                  *)
CaLocked(h) ==
  /\ locked < MaxLocked /\ locked' = locked + 1
  /\ \/ at[h] = "sign" /\ Go(h, "sign_locked")
     \/ at[h] = "revoke" /\ Go(h, "revoke_locked")
  /\ UNCHANGED <<ca, ocsp, certfile, deleted, heard, tasks, failed, lost>>

(* Mutant: the answer is not looked at before the retry.                   *)
SignAgainAnyway(h) ==
  /\ at[h] \in {"sign_locked", "signed"}
  /\ Go(h, "sign")
  /\ UNCHANGED <<ca, ocsp, certfile, deleted, heard, tasks, locked, failed, lost>>

(* Mutant: the CA is left alone after it was locked.                       *)
TryAgainNever(h) ==
  /\ at[h] \in {"sign_locked", "revoke_locked"}
  /\ Go(h, "end")
  /\ UNCHANGED <<ca, ocsp, certfile, deleted, heard, tasks, locked, failed, lost>>

(* After 0.1 s.                                                            *)
TryAgain(h) ==
  /\ \/ at[h] = "sign_locked" /\ Go(h, "sign")
     \/ at[h] = "revoke_locked" /\ Go(h, "revoke")
  /\ UNCHANGED <<ca, ocsp, certfile, deleted, heard, tasks, locked, failed, lost>>

(* The answer of the CA: sign_csr starts a refresh; create_with_cert       *)
(* writes the certificate and goes to Keycloak, csr_common to get_bundle.  *)
SignReply(h) ==
  /\ at[h] = "signed"
  /\ tasks' = tasks \cup {Task("refresh", h.of, "all")}
  /\ certfile' = certfile \cup {h.of}
  /\ Go(h, IF h.of \in Persons THEN "post_create" ELSE "bundle")
  /\ UNCHANGED <<ca, ocsp, deleted, heard, locked, failed, lost>>

(* The rest of _post_create.                                               *)
PostCreate(h) ==
  /\ at[h] = "post_create"
  /\ tasks' = tasks \cup {Task("refresh2", h.of, "all"), Task("created", h.of, "all")}
  /\ Go(h, "holds")
  /\ UNCHANGED <<ca, ocsp, certfile, deleted, heard, locked, failed, lost>>

(* get_bundle refreshes first; then the product has its answer.            *)
GetBundle(h) ==
  /\ at[h] = "bundle"
  /\ Refreshed
  /\ Go(h, "holds")
  /\ UNCHANGED <<ca, certfile, deleted, heard, tasks, locked, failed, lost>>

(* The deletion of a person with a certificate, whose creation may still   *)
(* be waiting for Keycloak: the date is committed before the CA is called. *)
Revoke(x) ==
  /\ x \in (Persons \cap certfile) \ deleted
  /\ deleted' = deleted \cup {x}
  /\ Go(Deletion(x), "revoke")
  /\ UNCHANGED <<ca, ocsp, certfile, heard, tasks, locked, failed, lost>>

(* revoke_cert: a product posts any certificate there is, revoked or not.  *)
RevokeCert(x) ==
  /\ at[Revocation(x)] = "new" /\ x \in certfile
  /\ Go(Revocation(x), "revoke")
  /\ UNCHANGED <<ca, ocsp, certfile, deleted, heard, tasks, locked, failed, lost>>

(* revoke_serial: the CA revokes.  A product then has its answer.          *)
CaRevokes(h) ==
  /\ at[h] = "revoke"
  /\ revoked' = revoked \cup {h.of}
  /\ IF h.does = "delete" THEN Go(h, "revoke_done") ELSE Answered(h)
  /\ UNCHANGED <<issued, ocsp, certfile, deleted, heard, tasks, locked, failed, lost>>

(* user_revoked refreshes in the handler,                                  *)
RevokedRefresh(h) ==
  /\ at[h] = "revoke_done"
  /\ Refreshed
  /\ Go(h, "tell")
  /\ UNCHANGED <<ca, certfile, deleted, heard, tasks, locked, failed, lost>>

(* and makes a task for every product.                                     *)
RevokedTell(h) ==
  /\ at[h] = "tell"
  /\ tasks' = tasks \cup {Task("revoked", h.of, q) : q \in Products}
  /\ Go(h, "end")
  /\ UNCHANGED <<ca, ocsp, certfile, deleted, heard, locked, failed, lost>>

-------------------------------------------------------------------------------
(* Mutant: the notification goes out without a refresh.                    *)
TaskRefreshSkipped(t) ==
  /\ t \in tasks /\ t.to = "all"
  /\ tasks' = (tasks \ {t}) \cup
              {Task(t.kind, t.of, q) : q \in IF t.kind = "created" THEN Products ELSE {}}
  /\ UNCHANGED <<ca, ocsp, certfile, deleted, heard, at, locked, failed, lost>>

(* A task that refreshes, and a notification then has a task per product.  *)
TaskRefresh(t) ==
  /\ t \in tasks /\ t.to = "all"
  /\ Refreshed
  /\ tasks' = (tasks \ {t}) \cup
              {Task(t.kind, t.of, q) : q \in IF t.kind = "created" THEN Products ELSE {}}
  /\ UNCHANGED <<ca, certfile, deleted, heard, at, locked, failed, lost>>

Post(t) ==
  /\ t \in tasks /\ t.to \in Products
  /\ heard' = heard \cup {<<t.to, t.kind, t.of>>}
  /\ tasks' = tasks \ {t}
  /\ UNCHANGED <<ca, ocsp, certfile, deleted, at, locked, failed, lost>>

(* A call times out, is refused, or its answer is lost: the handler        *)
(* raises.  What the CA has done stays done.                               *)
CallFails(h) ==
  /\ failed + lost < MaxFailures /\ failed' = failed + 1
  /\ at[h] \notin {"new", "holds", "end"}
  /\ Answered(h)
  /\ UNCHANGED <<ca, ocsp, certfile, deleted, heard, tasks, locked, lost>>

TaskFails(t) ==
  /\ failed + lost < MaxFailures /\ lost' = lost + 1
  /\ t \in tasks
  /\ tasks' = tasks \ {t}
  /\ UNCHANGED <<ca, ocsp, certfile, deleted, heard, at, locked, failed>>

-------------------------------------------------------------------------------
Proceed(h) ==
  \/ CaSigns(h) \/ TryAgain(h) \/ SignReply(h) \/ PostCreate(h) \/ GetBundle(h)
  \/ CaRevokes(h) \/ RevokedRefresh(h) \/ RevokedTell(h)

RunTask == \E t \in tasks : TaskRefresh(t) \/ Post(t)

CfsslNext ==
  \/ \E x \in Holders : Sign(x) \/ Revoke(x) \/ RevokeCert(x)
  \/ \E h \in Work : Proceed(h) \/ CaLocked(h) \/ CallFails(h)
  \/ RunTask
  \/ \E t \in tasks : TaskFails(t)

CfsslSpec == CfsslInit /\ [][CfsslNext]_cfsslVars

-------------------------------------------------------------------------------
CfsslTypeOK ==
  /\ issued \in [Holders -> Nat]
  /\ revoked \subseteq certfile /\ deleted \subseteq certfile \cap Persons
  /\ ocspGood \subseteq Holders /\ ocspRevoked \subseteq revoked
  /\ certfile \subseteq Holders
  /\ heard \subseteq (Products \X Kinds \X Holders)
  /\ tasks \subseteq Tasks
  /\ at \in [Work -> CreatePlaces \cup DeletePlaces]
  /\ \A x \in Holders : /\ at[Creation(x)] \in CreatePlaces
                        /\ at[Deletion(x)] \in DeletePlaces
                        /\ at[Revocation(x)] \in RevokePlaces
  /\ locked \in 0..MaxLocked /\ failed \in 0..MaxFailures /\ lost \in 0..MaxFailures

Known(x) == x \in ocspGood \cup ocspRevoked

(* Trying again after a locked database never makes the CA sign twice.     *)
RetrySignsOnce == \A x \in Holders : issued[x] <= 1

(* ocsprest has heard of a certificate before a product is told of the     *)
(* person or gets its own bundle, and of a revocation before a product is  *)
(* told, whichever refreshes, retries and failures come first.             *)
KnownBeforeTold ==
  /\ \A q \in Products, x \in Holders :
       /\ <<q, "created", x>> \in heard => Known(x)
       /\ <<q, "revoked", x>> \in heard => x \in ocspRevoked
  /\ \A q \in Products : at[Creation(q)] = "holds" => Known(q)

(* Liveness, until something fails: the certificate of a deleted person is *)
(* called revoked and every product is told, however long the CA was       *)
(* locked.                                                                 *)
DeletedIsRevoked ==
  \A x \in Persons :
    x \in deleted ~> \/ x \in ocspRevoked /\ \A q \in Products : <<q, "revoked", x>> \in heard
                    \/ failed + lost > 0

(* Its safety half: as long as something of this is missing, the handler   *)
(* of the deletion is at it or the task that tells the product is there.   *)
DeletedIsInHand ==
  failed + lost = 0 =>
    \A x \in deleted :
      \/ at[Deletion(x)] \in {"revoke", "revoke_locked", "revoke_done", "tell"}
      \/ /\ x \in ocspRevoked
         /\ \A q \in Products : <<q, "revoked", x>> \in heard \/ Task("revoked", x, q) \in tasks

(* The inductive invariant: what the CA and ocsprest have done by the time *)
(* a handler or a task gets where it is.                                   *)
HandlerInv ==
  /\ \A x \in Holders :
       /\ at[Creation(x)] \in {"new", "sign", "sign_locked"} => issued[x] = 0
       /\ at[Creation(x)] = "signed" => issued[x] = 1
       /\ at[Creation(x)] \in {"post_create", "bundle", "holds"} => x \in certfile
       /\ at[Creation(x)] = "post_create" => x \in Persons
       /\ at[Deletion(x)] = "revoke_done" => x \in revoked
       /\ at[Deletion(x)] = "tell" => x \in ocspRevoked
  /\ \A h \in Work : at[h] \in {"revoke", "revoke_locked"} => h.of \in certfile

TaskInv ==
  \A t \in tasks :
    /\ issued[t.of] = 1
    /\ t.to # "all" => /\ t.kind = "created" => Known(t.of)
                       /\ t.kind = "revoked" => t.of \in ocspRevoked

CfsslInv ==
  /\ RetrySignsOnce /\ KnownBeforeTold /\ HandlerInv /\ TaskInv
  /\ \A x \in certfile \cup ocspGood : issued[x] = 1
===============================================================================
