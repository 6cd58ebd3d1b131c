------------------------------ MODULE Enrollment ------------------------------
(***************************************************************************)
(* Enrollments and the person records, certificates and Keycloak users     *)
(* they turn into: db/enrollments.py, db/people.py and the handlers of     *)
(* web/api/enrollment and web/api/people that drive them.                  *)
(*                                                                         *)
(* A handler is a sequence of steps, each at most one database             *)
(* transaction.  The service runs several gunicorn workers.  Inside one    *)
(* worker the database layer is synchronous, so a handler gives up the     *)
(* event loop only where it awaits the CA or Keycloak (AwaitPoints);       *)
(* handlers of different workers interleave between any two steps.         *)
(*                                                                         *)
(* A callsign column is unique (exact match) and rows are never physically *)
(* removed, so both tables are keyed by callsign.  Lookups fold case.      *)
(***************************************************************************)
EXTENDS Handlers, Integers, FiniteSets

CONSTANTS
  Callsigns,    (* the callsigns clients ask for, as spelled               *)
  Fold,         (* [Callsigns -> Callsigns]: the spelling lower() gives    *)
  ProductCNs,   (* callsigns that are the CN of a product                  *)
  ServiceCN,    (* the CN of rasenmaeher itself                            *)
  Admins,       (* the admins that accept, lock and delete                 *)
  Nobody,       (* SQL NULL in a column that references a person           *)
  MaxResets     (* bound: times an approvecode is replaced                 *)

ASSUME ConstantsAssumption ==
  /\ Fold \in [Callsigns -> Callsigns]
  /\ ProductCNs \subseteq Callsigns
  /\ Nobody \notin Admins \cup Callsigns
  /\ MaxResets \in Nat

VARIABLES
  enrollment,   (* the enrollments table                                   *)
  users,        (* callsigns with a row in the users table                 *)
  deleted,      (* those whose row has a deleted timestamp                 *)
  linked,       (* those whose stored extra holds a kc_uuid                *)
  certfile,     (* those whose mtls.pem is on disk                         *)
  signed,       (* how many certificates the CA has signed per callsign    *)
  revoked,      (* callsigns whose certificate the CA has revoked          *)
  kcusers       (* callsigns with a user in Keycloak                       *)

db    == <<enrollment, users, deleted, linked>>
world == <<certfile, signed, revoked, kcusers>>
vars  == <<db, world, pc, job, home, failures>>

-------------------------------------------------------------------------------
(* Rows and local variables.                                               *)

States == {"PENDING", "APPROVED", "REJECTED"}
Codes  == 0..MaxResets   (* successive approvecodes of one enrollment       *)

(* What extra holds: JSON null for a pool enrollment, {} for init.         *)
Extras == {"null", "dict"}

EnrollmentRow ==
  [state : States, decided_by : Admins \cup {Nobody}, person : BOOLEAN,
   approvecode : Codes, extra : Extras]
NoRow == [state |-> "NONE", decided_by |-> Nobody, person |-> FALSE,
          approvecode |-> 0, extra |-> "null"]

NewRow(extra) == [state |-> "PENDING", decided_by |-> Nobody, person |-> FALSE,
                  approvecode |-> 0, extra |-> extra]

(* cs: the row worked on; by: the acting admin; seen: the enrollment as it *)
(* was loaded; kc: the kc_uuid as it was loaded.                           *)
Job(c, a, row) == [cs |-> c, by |-> a, seen |-> row, kc |-> FALSE]
Jobs  == [cs : Callsigns \cup {Nobody}, by : Admins \cup {Nobody},
          seen : EnrollmentRow \cup {NoRow}, kc : BOOLEAN]
NoJob == Job(Nobody, Nobody, NoRow)

Creating == {"acc_sign", "acc_signed", "acc_kc", "acc_kcdone", "acc_link", "acc_commit"}
Deleting == {"del_check", "del_mark", "del_base", "del_revoke", "del_revoked", "del_kc"}
Busy     == {"init_insert", "acc_check", "acc_insert", "lock_commit"}
              \cup Creating \cup Deleting

(* Points where the handler awaits something outside the process.          *)
AwaitPoints == {"acc_sign", "acc_signed", "acc_kc", "acc_kcdone",
                "del_revoke", "del_revoked", "del_kc"}

Enrolled       == {c \in Callsigns : enrollment[c].state # "NONE"}
Matches(S, c)  == {d \in S : Fold[d] = Fold[c]}

MayRun(r)      == LoopIsFree(r, AwaitPoints)
At(r, label)   == pc[r] = label /\ MayRun(r)

(* A new request has done its first read and goes on at label.             *)
Begin(r, label, j) ==
  /\ At(r, "idle")
  /\ Goto(r, label)
  /\ job' = [job EXCEPT ![r] = j]

Finish(r) == Leave(r, NoJob)

(* An UPDATE carries only the attributes whose value differs from the one  *)
(* loaded; the others keep whatever the row holds by now.                  *)
Dirty(current, loaded, new) == IF new = loaded THEN current ELSE new

Init ==
  /\ enrollment = [c \in Callsigns |-> NoRow]
  /\ users = {} /\ deleted = {} /\ linked = {}
  /\ certfile = {} /\ revoked = {} /\ kcusers = {}
  /\ signed = [c \in Callsigns |-> 0]
  /\ NoRequests(NoJob)

-------------------------------------------------------------------------------
(* Mutant: the availability check compares exactly.                        *)
CreateCheckExact(r, c, extra) ==
  /\ c \notin ProductCNs \cup Enrolled
  /\ Begin(r, "init_insert", Job(c, Nobody, NewRow(extra)))
  /\ UNCHANGED <<db, world, failures>>

(* /enrollment/init and /invitecode/enroll: create_for_callsign.  Another  *)
(* spelling of the callsign in the table answers 403.                      *)
CreateCheck(r, c, extra) ==
  /\ c \notin ProductCNs
  /\ Matches(Enrolled, c) = {}
  /\ Begin(r, "init_insert", Job(c, Nobody, NewRow(extra)))
  /\ UNCHANGED <<db, world, failures>>

CreateInsert(r) ==
  LET c == job[r].cs IN
  /\ At(r, "init_insert")
  /\ \/ /\ c \notin Enrolled
        /\ enrollment' = [enrollment EXCEPT ![c] = job[r].seen]
     \/ /\ c \in Enrolled            (* IntegrityError, 500                 *)
        /\ UNCHANGED enrollment
  /\ Finish(r)
  /\ UNCHANGED <<users, deleted, linked, world, failures>>

(* /enrollment/generate-verification-code, by the enrolling client.        *)
ResetApprovecode(c) ==
  /\ c \in Enrolled
  /\ enrollment[c].approvecode < MaxResets
  /\ enrollment' = [enrollment EXCEPT ![c].approvecode = @ + 1]
  /\ UNCHANGED <<users, deleted, linked, world, pc, job, home, failures>>

-------------------------------------------------------------------------------
(* /enrollment/accept.  The admin names a callsign and a code; the code is *)
(* compared with that of the row the lookup returned.                      *)
AcceptLoad(r, c, a, code) ==
  \E e \in Matches(Enrolled, c) :
    /\ code = enrollment[e].approvecode
    /\ Begin(r, "acc_check", Job(e, a, enrollment[e]))
    /\ UNCHANGED <<db, world, failures>>

(* create_with_cert: the lookup may return any spelling; a live person     *)
(* reserves the callsign, a deleted one raises Deleted, a NotFound.        *)
AcceptCheck(r) ==
  LET c == job[r].cs IN
  /\ At(r, "acc_check")
  /\ \/ /\ c \notin ProductCNs \cup {ServiceCN}
        /\ \/ Matches(users, c) = {}
           \/ Matches(users, c) \cap deleted # {}
        /\ Goto(r, "acc_insert")
        /\ UNCHANGED job
     \/ /\ \/ c \in ProductCNs \cup {ServiceCN}
           \/ Matches(users, c) \ deleted # {}
        /\ Finish(r)
  /\ UNCHANGED <<db, world, failures>>

(* Mutant: an existing row is taken over (an upsert).                      *)
AcceptUpsert(r) ==
  /\ At(r, "acc_insert")
  /\ users' = users \cup {job[r].cs}
  /\ Goto(r, "acc_sign")
  /\ UNCHANGED <<enrollment, deleted, linked, world, job, failures>>

(* The row is committed before the certificate is asked for.               *)
AcceptInsert(r) ==
  LET c == job[r].cs IN
  /\ At(r, "acc_insert")
  /\ \/ /\ c \notin users
        /\ users' = users \cup {c}
        /\ Goto(r, "acc_sign")
        /\ UNCHANGED job
     \/ /\ c \in users               (* IntegrityError, BackendError        *)
        /\ UNCHANGED users
        /\ Finish(r)
  /\ UNCHANGED <<enrollment, deleted, linked, world, failures>>

CaSign(r) ==
  LET c == job[r].cs IN
  /\ pc[r] = "acc_sign"
  /\ signed' = [signed EXCEPT ![c] = @ + 1]
  /\ Goto(r, "acc_signed")
  /\ UNCHANGED <<db, certfile, revoked, kcusers, job, failures>>

(* The certificate arrives and is written next to the key.                 *)
AcceptCert(r) ==
  LET c == job[r].cs IN
  /\ At(r, "acc_signed")
  /\ certfile' = certfile \cup {c}
  /\ Goto(r, "acc_kc")
  /\ UNCHANGED <<db, signed, revoked, kcusers, job, failures>>

(* Keycloak folds usernames and create_kc_user passes exist_ok=False.      *)
KcCreate(r) ==
  LET c == job[r].cs IN
  /\ pc[r] = "acc_kc"
  /\ \/ /\ Matches(kcusers, c) = {}
        /\ kcusers' = kcusers \cup {c}
        /\ Goto(r, "acc_kcdone")
        /\ UNCHANGED job
     \/ /\ Matches(kcusers, c) # {}
        /\ UNCHANGED kcusers
        /\ Finish(r)
  /\ UNCHANGED <<db, certfile, signed, revoked, failures>>

(* Mutant: the answer of Keycloak is the end of the handler.               *)
AcceptKcReplyEnds(r) ==
  /\ At(r, "acc_kcdone")
  /\ Finish(r)
  /\ UNCHANGED <<db, world, failures>>

AcceptKcReply(r) ==
  /\ At(r, "acc_kcdone")
  /\ Goto(r, "acc_link")
  /\ UNCHANGED <<db, world, job, failures>>

(* update_from_kcdata changes extra in place.  The session notices that    *)
(* only for the dict get_kcdata assigned in place of a null.               *)
AcceptLink(r) ==
  LET c == job[r].cs IN
  /\ At(r, "acc_link")
  /\ linked' = IF job[r].seen.extra = "null" THEN linked \cup {c} ELSE linked
  /\ Goto(r, "acc_commit")
  /\ UNCHANGED <<enrollment, users, deleted, world, job, failures>>

(* Mutant: approve forgets the reference to the person.                    *)
ApprovedUnreferenced(row, seen, a) ==
  [row EXCEPT !.state      = Dirty(@, seen.state, "APPROVED"),
              !.decided_by = Dirty(@, seen.decided_by, a)]

(* The rest of Enrollment.approve, on the object loaded at the start.      *)
Approved(row, seen, a) ==
  [row EXCEPT !.state      = Dirty(@, seen.state, "APPROVED"),
              !.decided_by = Dirty(@, seen.decided_by, a),
              !.person     = TRUE]

AcceptCommit(r) ==
  LET c == job[r].cs IN
  /\ At(r, "acc_commit")
  /\ enrollment' = [enrollment EXCEPT ![c] = Approved(@, job[r].seen, job[r].by)]
  /\ Finish(r)
  /\ UNCHANGED <<users, deleted, linked, world, failures>>

-------------------------------------------------------------------------------
(* /enrollment/lock: load, then Enrollment.reject.                         *)
LockLoad(r, c, a) ==
  \E e \in Matches(Enrolled, c) :
    /\ Begin(r, "lock_commit", Job(e, a, enrollment[e]))
    /\ UNCHANGED <<db, world, failures>>

(* Mutant: reject forgets who decided.                                     *)
RejectedByNobody(row, seen, a) ==
  [row EXCEPT !.state = Dirty(@, seen.state, "REJECTED")]

Rejected(row, seen, a) ==
  [row EXCEPT !.state      = Dirty(@, seen.state, "REJECTED"),
              !.decided_by = Dirty(@, seen.decided_by, a)]

LockCommit(r) ==
  LET c == job[r].cs IN
  /\ At(r, "lock_commit")
  /\ enrollment' = [enrollment EXCEPT ![c] = Rejected(@, job[r].seen, job[r].by)]
  /\ Finish(r)
  /\ UNCHANGED <<users, deleted, linked, world, failures>>

-------------------------------------------------------------------------------
(* DELETE /people/{callsign}: Person.delete and Person.revoke.             *)
DeleteLoad(r, c, a) ==
  \E p \in Matches(users, c) :
    /\ p \notin deleted
    /\ Begin(r, "del_check", Job(p, a, NoRow))
    /\ UNCHANGED <<db, world, failures>>

(* Is there a certificate to revoke?                                       *)
DeleteCheck(r) ==
  /\ At(r, "del_check")
  /\ Goto(r, IF job[r].cs \in certfile THEN "del_mark" ELSE "del_base")
  /\ UNCHANGED <<db, world, job, failures>>

(* Mutant: the row is removed instead of marked.                           *)
DeleteRow(r) ==
  /\ At(r, "del_base")
  /\ users' = users \ {job[r].cs}
  /\ Finish(r)
  /\ UNCHANGED <<enrollment, deleted, linked, world, failures>>

DeleteBase(r) ==
  /\ At(r, "del_base")
  /\ deleted' = deleted \cup {job[r].cs}
  /\ Finish(r)
  /\ UNCHANGED <<enrollment, users, linked, world, failures>>

(* Mutant: the handler ends with the commit.                               *)
DeleteMarkOnly(r) ==
  /\ At(r, "del_mark")
  /\ deleted' = deleted \cup {job[r].cs}
  /\ Finish(r)
  /\ UNCHANGED <<enrollment, users, linked, world, failures>>

(* The commit expires the object; it is read again before revoke_pem.      *)
DeleteMark(r) ==
  LET c == job[r].cs IN
  /\ At(r, "del_mark")
  /\ deleted' = deleted \cup {c}
  /\ job' = [job EXCEPT ![r].kc = (c \in linked)]
  /\ Goto(r, "del_revoke")
  /\ UNCHANGED <<enrollment, users, linked, world, failures>>

CaRevoke(r) ==
  /\ pc[r] = "del_revoke"
  /\ revoked' = revoked \cup {job[r].cs}
  /\ Goto(r, "del_revoked")
  /\ UNCHANGED <<db, certfile, signed, kcusers, job, failures>>

(* user_revoked: delete_kc_user does nothing without a kc_uuid.            *)
DeleteRevoked(r) ==
  /\ At(r, "del_revoked")
  /\ \/ /\ job[r].kc
        /\ Goto(r, "del_kc")
        /\ UNCHANGED job
     \/ /\ ~job[r].kc
        /\ Finish(r)
  /\ UNCHANGED <<db, world, failures>>

KcDelete(r) ==
  /\ pc[r] = "del_kc"
  /\ kcusers' = kcusers \ {job[r].cs}
  /\ Finish(r)
  /\ UNCHANGED <<db, certfile, signed, revoked, failures>>

-------------------------------------------------------------------------------
(* An external call raises or times out: every handler gives up without    *)
(* undoing what it committed.  create_with_cert removes the certificate    *)
(* directory, in which mtls.pem is not written yet.                        *)
CallFails(r) ==
  /\ failures < MaxFailures
  /\ pc[r] \in AwaitPoints /\ MayRun(r)
  /\ failures' = failures + 1
  /\ Finish(r)
  /\ UNCHANGED <<db, world, home>>

(* A worker dies; all its requests are gone.                               *)
WorkerCrash(w) == Dies(w, NoJob) /\ UNCHANGED <<db, world>>

-------------------------------------------------------------------------------
(* A client's choice to call an endpoint.                                  *)
Arrive(r) ==
  /\ UNCHANGED home
  /\ \E c \in Callsigns :
       \/ \E extra \in Extras : CreateCheck(r, c, extra)
       \/ \E a \in Admins : \/ \E code \in Codes : AcceptLoad(r, c, a, code)
                            \/ LockLoad(r, c, a)
                            \/ DeleteLoad(r, c, a)

(* A running handler, or the service it waits for, takes a step.           *)
Advance(r) ==
  /\ UNCHANGED home
  /\ \/ CreateInsert(r)
     \/ AcceptCheck(r) \/ AcceptInsert(r) \/ CaSign(r) \/ AcceptCert(r)
     \/ KcCreate(r) \/ AcceptKcReply(r) \/ AcceptLink(r) \/ AcceptCommit(r)
     \/ LockCommit(r)
     \/ DeleteCheck(r) \/ DeleteBase(r) \/ DeleteMark(r)
     \/ CaRevoke(r) \/ DeleteRevoked(r) \/ KcDelete(r)

Next ==
  \/ \E r \in Requests : Arrive(r) \/ Advance(r) \/ CallFails(r)
  \/ \E c \in Callsigns : ResetApprovecode(c)
  \/ \E w \in Workers : WorkerCrash(w)

Spec == Init /\ [][Next]_vars

(* The event loop serves runnable handlers in order and every external     *)
(* call ends (the HTTP clients have timeouts), though another handler may  *)
(* hold the loop again and again in between: strong fairness per request.  *)
FairSpec == Spec /\ \A r \in Requests : SF_vars(Advance(r))

-------------------------------------------------------------------------------
(* Types, and what a running request always works on.                      *)
TypeOK ==
  /\ enrollment \in [Callsigns -> EnrollmentRow \cup {NoRow}]
  /\ users \subseteq Callsigns
  /\ deleted \subseteq users
  /\ linked \subseteq users
  /\ certfile \subseteq users
  /\ revoked \subseteq users
  /\ kcusers \subseteq users
  /\ signed \in [Callsigns -> Nat]
  /\ pc \in [Requests -> Busy \cup {"idle"}]
  /\ job \in [Requests -> Jobs]
  /\ \A r \in Requests : pc[r] # "idle" => job[r].cs \in Callsigns
  /\ home \in Deployments
  /\ failures \in 0..MaxFailures

(* Whatever approvals of a callsign race, fail or are retried, the CA is   *)
(* asked for one certificate at most: only the request whose INSERT of the *)
(* users row went through goes on to sign_csr (people.py 117-125).         *)
SignedOnce == \A c \in Callsigns : signed[c] <= 1

(* An enrollment that is approved, or was before a lock, names a person    *)
(* whose row and certificate exist: approve commits after create_with_cert *)
(* and no later write of a stale copy removes the reference.               *)
ApprovedHasCertificate ==
  \A c \in Callsigns :
    enrollment[c].state = "APPROVED" \/ enrollment[c].person
      => c \in users \cap certfile /\ enrollment[c].person /\ signed[c] = 1

(* However decisions of several admins interleave, and although each write *)
(* carries only the columns that differ from its own stale copy, a decided *)
(* enrollment names who decided and an undecided one nobody.               *)
DecisionIsAttributed ==
  \A c \in Callsigns :
    c \in Enrolled => (enrollment[c].state = "PENDING" <=> enrollment[c].decided_by = Nobody)

(* The CA never revokes the certificate of a person who is still live, and *)
(* only an existing certificate: revoke commits before it calls the CA.    *)
RevokedIsDeleted == revoked \subseteq deleted \cap certfile

(* Keycloak drops the user of a linked person only once the person is      *)
(* deleted, and a link is stored only for a user Keycloak has.             *)
LinkedHasKcUser == linked \subseteq kcusers \cup deleted

(* The check and the INSERT of create_for_callsign run without an await in *)
(* between, but the column compares exactly, so each worker may enroll one *)
(* spelling of a callsign, and none once there is one: a callsign has no   *)
(* more spellings than workers serve requests.                             *)
SpellingsPerWorker ==
  \A c \in Callsigns : Cardinality(Matches(Enrolled, c)) <= Cardinality(Serving)

(* callsign-validity, which the proxy asks on every request with a client  *)
(* certificate: valid is one of the answers it may get.  The lookup        *)
(* returns any spelling there is.                                          *)
IsValid(c, valid) ==
  \/ c \in ProductCNs \cup {ServiceCN} /\ valid
  \/ /\ c \notin ProductCNs \cup {ServiceCN}
     /\ \/ Matches(users, c) = {} /\ ~valid
        \/ \E p \in Matches(users, c) : valid = (p \notin deleted)

(* The answer that for any spelling of the callsign gets, or a product     *)
(* (callsign_validity.py:57): the proxy is told that a person is valid     *)
(* when it is live and never once it is deleted, unless another worker     *)
(* let another spelling in, whose person it then may be told about.  A     *)
(* person has fewer such doubles than workers serve, with one worker none. *)
ValidIsLive ==
  \A c \in users :
    LET doubles == Matches(users, c) \ {c} IN
    /\ Cardinality(doubles) < Cardinality(Serving)
    /\ \A valid \in BOOLEAN :
         IsValid(c, valid) <=> \/ valid = (c \notin deleted)
                              \/ \E d \in doubles : valid = (d \notin deleted)

(* The inductive invariant.  Accepting handlers, and the part of them that *)
(* has the certificate; deletions that go on to the CA.                    *)
Accepting == {"acc_check", "acc_insert"} \cup Creating
Certified == {"acc_kc", "acc_kcdone", "acc_link", "acc_commit"}
Revoking  == {"del_revoke", "del_revoked", "del_kc"}

RowInv ==
  \A c \in Callsigns :
    /\ c \in users => c \in Enrolled
    /\ c \notin users => signed[c] = 0
    /\ c \in users => signed[c] \in {0, 1}
    /\ c \in certfile => signed[c] = 1
    /\ enrollment[c].person => c \in certfile
    /\ enrollment[c].state = "APPROVED" => enrollment[c].person

OneCreator ==
  \A r, q \in Requests :
    pc[r] \in Creating /\ pc[q] \in Creating /\ job[r].cs = job[q].cs => r = q

CreatorInv ==
  \A r \in Requests : pc[r] \in Creating =>
    LET c == job[r].cs IN
    /\ c \in users
    /\ ~enrollment[c].person
    /\ signed[c] = IF pc[r] = "acc_sign" THEN 0 ELSE 1
    /\ pc[r] \in Certified => c \in certfile
    /\ pc[r] \in {"acc_kcdone", "acc_link"} => c \in kcusers
    /\ pc[r] # "acc_commit" => c \notin linked

DeleterInv ==
  \A r \in Requests : pc[r] \in Deleting =>
    LET c == job[r].cs IN
    /\ c \in users
    /\ pc[r] \in Revoking \cup {"del_mark"} => c \in certfile
    /\ pc[r] \in Revoking => c \in deleted
    /\ job[r].kc \/ pc[r] = "del_kc" => c \in linked

(* A stale copy is never ahead of the row.                                 *)
SnapshotInv ==
  \A r \in Requests :
    LET c == job[r].cs   seen == job[r].seen IN
    /\ pc[r] = "init_insert" =>
         /\ seen \in EnrollmentRow
         /\ seen.state = "PENDING" /\ seen.decided_by = Nobody /\ ~seen.person
    /\ pc[r] \in Accepting \cup {"lock_commit"} =>
         /\ job[r].by \in Admins
         /\ c \in Enrolled
         /\ seen \in EnrollmentRow
         /\ seen.state = "PENDING" <=> seen.decided_by = Nobody
         /\ seen.state = "APPROVED" => c \in users
         /\ seen.state # "PENDING" => enrollment[c].state # "PENDING"
         /\ seen.decided_by # Nobody => enrollment[c].decided_by # Nobody
    /\ pc[r] \in Creating => seen.state # "APPROVED"

(* The requests between the check of a new callsign and its INSERT, and    *)
(* the workers about to enroll a spelling of c.                            *)
Inserting    == {r \in Requests : pc[r] = "init_insert"}
Enrolling(c) == {home[r] : r \in {q \in Inserting : Fold[job[q].cs] = Fold[c]}}

(* A worker enrolls one client at a time, and one that has enrolled a      *)
(* spelling finds it from then on.                                         *)
SpellingInv ==
  /\ \A r, q \in Inserting : home[r] = home[q] => r = q
  /\ \A c \in Callsigns :
       /\ IsFiniteSet(Matches(Enrolled, c))
       /\ Cardinality(Matches(Enrolled, c)) + Cardinality(Enrolling(c)) <= Cardinality(Serving)

(* No person has the callsign of a product.                                *)
ReservedInv ==
  /\ users \cap (ProductCNs \cup {ServiceCN}) = {}
  /\ \A r \in Requests :
       pc[r] = "acc_insert" => job[r].cs \notin ProductCNs \cup {ServiceCN}

(* Everything the handlers rely on, strong enough to be preserved by every *)
(* step: it says which stale copies, half-created persons and half-done    *)
(* deletions may exist next to which rows.                                 *)
IInv ==
  /\ TypeOK
  /\ RowInv /\ OneCreator /\ CreatorInv /\ DeleterInv /\ SnapshotInv
  /\ DecisionIsAttributed /\ RevokedIsDeleted /\ LinkedHasKcUser

(* Liveness, when nothing fails: an accept that got as far as inserting    *)
(* the person ends with the enrollment referring to it.                    *)
InsertedIsReferenced ==
  \A c \in Callsigns : c \in users ~> enrollment[c].person

(* Its safety half, for callsigns nobody else spells differently: as long  *)
(* as the enrollment does not refer to the person, the accept that has     *)
(* inserted it is under way.                                               *)
InsertedIsInHand ==
  failures = 0 =>
    \A c \in users : \/ enrollment[c].person
                     \/ \E r \in Requests : pc[r] \in Creating /\ job[r].cs = c
                     \/ Matches(users, c) # {c}

(* Liveness, when nothing fails: a deletion that found a certificate gets  *)
(* it revoked, whatever else happens to the same callsign.                 *)
FoundCertificateIsRevoked ==
  \A c \in Callsigns :
    (\E r \in Requests : pc[r] = "del_mark" /\ job[r].cs = c) ~> c \in revoked

-------------------------------------------------------------------------------
(* The promise of Account: however handlers interleave and whatever fails, *)
(* each callsign goes through the life cycle stated there.                 *)
decisionOf == [c \in Callsigns |-> enrollment[c].state]
accountOf ==
  [c \in Callsigns |-> IF c \notin users THEN "none"
                       ELSE IF c \in deleted THEN "closed" ELSE "open"]
certificateOf ==
  [c \in Callsigns |-> IF signed[c] = 0 THEN "none"
                       ELSE IF c \in revoked THEN "revoked" ELSE "issued"]

A == INSTANCE Account WITH decision <- decisionOf, account <- accountOf,
                           certificate <- certificateOf

(* Enrollment implements Account (db/people.py, db/enrollments.py).        *)
AccountSpec == A!Spec

-------------------------------------------------------------------------------
(* What the repository says and the code does not do; the property of a    *)
(* run that expects a violation.                                           *)

(* "Lock callsign/user/enrollment so it cannot be used anymore."           *)
LockIsFinal ==
  [][\A c \in Callsigns :
       enrollment[c].state = "REJECTED" => enrollment'[c].state = "REJECTED"]_vars
===============================================================================
