------------------------------- MODULE FirstUser -------------------------------
(***************************************************************************)
(* /firstuser/add-admin: one handler that composes the creation of         *)
(* anon_admin, an enrollment, its approval, the admin role and a login     *)
(* code, each a commit of its own; and the background tasks that tell the  *)
(* products about it (user_created, user_promoted, post_to_all_products),  *)
(* for which the handler waits before it promotes.                         *)
(*                                                                         *)
(* Steps and workers are as in Enrollment.  What create_with_cert does on  *)
(* its way is shown there; here it is a row, a certificate and the call    *)
(* to Keycloak.  Nobody deletes anon_admin, and nobody else promotes the   *)
(* new admin before the handler does.                                      *)
(***************************************************************************)
EXTENDS Handlers, Integers, FiniteSets

CONSTANTS
  Callsigns,    (* the admins to add, as spelled                           *)
  AnonAdmin,    (* the person that approves them                           *)
  Products,     (* the products in the KRAFTWERK manifest                  *)
  Nobody        (* no callsign                                             *)

People == Callsigns \cup {AnonAdmin}

ASSUME ConstantsAssumption ==
  /\ AnonAdmin \notin Callsigns
  /\ Nobody \notin People
  /\ "prepare" \notin Products

VARIABLES
  users,        (* people with a row in the users table                    *)
  certfile,     (* those whose mtls.pem is on disk                         *)
  enrolled,     (* callsigns with a row in the enrollments table           *)
  approved,     (* those whose row is APPROVED and names the person        *)
  roles,        (* rows of the roles table: person and role                *)
  codes,        (* how many login codes were created for each callsign     *)
  tasks,        (* background tasks that have not ended                    *)
  heard         (* what each product was told of whom                      *)

db   == <<users, certfile, enrolled, approved, roles, codes>>
vars == <<db, tasks, heard, pc, job, home, failures>>

-------------------------------------------------------------------------------
(* The callsign to add, and the person being created.                      *)
Job(c, p) == [cs |-> c, who |-> p]
Jobs  == [cs : Callsigns \cup {Nobody}, who : People \cup {Nobody}]
NoJob == Job(Nobody, Nobody)

(* A task prepares (Keycloak, OCSP refresh), then one task per product     *)
(* posts; worker: the process whose TaskMaster holds it.                   *)
Kinds == {"created", "promoted"}
Tasks == [kind : Kinds, of : People, at : Products \cup {"prepare"}, worker : Workers]
Task(kind, p, w) == [kind |-> kind, of |-> p, at |-> "prepare", worker |-> w]

AwaitPoints == {"create_sign", "create_kc", "wait"}
Creating    == {"create_insert", "create_sign", "create_kc"}
Busy        == {"anon_role", "enroll", "approve_commit", "wait", "role", "code"} \cup Creating

Yielded(w) == \A q \in Requests : home[q] = w => pc[q] \in AwaitPoints \cup {"idle"}
MayRun(r)  == LoopIsFree(r, AwaitPoints)

At(r, label)   == pc[r] = label /\ MayRun(r)

(* The handler goes on to create_with_cert of p.                           *)
Create(r, p) == Goto(r, "create_insert") /\ job' = [job EXCEPT ![r].who = p]

Finish(r) == Leave(r, NoJob)

Init ==
  /\ users = {} /\ certfile = {} /\ enrolled = {} /\ approved = {} /\ roles = {}
  /\ codes = [c \in Callsigns |-> 0]
  /\ tasks = {} /\ heard = {}
  /\ NoRequests(NoJob)

-------------------------------------------------------------------------------
(* is_callsign_available says whether there is an anon_admin.              *)
AddAdmin(r, c) ==
  /\ At(r, "idle")
  /\ IF AnonAdmin \in users THEN Goto(r, "enroll") ELSE Goto(r, "create_insert")
  /\ job' = [job EXCEPT ![r] = Job(c, IF AnonAdmin \in users THEN Nobody ELSE AnonAdmin)]
  /\ UNCHANGED <<db, tasks, heard, failures>>

(* create_with_cert: the look at the table and the unique column refuse a  *)
(* second row alike, and the handler raises.                               *)
CreateInsert(r) ==
  /\ At(r, "create_insert")
  /\ \/ /\ job[r].who \notin users
        /\ users' = users \cup {job[r].who}
        /\ Goto(r, "create_sign")
        /\ UNCHANGED job
     \/ /\ job[r].who \in users
        /\ Finish(r)
        /\ UNCHANGED users
  /\ UNCHANGED <<certfile, enrolled, approved, roles, codes, tasks, heard, failures>>

(* The CA answers.                                                         *)
CreateCert(r) ==
  /\ At(r, "create_sign")
  /\ certfile' = certfile \cup {job[r].who}
  /\ Goto(r, "create_kc")
  /\ UNCHANGED <<users, enrolled, approved, roles, codes, tasks, heard, job, failures>>

(* Keycloak answers; the products will be told.                            *)
CreateKcReply(r) ==
  /\ At(r, "create_kc")
  /\ tasks' = tasks \cup {Task("created", job[r].who, home[r])}
  /\ Goto(r, IF job[r].who = AnonAdmin THEN "anon_role" ELSE "approve_commit")
  /\ UNCHANGED <<db, heard, job, failures>>

(* Mutant: anon_admin is left without its role.                            *)
AnonRoleForgotten(r) ==
  /\ At(r, "anon_role")
  /\ Goto(r, "enroll")
  /\ UNCHANGED <<db, tasks, heard, job, failures>>

AnonRole(r) ==
  /\ At(r, "anon_role")
  /\ roles' = roles \cup {<<AnonAdmin, "anon_admin">>}
  /\ Goto(r, "enroll")
  /\ UNCHANGED <<users, certfile, enrolled, approved, codes, tasks, heard, job, failures>>

(* Enrollment.create_for_callsign, then approve calls create_with_cert.    *)
Enroll(r) ==
  /\ At(r, "enroll")
  /\ \/ /\ job[r].cs \notin enrolled
        /\ enrolled' = enrolled \cup {job[r].cs}
        /\ Create(r, job[r].cs)
     \/ /\ job[r].cs \in enrolled
        /\ Finish(r)
        /\ UNCHANGED enrolled
  /\ UNCHANGED <<users, certfile, approved, roles, codes, tasks, heard, failures>>

(* Mutant: nobody waits for the background tasks.                          *)
ApproveCommitOnward(r) ==
  /\ At(r, "approve_commit")
  /\ approved' = approved \cup {job[r].cs}
  /\ Goto(r, "role")
  /\ UNCHANGED <<users, certfile, enrolled, roles, codes, tasks, heard, job, failures>>

ApproveCommit(r) ==
  /\ At(r, "approve_commit")
  /\ approved' = approved \cup {job[r].cs}
  /\ Goto(r, "wait")
  /\ UNCHANGED <<users, certfile, enrolled, roles, codes, tasks, heard, job, failures>>

(* tms_wait sees its worker without background tasks.  Those of create_pfx *)
(* and refresh_ocsp, which change nothing here, are over by then as well.  *)
WaitDone(r) ==
  /\ At(r, "wait")
  /\ \A t \in tasks : t.worker # home[r]
  /\ Goto(r, "role")
  /\ UNCHANGED <<db, tasks, heard, job, failures>>

(* Mutant: the role is not committed.                                      *)
AssignRoleUnsaved(r) ==
  /\ At(r, "role")
  /\ tasks' = tasks \cup {Task("promoted", job[r].cs, home[r])}
  /\ Goto(r, "code")
  /\ UNCHANGED <<db, heard, job, failures>>

(* Mutant: the role is assigned without informing anybody.                 *)
AssignRoleSilently(r) ==
  /\ At(r, "role")
  /\ roles' = roles \cup {<<job[r].cs, "admin">>}
  /\ Goto(r, "code")
  /\ UNCHANGED <<users, certfile, enrolled, approved, codes, tasks, heard, job, failures>>

(* assign_role.  Who has the role already gets 400 ("This shouldn't        *)
(* happen...": IInv says that it does not).                                *)
AssignRole(r) ==
  /\ At(r, "role")
  /\ roles' = roles \cup {<<job[r].cs, "admin">>}
  /\ tasks' = tasks \cup {Task("promoted", job[r].cs, home[r])}
  /\ IF <<job[r].cs, "admin">> \in roles THEN Finish(r)
                                         ELSE Goto(r, "code") /\ UNCHANGED job
  /\ UNCHANGED <<users, certfile, enrolled, approved, codes, heard, failures>>

CreateCode(r) ==
  /\ At(r, "code")
  /\ codes' = [codes EXCEPT ![job[r].cs] = @ + 1]
  /\ Finish(r)
  /\ UNCHANGED <<users, certfile, enrolled, approved, roles, tasks, heard, failures>>

-------------------------------------------------------------------------------
(* Keycloak and OCSP have answered: a task for every product.              *)
Spread(t) ==
  /\ t \in tasks /\ t.at = "prepare" /\ Yielded(t.worker)
  /\ tasks' = (tasks \ {t}) \cup {[t EXCEPT !.at = q] : q \in Products}
  /\ UNCHANGED <<db, heard, pc, job, failures>>

(* The product answers.                                                    *)
Post(t) ==
  /\ t \in tasks /\ t.at \in Products /\ Yielded(t.worker)
  /\ heard' = heard \cup {<<t.at, t.kind, t.of>>}
  /\ tasks' = tasks \ {t}
  /\ UNCHANGED <<db, pc, job, failures>>

(* The CA or Keycloak fails and the handler raises; or the background      *)
(* tasks take longer than 3 seconds and it goes on.                        *)
CallFails(r) ==
  /\ failures < MaxFailures
  /\ \/ At(r, "create_sign") /\ Finish(r)
     \/ At(r, "create_kc") /\ Finish(r)
     \/ At(r, "wait") /\ Goto(r, "role") /\ UNCHANGED job
  /\ failures' = failures + 1
  /\ UNCHANGED <<db, tasks, heard, home>>

(* A task's call fails; it is logged and nothing else.                     *)
TaskFails(t) ==
  /\ failures < MaxFailures
  /\ t \in tasks /\ Yielded(t.worker)
  /\ tasks' = tasks \ {t}
  /\ failures' = failures + 1
  /\ UNCHANGED <<db, heard, pc, job, home>>

(* A worker dies, with its requests and tasks.                             *)
WorkerCrash(w) ==
  /\ Dies(w, NoJob)
  /\ tasks' = {t \in tasks : t.worker # w}
  /\ UNCHANGED <<db, heard>>

-------------------------------------------------------------------------------
Arrive(r) == UNCHANGED home /\ \E c \in Callsigns : AddAdmin(r, c)

Advance(r) ==
  /\ UNCHANGED home
  /\ \/ CreateInsert(r) \/ CreateCert(r) \/ CreateKcReply(r) \/ AnonRole(r)
     \/ Enroll(r) \/ ApproveCommit(r) \/ WaitDone(r) \/ AssignRole(r) \/ CreateCode(r)

RunTask(w) ==
  /\ UNCHANGED home
  /\ \E t \in tasks : t.worker = w /\ (Spread(t) \/ Post(t))

Next ==
  \/ \E r \in Requests : Arrive(r) \/ Advance(r) \/ CallFails(r)
  \/ \E t \in tasks : TaskFails(t)
  \/ \E w \in Workers : RunTask(w) \/ WorkerCrash(w)

Spec == Init /\ [][Next]_vars

(* As in Enrollment; tasks are run by the same event loop.                 *)
FairSpec == /\ Spec
            /\ \A r \in Requests : SF_vars(Advance(r))
            /\ \A w \in Workers : SF_vars(RunTask(w))

-------------------------------------------------------------------------------
TypeOK ==
  /\ users \subseteq People /\ certfile \subseteq users
  /\ enrolled \subseteq Callsigns /\ approved \subseteq enrolled \cap certfile
  /\ roles \subseteq (People \X {"anon_admin", "admin"})
  /\ codes \in [Callsigns -> Nat]
  /\ tasks \subseteq Tasks
  /\ heard \subseteq (Products \X Kinds \X People)
  /\ pc \in [Requests -> Busy \cup {"idle"}]
  /\ job \in [Requests -> Jobs]
  /\ home \in Deployments
  /\ failures \in 0..MaxFailures

IsAdmin(c) == <<c, "admin">> \in roles

(* A login code that makes an admin's session is created once, and only    *)
(* for an approved admin with a certificate, however requests for the same *)
(* callsign or for the missing anon_admin race, fail and are repeated.     *)
CodeMeansAdmin ==
  \A c \in Callsigns :
    /\ codes[c] <= 1
    /\ codes[c] = 1 => IsAdmin(c)
    /\ IsAdmin(c) => c \in approved

(* Whose request is past its enrollment.                                   *)
Owns(r, c) == job[r].cs = c /\ (\/ pc[r] \in {"approve_commit", "wait", "role", "code"}
                                \/ pc[r] \in Creating /\ job[r].who = c)

(* Until something fails a refused request leaves nothing behind: what is  *)
(* not complete is being completed by the request that began it.           *)
InHand(c) == codes[c] = 1 \/ \E r \in Requests : Owns(r, c)

AnonInHand ==
  \/ <<AnonAdmin, "anon_admin">> \in roles
  \/ \E r \in Requests :
       pc[r] \in {"create_sign", "create_kc", "anon_role"} /\ job[r].who = AnonAdmin

NothingHalfDone ==
  failures = 0 =>
    (\A c \in enrolled : InHand(c)) /\ (AnonAdmin \in users => AnonInHand)

(* Until something fails or the wait for the background tasks times out no *)
(* product hears of a promotion before it heard of the person.             *)
CreatedBeforePromoted ==
  failures = 0 =>
    \A q \in Products, c \in Callsigns :
      <<q, "promoted", c>> \in heard => <<q, "created", c>> \in heard

(* Liveness, until something fails: who is enrolled gets a code, and every *)
(* product hears of the new admin.                                         *)
EnrolledIsAnnounced ==
  \A c \in Callsigns :
    c \in enrolled ~> \/ codes[c] = 1 /\ \A q \in Products : <<q, "promoted", c>> \in heard
                      \/ failures > 0

(* The inductive invariant: which request creates what, and what is done   *)
(* by the time it gets there.                                              *)
OneOwner ==
  /\ \A r, q \in Requests, c \in Callsigns : Owns(r, c) /\ Owns(q, c) => r = q
  /\ \A r, q \in Requests :
       /\ pc[r] \in {"create_sign", "create_kc"} /\ pc[q] \in {"create_sign", "create_kc"}
       /\ job[r].who = job[q].who
       => r = q

Placed(r) ==
  /\ pc[r] # "idle" => job[r].cs \in Callsigns
  /\ pc[r] \in Creating => job[r].who \in {AnonAdmin, job[r].cs}
  /\ pc[r] = "anon_role" => job[r].who = AnonAdmin
  /\ pc[r] \in {"create_sign", "create_kc"} => job[r].who \in users
  /\ pc[r] = "create_kc" => job[r].who \in certfile

DoneFor(r, c) ==
  /\ c \in enrolled
  /\ codes[c] = 0
  /\ pc[r] = "create_insert" => c \notin users
  /\ pc[r] # "code" => ~IsAdmin(c)
  /\ pc[r] = "approve_commit" => c \in certfile
  /\ pc[r] \in {"wait", "role", "code"} => c \in approved
  /\ pc[r] = "code" => IsAdmin(c)

OwnerInv ==
  \A r \in Requests :
    Placed(r) /\ \A c \in Callsigns : Owns(r, c) => DoneFor(r, c)

RestInv ==
  /\ \A c \in Callsigns : c \notin enrolled => c \notin users /\ codes[c] = 0 /\ ~IsAdmin(c)
  /\ \A t \in tasks : t.kind = "promoted" /\ t.of \in Callsigns => IsAdmin(t.of)
  /\ \A q \in Products, c \in Callsigns : <<q, "promoted", c>> \in heard => IsAdmin(c)

(* Until something fails: what the products have not heard of a new person *)
(* yet is on its way, in the worker whose tasks the request waits for; it  *)
(* is there by the time the person is promoted.                            *)
OnItsWay(q, c, w) ==
  \E t \in tasks : t.kind = "created" /\ t.of = c /\ t.at \in {"prepare", q} /\ t.worker = w

Announced(q, c) ==
  /\ IsAdmin(c) => <<q, "created", c>> \in heard
  /\ \A r \in Requests : Owns(r, c) =>
       /\ pc[r] \in {"approve_commit", "wait"} =>
            <<q, "created", c>> \in heard \/ OnItsWay(q, c, home[r])
       /\ pc[r] = "role" => <<q, "created", c>> \in heard

AnnounceInv == failures = 0 => \A q \in Products, c \in Callsigns : Announced(q, c)

IInv == /\ TypeOK /\ OneOwner /\ OwnerInv /\ RestInv /\ CodeMeansAdmin
        /\ NothingHalfDone /\ AnnounceInv
===============================================================================
