--------------------------------- MODULE Roles ---------------------------------
(***************************************************************************)
(* The admin role: rows of the roles table (Person.assign_role,            *)
(* remove_role), the handlers that promote, demote and delete a person,    *)
(* and the background tasks that carry a change over to Keycloak           *)
(* (user_promoted, user_demoted: KCClient.update_kc_user).                 *)
(*                                                                         *)
(* Steps and workers are as in Enrollment.  A background task has a slot   *)
(* of the worker whose handler created it and interleaves with the rest    *)
(* of that worker wherever it waits.  Persons exist from the start;        *)
(* Enrollment shows which ones: without a Keycloak user, with one the      *)
(* stored record does not name, and with one it does.                      *)
(***************************************************************************)
EXTENDS Handlers, Integers, FiniteSets

CONSTANTS
  Persons,      (* callsigns with a row in the users table                 *)
  NullExtra,    (* those whose stored extra is null unless it names a user *)
  Nobody,       (* no person                                               *)
  Tasks,        (* the slots of Requests in which background tasks run     *)
  MaxRows       (* bound: role rows ever inserted                          *)

ASSUME ConstantsAssumption ==
  /\ NullExtra \subseteq Persons
  /\ Nobody \notin Persons
  /\ Tasks \subseteq Requests
  /\ MaxRows \in Nat

Calls == Requests \ Tasks   (* the slots in which handlers run               *)
Rows  == Nat \ {0}

VARIABLES
  roles,        (* the admin rows of each person, by primary key           *)
  inserted,     (* rows inserted so far                                    *)
  deleted,      (* persons with a deleted timestamp                        *)
  linked,       (* persons whose stored extra holds a kc_uuid              *)
  kcusers,      (* persons with a user in Keycloak                         *)
  kcadmin,      (* Keycloak users with the realm role admin                *)
  current,      (* observed only: tasks since whose reading their person   *)
                (* has neither got nor lost the role                       *)
  lost          (* observed only: persons of whom Keycloak has the role    *)
                (* wrong because two tasks got into each other's way       *)

db   == <<roles, inserted, deleted, linked>>
kc   == <<kcusers, kcadmin>>
vars == <<db, kc, current, lost, pc, job, home, failures>>

-------------------------------------------------------------------------------
(* cs: the person; row: the role row found; admin: the role as the task    *)
(* read it; id: the record named the Keycloak user when it was loaded.     *)
Job(p, row, admin, id) == [cs |-> p, row |-> row, admin |-> admin, id |-> id]
Jobs  == [cs : Persons \cup {Nobody}, row : Rows \cup {0}, admin : BOOLEAN, id : BOOLEAN]
NoJob == Job(Nobody, 0, FALSE, FALSE)

(* A task waits to be run, or for Keycloak; a deletion waits for the CA    *)
(* and then for Keycloak.                                                  *)
SyncPoints  == {"sync_start", "sync_find", "sync_create", "sync_roles", "sync_write",
                "sync_update", "sync_link"}
AwaitPoints == SyncPoints \cup {"del_revoke", "del_kc"}
CallPlaces  == {"pro_insert", "dem_delete", "del_mark", "del_revoke", "del_kc"}

MayRun(s)    == LoopIsFree(s, AwaitPoints)
At(s, label) == pc[s] = label /\ MayRun(s)
Finish(s)    == Leave(s, NoJob)

Begin(r, label, j) ==
  /\ At(r, "idle")
  /\ Goto(r, label)
  /\ job' = [job EXCEPT ![r] = j]

(* Bounds: create_task starts any number of tasks, here as many as there   *)
(* are slots; a row can be inserted.  Nobody takes the slot before the     *)
(* handler does, which does not wait in between.                           *)
Room(r)    == \E t \in Tasks : home[t] = home[r] /\ pc[t] = "idle"
RoomForRow == inserted + Cardinality({r \in Calls : pc[r] = "pro_insert"}) < MaxRows

(* The handler ends and leaves a task behind that works on its object.     *)
Inform(r, p) ==
  \E t \in Tasks :
    /\ home[t] = home[r] /\ pc[t] = "idle"
    /\ pc'  = [pc EXCEPT ![r] = "idle", ![t] = "sync_start"]
    /\ job' = [job EXCEPT ![r] = NoJob, ![t] = Job(p, 0, FALSE, p \in linked)]

Init ==
  /\ roles = [p \in Persons |-> {}]
  /\ inserted = 0
  /\ deleted = {}
  /\ kcusers \in SUBSET Persons
  /\ linked \in SUBSET (kcusers \cap NullExtra)
  /\ kcadmin = {}
  /\ current = {} /\ lost = {}
  /\ NoRequests(NoJob)

-------------------------------------------------------------------------------
(* Mutant: the role is not looked for.                                     *)
PromoteBlindly(r, p) ==
  /\ p \notin deleted /\ Room(r) /\ RoomForRow
  /\ Begin(r, "pro_insert", Job(p, 0, FALSE, FALSE))
  /\ UNCHANGED <<db, kc, failures>>

(* /enrollment/promote: assign_role.  Who has the role already gets 400,   *)
(* but Keycloak is informed anyway.                                        *)
PromoteLook(r, p) ==
  /\ p \notin deleted /\ Room(r)
  /\ \/ /\ roles[p] = {} /\ RoomForRow
        /\ Begin(r, "pro_insert", Job(p, 0, FALSE, FALSE))
     \/ /\ roles[p] # {}
        /\ At(r, "idle")
        /\ Inform(r, p)
  /\ UNCHANGED <<db, kc, failures>>

(* The pair of user and role is not unique in the table.                   *)
PromoteInsert(r) ==
  LET p == job[r].cs IN
  /\ At(r, "pro_insert")
  /\ inserted' = inserted + 1
  /\ roles' = [roles EXCEPT ![p] = @ \cup {inserted + 1}]
  /\ Inform(r, p)
  /\ UNCHANGED <<deleted, linked, kc, failures>>

(* /enrollment/demote: remove_role looks up one of the rows ...            *)
DemoteLook(r, p) ==
  /\ p \notin deleted /\ Room(r)
  /\ \/ \E row \in roles[p] : Begin(r, "dem_delete", Job(p, row, FALSE, FALSE))
     \/ /\ roles[p] = {}
        /\ At(r, "idle")
        /\ Inform(r, p)
  /\ UNCHANGED <<db, kc, failures>>

(* Mutant: the role is removed without a word to Keycloak.                 *)
DemoteSilently(r) ==
  /\ At(r, "dem_delete")
  /\ roles' = [roles EXCEPT ![job[r].cs] = @ \ {job[r].row}]
  /\ Finish(r)
  /\ UNCHANGED <<inserted, deleted, linked, kc, failures>>

(* ... and deletes it; that it is gone already is only warned about.       *)
DemoteDelete(r) ==
  LET p == job[r].cs IN
  /\ At(r, "dem_delete")
  /\ roles' = [roles EXCEPT ![p] = @ \ {job[r].row}]
  /\ Inform(r, p)
  /\ UNCHANGED <<inserted, deleted, linked, kc, failures>>

-------------------------------------------------------------------------------
(* DELETE /people/{callsign} as far as Keycloak goes (see Enrollment).     *)
DeleteLoad(r, p) ==
  /\ p \notin deleted
  /\ Begin(r, "del_mark", Job(p, 0, FALSE, FALSE))
  /\ UNCHANGED <<db, kc, failures>>

DeleteMark(r) ==
  LET p == job[r].cs IN
  /\ At(r, "del_mark")
  /\ deleted' = deleted \cup {p}
  /\ job' = [job EXCEPT ![r].id = (p \in linked)]
  /\ Goto(r, "del_revoke")
  /\ UNCHANGED <<roles, inserted, linked, kc, failures>>

DeleteRevoked(r) ==
  /\ At(r, "del_revoke")
  /\ \/ /\ job[r].id
        /\ Goto(r, "del_kc")
        /\ UNCHANGED job
     \/ /\ ~job[r].id
        /\ Finish(r)
  /\ UNCHANGED <<db, kc, failures>>

(* Keycloak removes the user, or raises because it is gone.                *)
KcDelete(r) ==
  /\ pc[r] = "del_kc"
  /\ kcusers' = kcusers \ {job[r].cs}
  /\ kcadmin' = kcadmin \ {job[r].cs}
  /\ Finish(r)
  /\ UNCHANGED <<db, failures>>

-------------------------------------------------------------------------------
(* The task starts: get_kcdata reads the roles as they are now.            *)
SyncStart(t) ==
  LET p == job[t].cs IN
  /\ At(t, "sync_start")
  /\ job' = [job EXCEPT ![t].admin = (roles[p] # {})]
  /\ Goto(t, IF job[t].id THEN "sync_roles" ELSE "sync_find")
  /\ UNCHANGED <<db, kc, failures>>

(* resolve_kc_id, by the e-mail address made of the person's uuid.         *)
KcFind(t) ==
  /\ pc[t] = "sync_find"
  /\ Goto(t, IF job[t].cs \in kcusers THEN "sync_roles" ELSE "sync_create")
  /\ UNCHANGED <<db, kc, job, failures>>

(* create_kc_user raises when there is such a user.                        *)
KcCreate(t) ==
  LET p == job[t].cs IN
  /\ pc[t] = "sync_create"
  /\ \/ /\ p \notin kcusers
        /\ kcusers' = kcusers \cup {p}
        /\ Goto(t, "sync_roles")
        /\ UNCHANGED job
     \/ /\ p \in kcusers
        /\ Finish(t)
        /\ UNCHANGED kcusers
  /\ UNCHANGED <<db, kcadmin, failures>>

(* Mutant: the role is only ever added in Keycloak.                        *)
KcRolesAdds(t) ==
  LET p == job[t].cs IN
  /\ pc[t] = "sync_roles"
  /\ p \in kcusers
  /\ Goto(t, IF job[t].admin /\ p \notin kcadmin THEN "sync_write" ELSE "sync_update")
  /\ UNCHANGED <<db, kc, job, failures>>

(* Mutant: a user that is missing is created, whoever was told its id.     *)
KcRolesRecreates(t) ==
  LET p == job[t].cs IN
  /\ pc[t] = "sync_roles"
  /\ \/ /\ p \in kcusers
        /\ Goto(t, IF job[t].admin = (p \in kcadmin) THEN "sync_update" ELSE "sync_write")
     \/ /\ p \notin kcusers
        /\ Goto(t, "sync_create")
  /\ UNCHANGED <<db, kc, job, failures>>

(* check_user_roles reads the roles in Keycloak ...                        *)
KcRoles(t) ==
  LET p == job[t].cs IN
  /\ pc[t] = "sync_roles"
  /\ \/ /\ p \in kcusers
        /\ Goto(t, IF job[t].admin = (p \in kcadmin) THEN "sync_update" ELSE "sync_write")
        /\ UNCHANGED job
     \/ /\ p \notin kcusers
        /\ Finish(t)
  /\ UNCHANGED <<db, kc, failures>>

(* ... and assigns or deletes the one that differs.                        *)
KcWrite(t) ==
  LET p == job[t].cs IN
  /\ pc[t] = "sync_write"
  /\ \/ /\ p \in kcusers
        /\ kcadmin' = IF job[t].admin THEN kcadmin \cup {p} ELSE kcadmin \ {p}
        /\ Goto(t, "sync_update")
        /\ UNCHANGED job
     \/ /\ p \notin kcusers
        /\ Finish(t)
        /\ UNCHANGED kcadmin
  /\ UNCHANGED <<db, kcusers, failures>>

(* The other fields, and the user as Keycloak has it now.                  *)
KcUpdate(t) ==
  /\ pc[t] = "sync_update"
  /\ \/ /\ job[t].cs \in kcusers
        /\ Goto(t, "sync_link")
        /\ UNCHANGED job
     \/ /\ job[t].cs \notin kcusers
        /\ Finish(t)
  /\ UNCHANGED <<db, kc, failures>>

(* update_from_kcdata loads the person, unless deleted, and stores the id  *)
(* if that replaces a null (see Enrollment).                               *)
SyncLink(t) ==
  LET p == job[t].cs IN
  /\ At(t, "sync_link")
  /\ linked' = IF p \in NullExtra \ deleted THEN linked \cup {p} ELSE linked
  /\ Finish(t)
  /\ UNCHANGED <<roles, inserted, deleted, kc, failures>>

-------------------------------------------------------------------------------
(* A call to Keycloak or the CA raises: handler or task ends.              *)
CallFails(s) ==
  /\ failures < MaxFailures
  /\ pc[s] \in AwaitPoints \ {"sync_start"} /\ MayRun(s)
  /\ failures' = failures + 1
  /\ Finish(s)
  /\ UNCHANGED <<db, kc, home>>

(* A worker dies with its handlers and tasks.                              *)
WorkerCrash(w) == Dies(w, NoJob) /\ UNCHANGED <<db, kc>>

Arrive(r) ==
  /\ UNCHANGED home
  /\ \E p \in Persons : PromoteLook(r, p) \/ DemoteLook(r, p) \/ DeleteLoad(r, p)

Advance(r) ==
  /\ UNCHANGED home
  /\ \/ PromoteInsert(r) \/ DemoteDelete(r)
     \/ DeleteMark(r) \/ DeleteRevoked(r) \/ KcDelete(r)

Sync(t) ==
  /\ UNCHANGED home
  /\ \/ SyncStart(t) \/ KcFind(t) \/ KcCreate(t) \/ KcRoles(t) \/ KcWrite(t)
     \/ KcUpdate(t) \/ SyncLink(t)

Step ==
  \/ \E r \in Calls : Arrive(r) \/ Advance(r)
  \/ \E t \in Tasks : Sync(t)
  \/ \E s \in Requests : CallFails(s)
  \/ \E w \in Workers : WorkerCrash(w)

(* Keycloak agrees with the roles table.                                   *)
HasRole(p) == roles[p] # {}
Agrees(p)  == p \in kcadmin <=> HasRole(p)

(* Task t of person p writes what it has read although that is outdated,   *)
(* or makes no user because another task has made it, and gives up.        *)
Overrules(t, p) == /\ pc[t] = "sync_write" /\ pc'[t] = "sync_update"
                   /\ job[t].cs = p /\ job[t].admin # HasRole(p)
Refused(t, p)   == /\ pc[t] = "sync_create" /\ pc'[t] = "idle"
                   /\ job[t].cs = p /\ failures' = failures

(* The history variables: what the step did is noted beside it.            *)
Observe ==
  /\ current' = {t \in Tasks : \/ pc[t] = "sync_start" /\ pc'[t] # "idle"
                                 /\ pc'[t] # "sync_start"
                               \/ /\ t \in current /\ pc'[t] # "idle"
                                  /\ HasRole(job[t].cs)' = HasRole(job[t].cs)}
  /\ lost' = {p \in Persons : /\ ~Agrees(p)'
                              /\ \/ p \in lost
                                 \/ \E t \in Tasks : Overrules(t, p) \/ Refused(t, p)}

Next == Step /\ Observe

Spec == Init /\ [][Next]_vars

(* As in Enrollment.                                                       *)
FairSpec == /\ Spec
            /\ \A r \in Calls : SF_vars(Advance(r) /\ Observe)
            /\ \A t \in Tasks : SF_vars(Sync(t) /\ Observe)

-------------------------------------------------------------------------------
(* Types, and what a busy slot works on.                                   *)
TypeOK ==
  /\ roles \in [Persons -> SUBSET Rows]
  /\ inserted \in Nat
  /\ \A p \in Persons : \A row \in roles[p] : row <= inserted
  /\ deleted \subseteq Persons
  /\ linked \subseteq NullExtra
  /\ kcusers \subseteq Persons
  /\ kcadmin \subseteq kcusers
  /\ current \subseteq Tasks
  /\ lost \subseteq Persons
  /\ pc \in [Requests -> CallPlaces \cup SyncPoints \cup {"idle"}]
  /\ \A r \in Calls : pc[r] \notin SyncPoints
  /\ \A t \in Tasks : pc[t] \notin CallPlaces
  /\ job \in [Requests -> Jobs]
  /\ \A s \in Requests : pc[s] # "idle" => job[s].cs \in Persons
  /\ home \in Deployments
  /\ failures \in 0..MaxFailures

(* Nothing happens on a worker between the look for a role and its         *)
(* insertion, but the table does not keep another worker from inserting it *)
(* too: nobody has the role more often than workers serve requests.  With  *)
(* one worker, one demotion takes it away.                                 *)
RowPerWorker ==
  \A p \in Persons : Cardinality(roles[p]) <= Cardinality(Serving)

(* A task that gets to its end has made Keycloak agree with the table, if  *)
(* what it has read still stands and the person was not deleted: whatever  *)
(* failed before, and whichever tasks run beside it, unless one of them    *)
(* has written an older reading over it.                                   *)
SyncRepairs ==
  \A t \in current :
    LET p == job[t].cs IN
    pc[t] = "sync_link" /\ p \notin deleted => Agrees(p) \/ p \in lost

(* A task that does not know the id of the Keycloak user and may make one. *)
Unaware(t, p) ==
  /\ job[t].cs = p /\ ~job[t].id
  /\ pc[t] \in {"sync_start", "sync_find", "sync_create"}

(* Action property: the Keycloak user of a linked person, once removed by  *)
(* a deletion, is not made again, however many tasks are still under way,  *)
(* but by one that was started before the person was linked.  When those   *)
(* have ended it is gone for good.                                         *)
RemovedStaysRemoved ==
  [][\A p \in linked \ kcusers :
       (\A t \in Tasks : ~Unaware(t, p)) =>
         p \notin kcusers' /\ \A t \in Tasks : ~Unaware(t, p)']_vars

(* The handlers that have found no row, and the workers about to insert    *)
(* one for person p: one handler per worker, which then has found none.    *)
Inserting    == {r \in Calls : pc[r] = "pro_insert"}
Promoting(p) == {home[r] : r \in {q \in Inserting : job[q].cs = p}}

RowInv ==
  /\ \A r, q \in Inserting : home[r] = home[q] => r = q
  /\ \A p \in Persons :
       /\ IsFiniteSet(roles[p])
       /\ Cardinality(roles[p]) + Cardinality(Promoting(p)) <= Cardinality(Serving)

(* A person whose Keycloak user a handler is about to remove is deleted.   *)
DeleterInv ==
  \A r \in Calls : pc[r] \in {"del_revoke", "del_kc"} => job[r].cs \in deleted

(* A task that was told an id goes by it.  What one has read that still    *)
(* stands is what the table says; when it is past the roles Keycloak says  *)
(* so too, or has been made to say something else since.                   *)
TaskInv ==
  \A t \in Tasks : LET p == job[t].cs IN
    /\ pc[t] # "idle" /\ job[t].id => p \in linked
    /\ pc[t] \in {"sync_find", "sync_create"} => ~job[t].id
    /\ t \in current => /\ pc[t] \in SyncPoints \ {"sync_start"}
                        /\ job[t].admin = HasRole(p)
                        /\ pc[t] \in {"sync_update", "sync_link"} /\ p \notin deleted =>
                             Agrees(p) \/ p \in lost

(* The inductive invariant.                                                *)
IInv == TypeOK /\ RowInv /\ DeleterInv /\ TaskInv

(* Liveness, until something fails, however tasks overlap: Keycloak comes  *)
(* to agree with the roles table unless the person is deleted, or a task   *)
(* undoes what another does.                                               *)
KcCatchesUp ==
  \A p \in Persons :
    ~Agrees(p) ~> (Agrees(p) \/ p \in deleted \/ p \in lost \/ failures > 0)

(* Its safety half, whatever is fair: no difference is forgotten.  As long *)
(* as there is one, a task has still to get to it, which has not read the  *)
(* roles yet or has read them as they are; there are just two other ways,  *)
(* a task that writes an outdated reading and one refused a new user.      *)
Mending(t, p) ==
  /\ job[t].cs = p
  /\ \/ pc[t] = "sync_start"
     \/ /\ pc[t] \in {"sync_find", "sync_create", "sync_roles", "sync_write"}
        /\ t \in current

DifferenceIsMended ==
  failures = 0 =>
    \A p \in Persons \ (deleted \cup lost) : Agrees(p) \/ \E t \in Tasks : Mending(t, p)

(* Nothing stops that task: whose record names a Keycloak user has one,    *)
(* and so has the person of a task that has found or made it, until it is  *)
(* deleted.                                                                *)
LinkInv ==
  /\ linked \subseteq kcusers \cup deleted
  /\ \A t \in Tasks :
       pc[t] \in {"sync_roles", "sync_write", "sync_update", "sync_link"} =>
         job[t].cs \in kcusers \cup deleted

MendInv == LinkInv /\ DifferenceIsMended
===============================================================================
