------------------------------ MODULE InviteCodes ------------------------------
(***************************************************************************)
(* Invite codes: enrollment pools (EnrollmentPool of db/enrollments.py),   *)
(* the admin's handlers that create, activate, deactivate and delete them, *)
(* and the enrolling of clients through them.                              *)
(*                                                                         *)
(* Steps and workers are those of Handlers, but none of these handlers     *)
(* awaits anything outside its process: on its worker each of them runs in *)
(* one piece, and only handlers of other workers come in between.          *)
(* Spellings of callsigns are left to Enrollment.                          *)
(***************************************************************************)
EXTENDS Handlers, Integers, FiniteSets

CONSTANTS
  InviteCodes,  (* the invite codes generate_code may draw                  *)
  Callsigns,    (* the callsigns clients ask for                            *)
  NoPool        (* SQL NULL in enrollments.pool                             *)

ASSUME PoolsAssumption == NoPool \notin InviteCodes

VARIABLES
  pools,        (* the enrollmentpools table, by invite code                *)
  enrolled,     (* callsigns with a row in the enrollments table            *)
  poolOf,       (* the pool such a row refers to                            *)
  late          (* observed only: how many clients each pool has taken      *)
                (* since it was last usable                                 *)

poolVars == <<pools, enrolled, poolOf, late, pc, job, home, failures>>

-------------------------------------------------------------------------------
PoolRow == [row : {TRUE}, active : BOOLEAN, deleted : BOOLEAN]
NoRow   == [row |-> FALSE, active |-> FALSE, deleted |-> FALSE]
NewPool == [row |-> TRUE, active |-> TRUE, deleted |-> FALSE]

(* code: the pool worked on; cs: the callsign to enroll; seen: the pool as *)
(* it was loaded; want: the state to set.                                  *)
PoolJobs  == [code : InviteCodes \cup {NoPool}, cs : Callsigns \cup {NoPool},
              seen : PoolRow \cup {NoRow}, want : BOOLEAN]
NoPoolJob == [code |-> NoPool, cs |-> NoPool, seen |-> NoRow, want |-> FALSE]

Enrolling  == {"enr_look", "enr_create", "enr_insert"}
PoolPlaces == {"new_insert", "set_commit", "set_refresh", "del_commit"} \cup Enrolling

Found(k)  == pools[k].row /\ ~pools[k].deleted
Usable(k) == Found(k) /\ pools[k].active

(* Mutant: the handlers give up the event loop between steps.              *)
MayRunAnytime(r) == home[r] \in Workers

(* Cooperative scheduling, without await points.                           *)
PoolMayRun(r) == LoopIsFree(r, {})

PoolAt(r, label) == pc[r] = label /\ PoolMayRun(r)

(* A new request has loaded the pool and goes on at label.                 *)
PoolBegin(r, label, k, c, w) ==
  /\ PoolAt(r, "idle")
  /\ Goto(r, label)
  /\ job' = [job EXCEPT ![r] = [code |-> k, cs |-> c, seen |-> pools[k], want |-> w]]
  /\ UNCHANGED <<pools, enrolled, poolOf, failures>>

PoolEnd(r) == Leave(r, NoPoolJob)

PoolInit ==
  /\ pools = [k \in InviteCodes |-> NoRow]
  /\ enrolled = {}
  /\ poolOf = [c \in Callsigns |-> NoPool]
  /\ late = [k \in InviteCodes |-> 0]
  /\ NoRequests(NoPoolJob)

-------------------------------------------------------------------------------
(* /invitecode/create: draw a code by_invitecode does not find; a deleted  *)
(* pool raises Deleted, a NotFound, so its code may be drawn again.        *)
CreateLook(r, k) ==
  /\ ~Found(k)
  /\ PoolBegin(r, "new_insert", k, NoPool, FALSE)

CreateInsert(r) ==
  LET k == job[r].code IN
  /\ PoolAt(r, "new_insert")
  /\ \/ /\ ~pools[k].row
        /\ pools' = [pools EXCEPT ![k] = NewPool]
     \/ /\ pools[k].row              (* IntegrityError, 500                 *)
        /\ UNCHANGED pools
  /\ PoolEnd(r)
  /\ UNCHANGED <<enrolled, poolOf, failures>>

-------------------------------------------------------------------------------
(* /invitecode/activate and /invitecode/deactivate: set_active.            *)
SetActiveLoad(r, k, w) ==
  /\ Found(k)
  /\ PoolBegin(r, "set_commit", k, NoPool, w)

(* Mutant: every column of the copy is written, not only active.           *)
SetActiveWhole(r) ==
  /\ PoolAt(r, "set_commit")
  /\ pools' = [pools EXCEPT ![job[r].code] = [job[r].seen EXCEPT !.active = job[r].want]]
  /\ Goto(r, "set_refresh")
  /\ UNCHANGED <<enrolled, poolOf, job, failures>>

(* Setting the value that was loaded is not a change and writes nothing.   *)
SetActiveCommit(r) ==
  LET want == job[r].want IN
  /\ PoolAt(r, "set_commit")
  /\ pools' = IF want = job[r].seen.active THEN pools
              ELSE [pools EXCEPT ![job[r].code].active = want]
  /\ Goto(r, "set_refresh")
  /\ UNCHANGED <<enrolled, poolOf, job, failures>>

(* The row is read again and answered with: success, or 500 when it does   *)
(* not hold what was set.                                                  *)
SetActiveAnswer(r) ==
  /\ PoolAt(r, "set_refresh")
  /\ PoolEnd(r)
  /\ UNCHANGED <<pools, enrolled, poolOf, failures>>

(* DELETE /invitecode/{invite_code}                                        *)
DeleteLoad(r, k) ==
  /\ Found(k)
  /\ PoolBegin(r, "del_commit", k, NoPool, FALSE)

(* Mutant: the row is removed instead of marked.                           *)
DeleteRow(r) ==
  /\ PoolAt(r, "del_commit")
  /\ pools' = [pools EXCEPT ![job[r].code] = NoRow]
  /\ PoolEnd(r)
  /\ UNCHANGED <<enrolled, poolOf, failures>>

DeleteCommit(r) ==
  /\ PoolAt(r, "del_commit")
  /\ pools' = [pools EXCEPT ![job[r].code].deleted = TRUE]
  /\ PoolEnd(r)
  /\ UNCHANGED <<enrolled, poolOf, failures>>

-------------------------------------------------------------------------------

(* /invitecode/enroll                                                      *)
EnrollLoad(r, k, c) ==
  /\ Usable(k)
  /\ PoolBegin(r, "enr_look", k, c, FALSE)

(* The handler looks whether the callsign is taken ...                     *)
EnrollLook(r) ==
  /\ PoolAt(r, "enr_look")
  /\ \/ /\ job[r].cs \notin enrolled
        /\ Goto(r, "enr_create")
        /\ UNCHANGED job
     \/ /\ job[r].cs \in enrolled
        /\ PoolEnd(r)
  /\ UNCHANGED <<pools, enrolled, poolOf, failures>>

(* ... and, after create_enrollment has looked at the loaded pool again,   *)
(* create_for_callsign does.                                               *)
EnrollCreate(r) ==
  /\ PoolAt(r, "enr_create")
  /\ \/ /\ job[r].seen.active /\ ~job[r].seen.deleted
        /\ job[r].cs \notin enrolled
        /\ Goto(r, "enr_insert")
        /\ UNCHANGED job
     \/ /\ \/ ~job[r].seen.active \/ job[r].seen.deleted
           \/ job[r].cs \in enrolled
        /\ PoolEnd(r)
  /\ UNCHANGED <<pools, enrolled, poolOf, failures>>

EnrollInsert(r) ==
  LET c == job[r].cs IN
  /\ PoolAt(r, "enr_insert")
  /\ \/ /\ c \notin enrolled
        /\ enrolled' = enrolled \cup {c}
        /\ poolOf' = [poolOf EXCEPT ![c] = job[r].code]
     \/ /\ c \in enrolled            (* IntegrityError, 500                 *)
        /\ UNCHANGED <<enrolled, poolOf>>
  /\ PoolEnd(r)
  /\ UNCHANGED <<pools, failures>>

(* /enrollment/init enrolls a callsign without a pool (see Enrollment).    *)
EnrollElsewhere(c) ==
  /\ c \notin enrolled
  /\ enrolled' = enrolled \cup {c}
  /\ UNCHANGED <<pools, poolOf, pc, job, home, failures>>

-------------------------------------------------------------------------------
PoolCrash(w) == Dies(w, NoPoolJob) /\ UNCHANGED <<pools, enrolled, poolOf>>

PoolArrive(r) ==
  /\ UNCHANGED home
  /\ \E k \in InviteCodes :
       \/ CreateLook(r, k)
       \/ \E w \in BOOLEAN : SetActiveLoad(r, k, w)
       \/ DeleteLoad(r, k)
       \/ \E c \in Callsigns : EnrollLoad(r, k, c)

PoolAdvance(r) ==
  /\ UNCHANGED home
  /\ \/ CreateInsert(r)
     \/ SetActiveCommit(r) \/ SetActiveAnswer(r)
     \/ DeleteCommit(r)
     \/ EnrollLook(r) \/ EnrollCreate(r) \/ EnrollInsert(r)

PoolMove ==
  \/ \E r \in Requests : PoolArrive(r) \/ PoolAdvance(r)
  \/ \E c \in Callsigns : EnrollElsewhere(c)
  \/ \E w \in Workers : PoolCrash(w)

(* The history variable: what the step did is counted beside it.           *)
Takes(k) == \E c \in Callsigns : poolOf'[c] = k /\ poolOf[c] # k

CountLate ==
  late' = [k \in InviteCodes |-> IF Usable(k)' THEN 0
                                 ELSE IF Takes(k) THEN late[k] + 1 ELSE late[k]]

PoolNext == PoolMove /\ CountLate

PoolSpec == PoolInit /\ [][PoolNext]_poolVars

-------------------------------------------------------------------------------
PoolTypeOK ==
  /\ pools \in [InviteCodes -> PoolRow \cup {NoRow}]
  /\ enrolled \subseteq Callsigns
  /\ poolOf \in [Callsigns -> InviteCodes \cup {NoPool}]
  /\ \A c \in Callsigns : poolOf[c] # NoPool => c \in enrolled /\ pools[poolOf[c]].row
  /\ late \in [InviteCodes -> Nat]
  /\ pc \in [Requests -> PoolPlaces \cup {"idle"}]
  /\ job \in [Requests -> PoolJobs]
  /\ home \in Deployments
  /\ failures \in 0..MaxFailures

(* Action property: a deleted pool stays deleted whatever stale copy of it *)
(* an activation writes afterwards, and an enrollment stays with the pool  *)
(* it came from.                                                           *)
PoolsAreFinal ==
  [][/\ \A k \in InviteCodes : pools[k].deleted => pools'[k].deleted
     /\ \A c \in enrolled : c \in enrolled' /\ poolOf'[c] = poolOf[c]]_poolVars

(* A pool that is deactivated or deleted takes nobody any more ("Can't     *)
(* create enrollments on deleted pools") but the clients other workers     *)
(* were already enrolling: create_enrollment checks a loaded copy.  They   *)
(* are one per other worker at most, and with one worker nobody.           *)
LateOnePerWorker == \A k \in InviteCodes : late[k] < Cardinality(Serving)

(* The workers enrolling a client into pool k.                             *)
Inside(k) == {home[r] : r \in {q \in Requests : pc[q] \in Enrolling /\ job[q].code = k}}

(* A worker is inside one handler at a time; whoever closes a pool is      *)
(* inside one that enrolls nobody, and who is let in late leaves.          *)
LateInv ==
  /\ \A r, q \in Requests : pc[r] # "idle" /\ pc[q] # "idle" /\ home[r] = home[q] => r = q
  /\ \A k \in InviteCodes :
       IF Usable(k) THEN late[k] = 0
       ELSE late[k] + Cardinality(Inside(k)) < Cardinality(Serving)
===============================================================================
