-------------------------------- MODULE Sessions --------------------------------
(***************************************************************************)
(* The connection pool of one worker (db/engine.py) and the handlers that  *)
(* need more than one connection, or keep one while they wait for somebody *)
(* else: the creation of a person (Person.create_with_cert), its deletion  *)
(* (Person.delete, revoke) and the lists of people.                        *)
(*                                                                         *)
(* A session takes a connection with its first statement and returns it    *)
(* with the commit; the attributes read after the commit are loaded again, *)
(* so that from then to the end of the with block the session has one.     *)
(* Everything is synchronous: a handler that finds the pool empty blocks   *)
(* the event loop, and with it whoever could return a connection, until    *)
(* the pool gives up with an exception.                                    *)
(***************************************************************************)
EXTENDS Integers, FiniteSets

CONSTANTS
  Persons,      (* callsigns                                               *)
  Nobody,       (* no person, no handler                                   *)
  Requests,     (* slots for the handlers of this worker                   *)
  Limits,       (* how many connections a pool may lend at most            *)
  MaxFailures   (* bound: failed calls and crashes                         *)

ASSUME ConstantsAssumption ==
  /\ Nobody \notin Persons \cup Requests
  /\ IsFiniteSet(Requests)
  /\ Limits \subseteq Nat \ {0}
  /\ MaxFailures \in Nat

VARIABLES
  limit,        (* the limit of this pool                                  *)
  holders,      (* handlers that have a connection while they wait         *)
  blocked,      (* the handler that blocks the event loop, or Nobody       *)
  users,        (* persons with a row                                      *)
  marked,       (* persons revoke has marked deleted                       *)
  dropped,      (* persons marked deleted for lack of a certificate        *)
  certfile,     (* persons whose certificate is on disk                    *)
  signed,       (* persons the CA has signed for                           *)
  revoked,      (* persons whose certificate the CA has revoked            *)
  pc,           (* where each handler is                                   *)
  job,          (* the person it is about                                  *)
  failures      (* failures so far                                         *)

rows == <<users, marked, dropped>>
ca   == <<certfile, signed, revoked>>
vars == <<limit, holders, blocked, rows, ca, pc, job, failures>>

-------------------------------------------------------------------------------
(* Waiting for the CA or Keycloak, and having heard from them.             *)
CallPoints == {"cre_sign", "cre_kc", "del_revoke", "del_kc"}
Answered   == [cre_sign |-> "cre_signed", cre_kc |-> "cre_kcdone",
               del_revoke |-> "del_revoked", del_kc |-> "del_kcdone"]

(* Mutant: something is awaited between the commit and the reload.         *)
AwaitPointsAfterCommit == CallPoints \cup {Answered[c] : c \in CallPoints} \cup {"cre_reload"}

AwaitPoints == CallPoints \cup {Answered[c] : c \in CallPoints}

(* The first step of a handler, and the middle of what the event loop does *)
(* not interrupt.                                                          *)
Looks     == {"cre_look", "del_look", "list"}
Stretches == {"cre_insert", "cre_reload", "cre_kcdata", "del_mark", "del_base", "del_reload"}
Places    == {"idle"} \cup Looks \cup AwaitPoints \cup Stretches

(* Where a session is open that has a connection.                          *)
Holding == {"cre_sign", "cre_signed", "del_revoke", "del_revoked", "del_kc", "del_kcdone"}

(* Between a commit and the answer of the CA.                              *)
Signing  == {"cre_reload", "cre_sign"}
Revoking == {"del_reload", "del_revoke"}

(* Nobody else is in the middle of anything.                               *)
Elsewhere(r) == \A q \in Requests \ {r} : pc[q] \in AwaitPoints \cup {"idle"}

(* One handler runs, and only while no other is in the middle of a stretch *)
(* or blocks the event loop.                                               *)
MayRun(r) == blocked = Nobody /\ Elsewhere(r)

At(r, label)   == pc[r] = label /\ MayRun(r)
Goto(r, label) == pc' = [pc EXCEPT ![r] = label]
Finish(r)      == Goto(r, "idle") /\ job' = [job EXCEPT ![r] = Nobody]

InUse     == Cardinality(holders)
Return(r) == holders' = holders \ {r}

(* Mutant: the sessions for the roles stay open to the end of the list.    *)
NeedsOneEach(label) == IF label = "list" THEN 1 + Cardinality(users) ELSE 1

(* A list opens a session for the roles of each person it yields while its *)
(* own is still open.                                                      *)
Needs(label) == IF label = "list" THEN 2 ELSE 1

Available(r) == InUse + Needs(pc[r]) <= limit

Init ==
  /\ limit \in Limits
  /\ holders = {} /\ blocked = Nobody
  /\ users = {} /\ marked = {} /\ dropped = {}
  /\ certfile = {} /\ signed = {} /\ revoked = {}
  /\ pc = [r \in Requests |-> "idle"]
  /\ job = [r \in Requests |-> Nobody]
  /\ failures = 0

-------------------------------------------------------------------------------
(* A request to create or to delete a person, or for a list.               *)
Arrive(r) ==
  /\ At(r, "idle")
  /\ \E p \in Persons, label \in Looks :
       Goto(r, label) /\ job' = [job EXCEPT ![r] = p]
  /\ UNCHANGED <<limit, holders, blocked, rows, ca, failures>>

(* by_callsign: a session of its own, closed again.  Who has a row already *)
(* is not created; of a deleted one the INSERT finds out.  Whoever has no  *)
(* row or is deleted is not deleted.                                       *)
CreateLook(r) ==
  /\ At(r, "cre_look") /\ Available(r)
  /\ \/ /\ job[r] \notin users \ (marked \cup dropped)
        /\ Goto(r, "cre_insert")
        /\ UNCHANGED job
     \/ job[r] \in users \ (marked \cup dropped) /\ Finish(r)
  /\ UNCHANGED <<limit, holders, blocked, rows, ca, failures>>

DeleteLook(r) ==
  LET p == job[r] IN
  /\ At(r, "del_look") /\ Available(r)
  /\ \/ /\ p \in users \ (marked \cup dropped)
        /\ Goto(r, IF p \in certfile THEN "del_mark" ELSE "del_base")
        /\ UNCHANGED job
     \/ p \notin users \ (marked \cup dropped) /\ Finish(r)
  /\ UNCHANGED <<limit, holders, blocked, rows, ca, failures>>

(* Person.list, by_role and roles_set: nothing is awaited in between.      *)
List(r) ==
  /\ At(r, "list") /\ Available(r)
  /\ Finish(r)
  /\ UNCHANGED <<limit, holders, blocked, rows, ca, failures>>

CreateInsert(r) ==
  /\ At(r, "cre_insert") /\ Available(r)
  /\ \/ /\ job[r] \notin users
        /\ Goto(r, "cre_reload")
        /\ UNCHANGED job
     \/ job[r] \in users /\ Finish(r)        (* IntegrityError              *)
  /\ users' = users \cup {job[r]}
  /\ UNCHANGED <<limit, holders, blocked, marked, dropped, ca, failures>>

(* certspath and callsign are loaded again: the connection is kept while   *)
(* the CA signs.                                                           *)
CreateReload(r) ==
  /\ At(r, "cre_reload") /\ Available(r)
  /\ holders' = holders \cup {r}
  /\ Goto(r, "cre_sign")
  /\ UNCHANGED <<limit, blocked, rows, ca, job, failures>>

(* The certificate is written, the object refreshed, the session closed.   *)
CreateSigned(r) ==
  /\ At(r, "cre_signed")
  /\ certfile' = certfile \cup {job[r]}
  /\ Return(r)
  /\ Goto(r, "cre_kcdata")
  /\ UNCHANGED <<limit, blocked, rows, signed, revoked, job, failures>>

(* _post_create: the roles for Keycloak are read in a session of their own.*)
CreateKcData(r) ==
  /\ At(r, "cre_kcdata") /\ Available(r)
  /\ Goto(r, "cre_kc")
  /\ UNCHANGED <<limit, holders, blocked, rows, ca, job, failures>>

(* update_from_kcdata.                                                     *)
CreateLink(r) ==
  /\ At(r, "cre_kcdone") /\ Available(r)
  /\ Finish(r)
  /\ UNCHANGED <<limit, holders, blocked, rows, ca, failures>>

DeleteBase(r) ==
  /\ At(r, "del_base") /\ Available(r)
  /\ dropped' = dropped \cup {job[r]}
  /\ Finish(r)
  /\ UNCHANGED <<limit, holders, blocked, users, marked, ca, failures>>

DeleteMark(r) ==
  /\ At(r, "del_mark") /\ Available(r)
  /\ marked' = marked \cup {job[r]}
  /\ Goto(r, "del_reload")
  /\ UNCHANGED <<limit, holders, blocked, users, dropped, ca, job, failures>>

(* certfile is the path in a column that is loaded again.                  *)
DeleteReload(r) ==
  /\ At(r, "del_reload") /\ Available(r)
  /\ holders' = holders \cup {r}
  /\ Goto(r, "del_revoke")
  /\ UNCHANGED <<limit, blocked, rows, ca, job, failures>>

(* user_revoked: the roles are read in a second session inside the first.  *)
DeleteRevoked(r) ==
  /\ At(r, "del_revoked") /\ Available(r)
  /\ Goto(r, "del_kc")
  /\ UNCHANGED <<limit, holders, blocked, rows, ca, job, failures>>

(* Mutant: the session is not closed.                                      *)
DeleteEndOpen(r) ==
  /\ At(r, "del_kcdone")
  /\ Finish(r)
  /\ UNCHANGED <<limit, holders, blocked, rows, ca, failures>>

DeleteEnd(r) ==
  /\ At(r, "del_kcdone")
  /\ Return(r) /\ Finish(r)
  /\ UNCHANGED <<limit, blocked, rows, ca, failures>>

-------------------------------------------------------------------------------
(* The CA and Keycloak answer in their own time.                           *)
CaSigns(r) ==
  /\ pc[r] = "cre_sign"
  /\ signed' = signed \cup {job[r]}
  /\ Goto(r, Answered[pc[r]])
  /\ UNCHANGED <<limit, holders, blocked, rows, certfile, revoked, job, failures>>

CaRevokes(r) ==
  /\ pc[r] = "del_revoke"
  /\ revoked' = revoked \cup {job[r]}
  /\ Goto(r, Answered[pc[r]])
  /\ UNCHANGED <<limit, holders, blocked, rows, certfile, signed, job, failures>>

KcAnswers(r) ==
  /\ pc[r] \in {"cre_kc", "del_kc"}
  /\ Goto(r, Answered[pc[r]])
  /\ UNCHANGED <<limit, holders, blocked, rows, ca, job, failures>>

(* A call fails; every handler gives up and closes its session.  The row   *)
(* it has committed stays.                                                 *)
CallFails(r) ==
  /\ pc[r] \in CallPoints /\ MayRun(r)
  /\ failures < MaxFailures
  /\ failures' = failures + 1
  /\ Return(r) /\ Finish(r)
  /\ UNCHANGED <<limit, blocked, rows, ca>>

-------------------------------------------------------------------------------
(* A handler finds the pool empty and blocks the event loop.               *)
Connecting == Looks \cup Stretches \cup {"cre_kcdone", "del_revoked"}

Block(r) ==
  /\ pc[r] \in Connecting /\ MayRun(r)
  /\ ~Available(r)
  /\ blocked' = r
  /\ UNCHANGED <<limit, holders, rows, ca, pc, job, failures>>

(* Mutant: the pool waits for ever.                                        *)
TimeOutNever == blocked # Nobody /\ UNCHANGED vars

(* The pool gives up: the handler fails and closes its sessions.           *)
TimeOut ==
  /\ blocked # Nobody
  /\ blocked' = Nobody
  /\ Return(blocked) /\ Finish(blocked)
  /\ UNCHANGED <<limit, rows, ca, failures>>

WorkerCrash ==
  /\ failures < MaxFailures
  /\ failures' = failures + 1
  /\ holders' = {} /\ blocked' = Nobody
  /\ pc' = [r \in Requests |-> "idle"]
  /\ job' = [r \in Requests |-> Nobody]
  /\ UNCHANGED <<limit, rows, ca>>

Step(r) == \/ CreateLook(r) \/ CreateInsert(r) \/ CreateReload(r) \/ CreateSigned(r)
           \/ CreateKcData(r) \/ CreateLink(r)
           \/ DeleteLook(r) \/ DeleteBase(r) \/ DeleteMark(r) \/ DeleteReload(r)
           \/ DeleteRevoked(r) \/ DeleteEnd(r)
           \/ List(r) \/ Block(r)

Answer(r) == CaSigns(r) \/ CaRevokes(r) \/ KcAnswers(r)

Next == \/ \E r \in Requests : Arrive(r) \/ Step(r) \/ Answer(r) \/ CallFails(r)
        \/ TimeOut \/ WorkerCrash

Spec == Init /\ [][Next]_vars

(* The event loop gets round to every handler that can go on; the CA,      *)
(* Keycloak and the timeout of the pool come at last.                      *)
FairSpec == /\ Spec
            /\ \A r \in Requests : SF_vars(Step(r)) /\ WF_vars(Answer(r))
            /\ WF_vars(TimeOut)

-------------------------------------------------------------------------------
TypeOK ==
  /\ limit \in Limits
  /\ holders \subseteq Requests
  /\ blocked \in Requests \cup {Nobody}
  /\ users \subseteq Persons /\ marked \subseteq Persons /\ dropped \subseteq Persons
  /\ certfile \subseteq Persons /\ signed \subseteq Persons /\ revoked \subseteq Persons
  /\ pc \in [Requests -> Places]
  /\ job \in [Requests -> Persons \cup {Nobody}]
  /\ \A r \in Requests : pc[r] # "idle" => job[r] \in Persons
  /\ failures \in 0..MaxFailures

(* Whatever way a handler ends, its connection is back in the pool, and    *)
(* the pool never lends more than it has (people.py:106-137, 171-186).     *)
ConnectionsReturned ==
  /\ \A r \in Requests : r \in holders <=> pc[r] \in Holding
  /\ InUse <= limit

(* An empty pool never comes between the commit of a row and the call to   *)
(* the CA it announces: a person without a certificate, or one deleted     *)
(* whose certificate is not revoked, is being worked on, or is what a      *)
(* failed call or a crash has left (people.py:119-126, 179-183).           *)
CommittedReachesCa ==
  \A p \in Persons :
    /\ p \in users \ signed =>
         failures > 0 \/ \E r \in Requests : job[r] = p /\ pc[r] \in Signing
    /\ p \in marked \ revoked =>
         failures > 0 \/ \E r \in Requests : job[r] = p /\ pc[r] \in Revoking

(* With fewer handlers at work than connections nobody ever finds the pool *)
(* empty; with as many, deletions that all wait for their second session   *)
(* do (people.py:175, 417-418).                                            *)
FewNeverStarve == Cardinality(Requests) < limit => blocked = Nobody

(* However small the pool is, every handler ends: a blocked event loop is  *)
(* released by the timeout of the pool (engine.py:40-47).                  *)
EveryoneEnds == \A r \in Requests : pc[r] # "idle" ~> pc[r] = "idle"

-------------------------------------------------------------------------------
(* Who is in the middle of a stretch found a connection when it began, and *)
(* nobody has taken one since; so the event loop is blocked by those only  *)
(* that come to the pool with nothing half done.                           *)
AloneInv == \A r \in Requests : pc[r] \in Looks \cup Stretches => Elsewhere(r)

StretchInv == \A r \in Requests : pc[r] \in Stretches => InUse < limit

BlockedInv ==
  blocked # Nobody => /\ pc[blocked] \in Looks \cup {"cre_kcdone", "del_revoked"}
                      /\ ~Available(blocked)
                      /\ Elsewhere(blocked)

IInv == /\ TypeOK /\ ConnectionsReturned /\ CommittedReachesCa
        /\ AloneInv /\ StretchInv /\ BlockedInv
===============================================================================
