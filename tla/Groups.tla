--------------------------------- MODULE Groups ---------------------------------
(***************************************************************************)
(* KCClient.create_kc_user (kchelpers.py): every new person gets a user in *)
(* Keycloak and is put into the initial group of each product.  The groups *)
(* are made by whoever finds them missing: ensure_product_groups lists     *)
(* what there is, walks through the products in the order of the manifest  *)
(* and creates what was not in its list.  Nothing locks any of this, and   *)
(* every call is awaited, so that creations of one worker or of several    *)
(* interleave between any two calls.                                       *)
(*                                                                         *)
(* Each request creates one person.  A call and what the creation does     *)
(* with the answer are one step: it shares with others of its worker only  *)
(* what the worker knows.                                                  *)
(*                                                                         *)
(* Keycloak refuses a second group of one name; the exception ends the     *)
(* creation, whose user stays (see CallFails in Enrollment).               *)
(***************************************************************************)
EXTENDS Handlers, Integers, Sequences

CONSTANTS
  Products,     (* the products of the manifest, in its order              *)
  AnonAdmin     (* the creation whose person gets no groups                *)

ASSUME GroupsAssumption ==
  /\ Products \in Seq({Products[i] : i \in DOMAIN Products})
  /\ Requests # {}

VARIABLES
  created,      (* persons with a user in Keycloak                         *)
  groups,       (* the groups in Keycloak                                  *)
  members,      (* the groups each user is in                              *)
  initial       (* the initial groups each worker knows                    *)

keycloak   == <<created, groups, members>>
groupsVars == <<keycloak, initial, pc, job, home, failures>>

-------------------------------------------------------------------------------
(* A product's group, and the groups below it.                             *)
Levels  == <<"root", "default", "admins">>
Root(p) == <<p, "root">>

(* The walk of ensure_product_groups.                                      *)
Walk == [i \in 1..(3 * Len(Products)) |->
           <<Products[(i + 2) \div 3], Levels[((i + 2) % 3) + 1]>>]
All  == {Walk[i] : i \in DOMAIN Walk}

(* The groups a new person is put into.                                    *)
Defaults == {g \in All : g[2] = "default"}

(* Mutant: the walk has no order.                                          *)
MissingAny(s) == {g \in All : g \notin s /\ (Root(g[1]) \in s \/ g = Root(g[1]))}

(* What a creation that knows of s is about to make.                       *)
Missing(s) == {Walk[i] : i \in {i \in DOMAIN Walk : /\ Walk[i] \notin s
                                                    /\ \A j \in 1..(i - 1) : Walk[j] \in s}}

(* The initial groups it has passed by then.                               *)
Passed(s) == {Walk[i] : i \in {i \in DOMAIN Walk : /\ \A j \in 1..i : Walk[j] \in s
                                                   /\ Walk[i][2] = "default"}}

(* seen: the groups a creation knows to be there; item: the one it makes.  *)
Knows(s, g) == [seen |-> s, item |-> g]
NoGroup     == <<>>

GroupsInit ==
  /\ created = {}
  /\ groups \in {G \in SUBSET All : \A g \in G : Root(g[1]) \in G}
  /\ members = [c \in Requests |-> {}]
  /\ initial = [w \in Workers |-> {}]
  /\ NoRequests(Knows({}, NoGroup))

-------------------------------------------------------------------------------
(* Mutant: what the worker knows already is not looked for again.          *)
CreateUserCached(c) ==
  /\ pc[c] = "idle"
  /\ created' = created \cup {c}
  /\ Goto(c, IF c = AnonAdmin THEN "roles"
             ELSE IF initial[home[c]] = {} THEN "list" ELSE "join")
  /\ UNCHANGED <<groups, members, initial, job, failures>>

CreateUser(c) ==
  /\ pc[c] = "idle"
  /\ created' = created \cup {c}
  /\ Goto(c, IF c = AnonAdmin THEN "roles" ELSE "list")
  /\ UNCHANGED <<groups, members, initial, job, failures>>

(* The walk from one call to the next, knowing of s.  When it is over the  *)
(* user joins the initial groups, unless the worker knows of none.         *)
GoOn(c, s) ==
  /\ initial' = [initial EXCEPT ![home[c]] = @ \cup Passed(s)]
  /\ \/ /\ All \subseteq s
        /\ Goto(c, IF initial'[home[c]] = {} THEN "roles" ELSE "join")
        /\ job' = [job EXCEPT ![c].seen = s]
     \/ \E g \in Missing(s) :
          Goto(c, "make") /\ job' = [job EXCEPT ![c] = Knows(s, g)]

ListGroups(c) ==
  /\ pc[c] = "list"
  /\ GoOn(c, groups)
  /\ UNCHANGED <<keycloak, failures>>

(* a_create_group: 409 when there is one.                                  *)
MakeGroup(c) ==
  /\ pc[c] = "make"
  /\ \/ /\ job[c].item \notin groups
        /\ groups' = groups \cup {job[c].item}
        /\ Goto(c, "get")
     \/ /\ job[c].item \in groups
        /\ Goto(c, "refused")
        /\ UNCHANGED groups
  /\ UNCHANGED <<created, members, initial, job, failures>>

(* Mutant: the walk ends with the first group made.                        *)
GetGroupEnds(c) ==
  /\ pc[c] = "get"
  /\ Goto(c, "join")
  /\ UNCHANGED <<keycloak, initial, job, failures>>

(* a_get_group returns a product's group with the groups below it, which   *)
(* others may have made since.                                             *)
GetGroup(c) ==
  LET g == job[c].item IN
  /\ pc[c] = "get"
  /\ GoOn(c, job[c].seen \cup {g} \cup {h \in groups : g = Root(h[1])})
  /\ UNCHANGED <<keycloak, failures>>

(* a_group_user_add, for each group the worker knows.                      *)
Join(c) ==
  /\ pc[c] = "join"
  /\ \E g \in initial[home[c]] \ members[c] : members' = [members EXCEPT ![c] = @ \cup {g}]
  /\ Goto(c, IF initial[home[c]] \subseteq members'[c] THEN "roles" ELSE "join")
  /\ UNCHANGED <<created, groups, initial, job, failures>>

(* check_user_roles (see Roles) and the user as Keycloak has it now.       *)
CheckRoles(c) ==
  /\ pc[c] = "roles"
  /\ Goto(c, "done")
  /\ UNCHANGED <<keycloak, initial, job, failures>>

-------------------------------------------------------------------------------
CreationFails(c) ==
  /\ failures < MaxFailures
  /\ pc[c] \notin {"refused", "done"}
  /\ failures' = failures + 1
  /\ Goto(c, "refused")
  /\ UNCHANGED <<keycloak, initial, job, home>>

(* A worker dies, with what it knows and its creations.                    *)
CreatorDies(w) ==
  /\ failures < MaxFailures
  /\ failures' = failures + 1
  /\ initial' = [initial EXCEPT ![w] = {}]
  /\ pc' = [c \in Requests |-> IF home[c] = w /\ pc[c] \notin {"idle", "done"}
                               THEN "refused" ELSE pc[c]]
  /\ UNCHANGED <<keycloak, job, home>>

GoAhead(c) ==
  /\ UNCHANGED home
  /\ \/ CreateUser(c) \/ ListGroups(c) \/ MakeGroup(c) \/ GetGroup(c)
     \/ Join(c) \/ CheckRoles(c)

GroupsNext ==
  \/ \E c \in Requests : GoAhead(c) \/ CreationFails(c)
  \/ \E w \in Workers : CreatorDies(w)

GroupsSpec == GroupsInit /\ [][GroupsNext]_groupsVars

(* Every call to Keycloak ends and every worker goes on.                   *)
GroupsFairSpec == GroupsSpec /\ \A c \in Requests : WF_groupsVars(GoAhead(c))

-------------------------------------------------------------------------------
(* Types.  A creation knows of groups that are there.                      *)
GroupsTypeOK ==
  /\ created \subseteq Requests
  /\ groups \subseteq All
  /\ members \in [Requests -> SUBSET groups]
  /\ initial \in [Workers -> SUBSET groups]
  /\ pc \in [Requests -> {"idle", "list", "make", "get", "join", "roles", "done", "refused"}]
  /\ job \in [Requests -> [seen : SUBSET groups, item : All \cup {NoGroup}]]
  /\ home \in Deployments
  /\ failures \in 0..MaxFailures

(* Whoever made the groups and however the creations of a worker share     *)
(* what it knows of them, a user that is through is in the initial group   *)
(* of every product, and in no other (kchelpers.py:166-172).               *)
MemberOfAll ==
  \A c \in Requests \ {AnonAdmin} :
    pc[c] \in {"roles", "done"} => members[c] = Defaults

(* Creations that race to make the groups refuse each other, but never all *)
(* of them: the walks have one order, so the last group ever made is made  *)
(* by one that nobody refuses any more (kchelpers.py:247-267).             *)
NotAllRefused ==
  failures = 0 => \E c \in Requests : pc[c] # "refused"

(* Liveness, when nothing fails: once somebody looks for the groups they   *)
(* come to be there, so that later creations are not refused.              *)
GroupsGetMade ==
  (\E c \in Requests : pc[c] = "list") ~> groups = All \/ failures > 0

-------------------------------------------------------------------------------
(* What a worker knows are initial groups, and all of them are known to    *)
(* the worker of a creation that is about to join them.                    *)
MemberInv ==
  /\ \A w \in Workers : initial[w] \subseteq Defaults
  /\ \A c \in Requests : members[c] \subseteq Defaults
  /\ \A c \in Requests : pc[c] = "join" => initial[home[c]] = Defaults
  /\ MemberOfAll

(* Where a walk has got to: who makes a group has found every group before *)
(* it, and the group somebody has just made is there.                      *)
WalkInv ==
  \A c \in Requests :
    /\ pc[c] = "make" => job[c].item \in Missing(job[c].seen)
    /\ pc[c] = "get" => job[c].item \in groups

(* What was made since a creation has listed the groups was made in the    *)
(* order of the walk.                                                      *)
OrderInv ==
  \A c \in Requests : pc[c] \in {"make", "get", "join"} =>
    \A g \in groups \ job[c].seen :
      \E i \in DOMAIN Walk : g = Walk[i] /\ \A j \in 1..(i - 1) : Walk[j] \in groups

(* Somebody has nothing to fear: it has not listed the groups yet, it is   *)
(* past making any, or no group is there that it does not know of.         *)
Unrefused(c) ==
  \/ pc[c] \in {"idle", "list", "roles", "done"}
  \/ pc[c] \in {"make", "join"} /\ groups \subseteq job[c].seen
  \/ pc[c] = "get" /\ groups \subseteq job[c].seen \cup {job[c].item}

AheadInv == failures = 0 => \E c \in Requests : Unrefused(c)

(* The safety half of GroupsGetMade: once somebody has listed them, as     *)
(* long as groups are missing there is one at work that nobody refuses.    *)
GroupsAreInHand ==
  failures = 0 /\ (\E c \in Requests : pc[c] \in {"make", "get", "refused"}) =>
    groups = All \/ \E c \in Requests : pc[c] \in {"make", "get"} /\ Unrefused(c)

(* The inductive invariant.                                                *)
GroupsInv == GroupsTypeOK /\ MemberInv /\ WalkInv /\ OrderInv /\ AheadInv
===============================================================================
