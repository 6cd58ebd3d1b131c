----------------------------- MODULE KeycloakProofs -----------------------------
(***************************************************************************)
(* Proofs about Roles and Groups, what the application keeps in Keycloak,  *)
(* for every set of persons, slots, workers and products and every bound.  *)
(*                                                                         *)
(* Roles: nothing is assumed of the workers or of the number of tasks; the *)
(* slots are any set, and any of them may be at work on one person.        *)
(*                                                                         *)
(* Groups: nothing is assumed of workers or creations.                     *)
(*                                                                         *)
(* The two specifications share the slots of Handlers and nothing else.    *)
(***************************************************************************)
EXTENDS Roles, Groups, FiniteSetTheorems, TLAPS

USE ConstantsAssumption, GroupsAssumption, HandlersAssumption
    DEF ConstantsAssumption, GroupsAssumption, HandlersAssumption

-------------------------------------------------------------------------------
(* Roles                                                                   *)

(* What a slot remembers is well typed and can be read back.               *)
LEMMA JobType ==
  /\ \A p \in Persons, row \in Rows \cup {0}, a, i \in BOOLEAN :
       LET j == Job(p, row, a, i) IN
         j \in Jobs /\ j.cs = p /\ j.row = row /\ j.admin = a /\ j.id = i
  /\ NoJob \in Jobs
  BY DEF Job, Jobs, NoJob

(* A field of what a slot remembers is set; the person stays.              *)
LEMMA FieldSet ==
  ASSUME job \in [Requests -> Jobs], NEW s \in Requests, NEW b \in BOOLEAN
  PROVE  /\ [job EXCEPT ![s].id = b] \in [Requests -> Jobs]
         /\ [job EXCEPT ![s].id = b][s].cs = job[s].cs
         /\ [job EXCEPT ![s].admin = b] \in [Requests -> Jobs]
         /\ [job EXCEPT ![s].admin = b][s].cs = job[s].cs
  <1> DEFINE j == job[s]
             i == [j EXCEPT !.id = b]
             a == [j EXCEPT !.admin = b]
  <1>1. j \in Jobs
    OBVIOUS
  <1>2. i \in Jobs /\ i.cs = j.cs
    BY <1>1 DEF Jobs
  <1>3. a \in Jobs /\ a.cs = j.cs
    BY <1>1 DEF Jobs
  <1>4. [job EXCEPT ![s].id = b] = [job EXCEPT ![s] = i]
        /\ [job EXCEPT ![s].admin = b] = [job EXCEPT ![s] = a]
    OBVIOUS
  <1> HIDE DEF i, a
  <1> QED
    BY <1>2, <1>3, <1>4

(* The slots of handlers and of tasks are two kinds.                       *)
LEMMA Slots ==
  /\ Calls \subseteq Requests /\ Tasks \subseteq Requests
  /\ \A r \in Calls, t \in Tasks : r # t
  /\ \A s \in Requests : s \in Calls \/ s \in Tasks
  BY DEF Calls

(* A handler that informs Keycloak ends; one task starts.                  *)
LEMMA Informing ==
  ASSUME TypeOK, NEW r \in Calls, NEW p \in Persons, Inform(r, p)
  PROVE  \E t \in Tasks :
           /\ pc[t] = "idle"
           /\ pc' = [pc EXCEPT ![r] = "idle", ![t] = "sync_start"]
           /\ pc'[r] = "idle" /\ pc'[t] = "sync_start"
           /\ job' \in [Requests -> Jobs]
           /\ job'[t].cs = p /\ job'[t].id = (p \in linked)
           /\ \A s \in Requests \ {r, t} : pc'[s] = pc[s] /\ job'[s] = job[s]
  <1>1. PICK t \in Tasks :
          /\ pc[t] = "idle"
          /\ pc'  = [pc EXCEPT ![r] = "idle", ![t] = "sync_start"]
          /\ job' = [job EXCEPT ![r] = NoJob, ![t] = Job(p, 0, FALSE, p \in linked)]
    BY DEF Inform
  <1>2. r \in Requests /\ t \in Requests /\ r # t
    BY Slots
  <1>3. NoJob \in Jobs /\ Job(p, 0, FALSE, p \in linked) \in Jobs
    <2>1. CASE p \in linked
      <3>1. (p \in linked) = TRUE
        BY <2>1
      <3> QED
        BY <3>1, JobType
    <2>2. CASE p \notin linked
      <3>1. (p \in linked) = FALSE
        BY <2>2
      <3> QED
        BY <3>1, JobType
    <2> QED
      BY <2>1, <2>2
  <1>4. /\ Job(p, 0, FALSE, p \in linked).cs = p
        /\ Job(p, 0, FALSE, p \in linked).id = (p \in linked)
    BY DEF Job
  <1>5. pc \in [Requests -> CallPlaces \cup SyncPoints \cup {"idle"}] /\ job \in [Requests -> Jobs]
    BY DEF TypeOK
  <1> QED
    BY <1>1, <1>2, <1>3, <1>4, <1>5

(* What is noted beside a step is well typed.                              *)
LEMMA ObserveType == ASSUME Observe PROVE current' \subseteq Tasks /\ lost' \subseteq Persons
  BY DEF Observe

(* Workers that serve are finitely many.                                   *)
LEMMA ServingFinite ==
  ASSUME TypeOK, NEW S \in SUBSET Serving
  PROVE  IsFiniteSet(S) /\ Cardinality(S) \in Nat /\ Cardinality(S) <= Cardinality(Serving)
         /\ Cardinality(Serving) \in Nat
  <1>1. Serving \subseteq Workers
    BY DEF TypeOK, Serving
  <1>2. IsFiniteSet(Serving)
    BY <1>1, FS_Subset
  <1> QED
    BY <1>2, FS_Subset, FS_CardinalityType

(* Promoting names serving workers only.                                   *)
LEMMA PromotingServes == ASSUME NEW p PROVE Promoting(p) \subseteq Serving
  BY Slots DEF Promoting, Inserting, Serving

(* A step that inserts no row and makes no handler look for one keeps the  *)
(* rows counted.                                                           *)
LEMMA RowFrame ==
  ASSUME TypeOK, RowInv, home' = home,
         \A p \in Persons : roles'[p] \subseteq roles[p],
         \A q \in Calls : pc'[q] = "pro_insert" => pc[q] = "pro_insert" /\ job'[q].cs = job[q].cs
  PROVE  RowInv'
  <1>1. /\ Inserting' \subseteq Inserting /\ Serving' = Serving
        /\ \A q \in Inserting' : q \in Inserting /\ job'[q].cs = job[q].cs
    BY DEF Inserting, Serving
  <1>2. \A r, q \in Inserting' : home'[r] = home'[q] => r = q
    BY <1>1 DEF RowInv
  <1>3. ASSUME NEW p \in Persons
        PROVE  (/\ IsFiniteSet(roles[p])
                /\ Cardinality(roles[p]) + Cardinality(Promoting(p)) <= Cardinality(Serving))'
    <2>1. Promoting(p)' \subseteq Promoting(p)
      BY <1>1 DEF Promoting
    <2>2. /\ IsFiniteSet(roles[p]) /\ IsFiniteSet(Promoting(p))
          /\ Cardinality(roles[p]) + Cardinality(Promoting(p)) <= Cardinality(Serving)
      BY PromotingServes, ServingFinite DEF RowInv
    <2>3. IsFiniteSet(Promoting(p)') /\ Cardinality(Promoting(p)') <= Cardinality(Promoting(p))
      BY <2>1, <2>2, FS_Subset
    <2>4. IsFiniteSet(roles'[p]) /\ Cardinality(roles'[p]) <= Cardinality(roles[p])
      BY <2>2, FS_Subset
    <2>5. /\ Cardinality(Promoting(p)') \in Nat /\ Cardinality(Promoting(p)) \in Nat
          /\ Cardinality(roles'[p]) \in Nat /\ Cardinality(roles[p]) \in Nat
          /\ Cardinality(Serving) \in Nat
      BY <2>2, <2>3, <2>4, FS_CardinalityType, ServingFinite
    <2> QED
      BY <1>1, <2>2, <2>3, <2>4, <2>5
  <1> QED
    BY <1>2, <1>3 DEF RowInv

(* The look that finds no row: nobody else on the worker is about to       *)
(* insert one.                                                             *)
LEMMA RowLook ==
  ASSUME TypeOK, RowInv, home' = home, roles' = roles, NEW r \in Calls, NEW p \in Persons,
         roles[p] = {}, MayRun(r), NEW j, j.cs = p,
         pc' = [pc EXCEPT ![r] = "pro_insert"], job' = [job EXCEPT ![r] = j]
  PROVE  RowInv'
  <1>1. r \in Requests /\ Calls \subseteq Requests
    BY Slots
  <1>2. /\ Inserting' = Inserting \cup {r} /\ job'[r].cs = p
        /\ \A q \in Inserting : (q = r \/ home[q] # home[r]) /\ (q # r => job'[q] = job[q])
    BY <1>1, SMTT(30) DEF TypeOK, Inserting, MayRun, LoopIsFree, AwaitPoints, SyncPoints
  <1>3. \A s, q \in Inserting' : home'[s] = home'[q] => s = q
    BY <1>2 DEF RowInv
  <1>4. Serving' = Serving
    BY DEF Serving
  <1>5. ASSUME NEW d \in Persons
        PROVE  (/\ IsFiniteSet(roles[d])
                /\ Cardinality(roles[d]) + Cardinality(Promoting(d)) <= Cardinality(Serving))'
    <2>1. CASE d = p
      <3>1. roles'[d] = {} /\ Cardinality({}) = 0 /\ IsFiniteSet({})
        BY <2>1, FS_EmptySet
      <3>2. Promoting(d)' \subseteq Serving
        BY <1>4, Slots DEF Promoting, Inserting, Serving
      <3>3. Cardinality(Promoting(d)') \in Nat /\ Cardinality(Promoting(d)') <= Cardinality(Serving)
        BY <3>2, ServingFinite
      <3> QED
        BY <1>4, <3>1, <3>3
    <2>2. CASE d # p
      <3>1. Promoting(d)' \subseteq Promoting(d)
        BY <1>2, <2>2 DEF Promoting
      <3>2. /\ IsFiniteSet(roles[d]) /\ IsFiniteSet(Promoting(d))
            /\ Cardinality(roles[d]) + Cardinality(Promoting(d)) <= Cardinality(Serving)
        BY PromotingServes, ServingFinite DEF RowInv
      <3>3. IsFiniteSet(Promoting(d)') /\ Cardinality(Promoting(d)') <= Cardinality(Promoting(d))
        BY <3>1, <3>2, FS_Subset
      <3>4. /\ Cardinality(Promoting(d)') \in Nat /\ Cardinality(Promoting(d)) \in Nat
            /\ Cardinality(roles[d]) \in Nat /\ Cardinality(Serving) \in Nat
        BY <3>2, <3>3, FS_CardinalityType, ServingFinite
      <3> QED
        BY <1>4, <3>2, <3>3, <3>4
    <2> QED
      BY <2>1, <2>2
  <1> QED
    BY <1>3, <1>5 DEF RowInv

(* The INSERT adds a row, and its worker is not about to any more.         *)
LEMMA RowInsert ==
  ASSUME TypeOK, RowInv, home' = home, NEW r \in Calls, NEW p \in Persons, NEW new,
         pc[r] = "pro_insert", job[r].cs = p, pc'[r] # "pro_insert",
         roles' = [roles EXCEPT ![p] = @ \cup {new}],
         \A q \in Calls \ {r} : pc'[q] = pc[q] /\ job'[q] = job[q]
  PROVE  RowInv'
  <1>1. r \in Inserting /\ Inserting' \subseteq Inserting \ {r} /\ Serving' = Serving
    BY DEF Inserting, Serving
  <1>2. \A q \in Inserting' : q \in Inserting /\ job'[q].cs = job[q].cs /\ home'[q] # home[r]
    BY <1>1 DEF Inserting, RowInv
  <1>3. \A s, q \in Inserting' : home'[s] = home'[q] => s = q
    BY <1>1 DEF RowInv
  <1>4. ASSUME NEW d \in Persons
        PROVE  (/\ IsFiniteSet(roles[d])
                /\ Cardinality(roles[d]) + Cardinality(Promoting(d)) <= Cardinality(Serving))'
    <2>1. /\ IsFiniteSet(roles[d]) /\ IsFiniteSet(Promoting(d))
          /\ Cardinality(roles[d]) + Cardinality(Promoting(d)) <= Cardinality(Serving)
      BY PromotingServes, ServingFinite DEF RowInv
    <2>2. /\ Cardinality(roles[d]) \in Nat /\ Cardinality(Promoting(d)) \in Nat
          /\ Cardinality(Serving) \in Nat
      BY <2>1, FS_CardinalityType, ServingFinite
    <2>3. Promoting(d)' \subseteq Promoting(d)
      BY <1>2 DEF Promoting
    <2>4. CASE d = p
      <3>1. home[r] \in Promoting(d) /\ Promoting(d)' \subseteq Promoting(d) \ {home[r]}
        BY <1>1, <1>2, <2>3, <2>4 DEF Promoting
      <3>2. /\ IsFiniteSet(Promoting(d) \ {home[r]})
            /\ Cardinality(Promoting(d) \ {home[r]}) = Cardinality(Promoting(d)) - 1
        BY <2>1, <3>1, FS_RemoveElement
      <3>3. /\ Cardinality(Promoting(d)') <= Cardinality(Promoting(d)) - 1
            /\ Cardinality(Promoting(d)') \in Nat
        BY <3>1, <3>2, FS_Subset, FS_CardinalityType
      <3>4. roles'[d] = roles[d] \cup {new}
        BY <2>4 DEF TypeOK
      <3>5. IsFiniteSet(roles'[d]) /\ Cardinality(roles'[d]) <= Cardinality(roles[d]) + 1
        <4>1. CASE new \in roles[d]
          <5>1. roles'[d] = roles[d]
            BY <3>4, <4>1
          <5> QED
            BY <2>1, <2>2, <5>1
        <4>2. CASE new \notin roles[d]
          <5>1. /\ IsFiniteSet(roles[d] \cup {new})
                /\ Cardinality(roles[d] \cup {new}) = Cardinality(roles[d]) + 1
            BY <2>1, <4>2, FS_AddElement, Zenon
          <5>2. IsFiniteSet(roles'[d]) /\ Cardinality(roles'[d]) = Cardinality(roles[d]) + 1
            BY <3>4, <5>1, Zenon
          <5> QED
            BY <2>2, <5>2
        <4> QED
          BY <4>1, <4>2
      <3>6. Cardinality(roles'[d]) \in Nat
        BY <3>5, FS_CardinalityType
      <3> QED
        BY <1>1, <2>1, <2>2, <3>3, <3>5, <3>6
    <2>5. CASE d # p
      <3>1. roles'[d] = roles[d]
        BY <2>5 DEF TypeOK
      <3>2. IsFiniteSet(Promoting(d)') /\ Cardinality(Promoting(d)') <= Cardinality(Promoting(d))
        BY <2>1, <2>3, FS_Subset
      <3>3. Cardinality(Promoting(d)') \in Nat
        BY <3>2, FS_CardinalityType
      <3> QED
        BY <1>1, <2>1, <2>2, <3>1, <3>2, <3>3
    <2> QED
      BY <2>4, <2>5
  <1> QED
    BY <1>3, <1>4 DEF RowInv

(* The invariant holds initially.                                          *)
LEMMA InitInv == Init => IInv
  <1> SUFFICES ASSUME Init PROVE IInv
    OBVIOUS
  <1>1. TypeOK
    BY JobType, Slots DEF Init, NoRequests, TypeOK, CallPlaces, SyncPoints, Rows
  <1>2. RowInv
    <2>1. Inserting = {}
      BY Slots DEF Init, NoRequests, Inserting
    <2>2. \A p \in Persons : roles[p] = {} /\ Promoting(p) = {}
      BY <2>1 DEF Init, Promoting
    <2>3. IsFiniteSet({}) /\ Cardinality({}) = 0 /\ Cardinality(Serving) \in Nat
      BY <1>1, FS_EmptySet, ServingFinite
    <2>4. ASSUME NEW p \in Persons
          PROVE  /\ IsFiniteSet(roles[p])
                 /\ Cardinality(roles[p]) + Cardinality(Promoting(p)) <= Cardinality(Serving)
      <3>1. Cardinality(roles[p]) = 0 /\ Cardinality(Promoting(p)) = 0 /\ IsFiniteSet(roles[p])
        BY <2>2, <2>3, Zenon
      <3> QED
        BY <2>3, <3>1
    <2> QED
      BY <2>1, <2>4 DEF RowInv
  <1>3. DeleterInv
    BY Slots DEF Init, NoRequests, DeleterInv
  <1>4. TaskInv
    BY Slots DEF Init, NoRequests, TaskInv, SyncPoints
  <1> QED
    BY <1>1, <1>2, <1>3, <1>4 DEF IInv

(* A handler that begins: no row, user or task has changed, and what it    *)
(* has looked at is there.                                                 *)
LEMMA BeginInv ==
  ASSUME IInv, Observe, NEW r \in Calls, NEW p \in Persons, NEW row \in Rows \cup {0},
         NEW label \in {"pro_insert", "dem_delete", "del_mark"},
         Begin(r, label, Job(p, row, FALSE, FALSE)), UNCHANGED <<db, kc, home, failures>>,
         label = "pro_insert" => roles[p] = {}
  PROVE  TypeOK' /\ RowInv' /\ DeleterInv'
  <1> DEFINE j == Job(p, row, FALSE, FALSE)
  <1>1. /\ pc[r] = "idle" /\ MayRun(r)
        /\ pc' = [pc EXCEPT ![r] = label] /\ job' = [job EXCEPT ![r] = j]
        /\ UNCHANGED <<roles, inserted, deleted, linked, kcusers, kcadmin, home, failures>>
    BY DEF Begin, At, Goto, db, kc
  <1>2. r \in Requests /\ r \notin Tasks /\ Calls \subseteq Requests
    BY Slots
  <1>3. j \in Jobs /\ j.cs = p /\ j.row = row
    BY JobType
  <1> HIDE DEF j
  <1>4. TypeOK'
    BY <1>1, <1>2, <1>3, Slots, ObserveType DEF IInv, TypeOK, CallPlaces, SyncPoints
  <1>5. RowInv'
    <2>1. CASE label = "pro_insert"
      BY <1>1, <1>3, <2>1, RowLook DEF IInv
    <2>2. CASE label # "pro_insert"
      <3>1. \A q \in Calls : pc'[q] = "pro_insert" => pc[q] = "pro_insert" /\ job'[q].cs = job[q].cs
        BY <1>1, <1>2, <2>2 DEF IInv, TypeOK
      <3> QED
        BY <1>1, <3>1, RowFrame DEF IInv
    <2> QED
      BY <2>1, <2>2
  <1>6. DeleterInv'
    BY <1>1, <1>2 DEF IInv, TypeOK, DeleterInv
  <1> QED
    BY <1>4, <1>5, <1>6

(* A handler that informs Keycloak, with a change of its person's rows or  *)
(* without: the parts of the invariant that are not about rows.            *)
LEMMA InformInv ==
  ASSUME IInv, Observe, NEW r \in Calls, NEW p \in Persons, Inform(r, p),
         UNCHANGED <<deleted, linked, kc, home, failures>>,
         roles' \in [Persons -> SUBSET Rows], inserted' \in Nat,
         \A q \in Persons : \A row \in roles'[q] : row <= inserted'
  PROVE  TypeOK' /\ DeleterInv'
  <1>1. PICK t \in Tasks :
          /\ pc[t] = "idle"
          /\ pc' = [pc EXCEPT ![r] = "idle", ![t] = "sync_start"]
          /\ pc'[r] = "idle" /\ pc'[t] = "sync_start"
          /\ job' \in [Requests -> Jobs]
          /\ job'[t].cs = p /\ job'[t].id = (p \in linked)
          /\ \A s \in Requests \ {r, t} : pc'[s] = pc[s] /\ job'[s] = job[s]
    BY Informing DEF IInv
  <1>2. UNCHANGED <<deleted, linked, kcusers, kcadmin, home, failures>>
    BY DEF kc
  <1>3. TypeOK'
    BY <1>1, <1>2, Slots, ObserveType DEF IInv, TypeOK, CallPlaces, SyncPoints
  <1>4. DeleterInv'
    BY <1>1, <1>2, Slots DEF IInv, TypeOK, DeleterInv
  <1> QED
    BY <1>3, <1>4

(* The handlers that look up rows, or a person to delete.                  *)
LEMMA ArriveInv ==
  ASSUME IInv, Observe, NEW r \in Calls, Arrive(r) PROVE TypeOK' /\ RowInv' /\ DeleterInv'
  <1>1. PICK p \in Persons : PromoteLook(r, p) \/ DemoteLook(r, p) \/ DeleteLoad(r, p)
    BY DEF Arrive
  <1>2. UNCHANGED <<db, kc, home, failures>>
    BY <1>1 DEF Arrive, PromoteLook, DemoteLook, DeleteLoad
  <1>3. CASE At(r, "idle") /\ Inform(r, p)
    <2>1. TypeOK' /\ DeleterInv'
      BY <1>2, <1>3, InformInv DEF IInv, TypeOK, db
    <2>2. PICK t \in Tasks : \A s \in Requests \ {r, t} : pc'[s] = pc[s] /\ job'[s] = job[s]
      BY <1>3, Informing DEF IInv
    <2>3. pc'[r] = "idle"
      BY <1>3, Informing DEF IInv
    <2>4. RowInv'
      <3>1. \A s \in Calls : pc'[s] = "idle" \/ (pc'[s] = pc[s] /\ job'[s] = job[s])
        BY <2>2, <2>3, Slots
      <3> QED
        BY <1>2, <3>1, RowFrame DEF IInv, db
    <2> QED
      BY <2>1, <2>4
  <1>4. CASE roles[p] = {} /\ Begin(r, "pro_insert", Job(p, 0, FALSE, FALSE))
    BY <1>2, <1>4, BeginInv
  <1>5. CASE \E row \in roles[p] : Begin(r, "dem_delete", Job(p, row, FALSE, FALSE))
    <2>1. roles[p] \subseteq Rows
      BY DEF IInv, TypeOK
    <2> QED
      BY <1>2, <1>5, <2>1, BeginInv
  <1>6. CASE Begin(r, "del_mark", Job(p, 0, FALSE, FALSE))
    BY <1>2, <1>6, BeginInv
  <1> QED
    BY <1>1, <1>3, <1>4, <1>5, <1>6 DEF PromoteLook, DemoteLook, DeleteLoad

(* Inserting a row.                                                        *)
LEMMA PromoteInv ==
  ASSUME IInv, Observe, NEW r \in Calls, PromoteInsert(r), UNCHANGED home
  PROVE  TypeOK' /\ RowInv' /\ DeleterInv'
  <1>1. PICK p \in Persons : p = job[r].cs
    BY Slots DEF PromoteInsert, At, IInv, TypeOK
  <1>2. PICK new \in Nat : new = inserted + 1
    BY DEF IInv, TypeOK
  <1>3. pc[r] = "pro_insert" /\ MayRun(r) /\ Inform(r, p)
        /\ roles' = [roles EXCEPT ![p] = @ \cup {new}] /\ inserted' = new
        /\ UNCHANGED <<deleted, linked, kc, failures>>
    BY <1>1, <1>2 DEF PromoteInsert, At
  <1>4. new > inserted /\ new \in Rows
    BY <1>2 DEF IInv, TypeOK, Rows
  <1>5. TypeOK' /\ DeleterInv'
    <2>1. roles' \in [Persons -> SUBSET Rows]
      BY <1>3, <1>4 DEF IInv, TypeOK
    <2>2. \A q \in Persons : \A row \in roles'[q] : row <= inserted'
      BY <1>3, <1>4 DEF IInv, TypeOK, Rows
    <2> QED
      BY <1>2, <1>3, <2>1, <2>2, InformInv
  <1>6. RowInv'
    <2>1. pc'[r] = "idle" /\ \A q \in Calls \ {r} : pc'[q] = pc[q] /\ job'[q] = job[q]
      BY <1>3, Informing, Slots DEF IInv
    <2> QED
      BY <1>1, <1>3, <2>1, RowInsert DEF IInv
  <1> QED
    BY <1>5, <1>6

(* Deleting a row.                                                         *)
LEMMA DemoteInv ==
  ASSUME IInv, Observe, NEW r \in Calls, DemoteDelete(r), UNCHANGED home
  PROVE  TypeOK' /\ RowInv' /\ DeleterInv'
  <1>1. PICK p \in Persons : p = job[r].cs
    BY Slots DEF DemoteDelete, At, IInv, TypeOK
  <1>2. pc[r] = "dem_delete" /\ MayRun(r) /\ Inform(r, p)
        /\ roles' = [roles EXCEPT ![p] = @ \ {job[r].row}]
        /\ UNCHANGED <<inserted, deleted, linked, kc, failures>>
    BY <1>1 DEF DemoteDelete, At
  <1>3. TypeOK' /\ DeleterInv'
    <2>1. roles' \in [Persons -> SUBSET Rows] /\ inserted' \in Nat
      BY <1>2 DEF IInv, TypeOK, Rows
    <2>2. \A q \in Persons : \A row \in roles'[q] : row <= inserted'
      BY <1>2, <2>1 DEF IInv, TypeOK, Rows
    <2> QED
      BY <1>1, <1>2, <2>1, <2>2, InformInv
  <1>4. RowInv'
    <2>1. \A q \in Persons : roles'[q] \subseteq roles[q]
      BY <1>2 DEF IInv, TypeOK
    <2>2. pc'[r] = "idle" /\ \A q \in Calls \ {r} : pc'[q] = pc[q] /\ job'[q] = job[q]
      BY <1>2, Informing, Slots DEF IInv
    <2> QED
      BY <2>1, <2>2, RowFrame DEF IInv
  <1> QED
    BY <1>3, <1>4

(* A deletion marks its person, and goes on to Keycloak only for one that  *)
(* is marked.                                                              *)
LEMMA DeleteInv ==
  ASSUME IInv, Observe, NEW r \in Calls, DeleteMark(r) \/ DeleteRevoked(r) \/ KcDelete(r),
         UNCHANGED home
  PROVE  TypeOK' /\ RowInv' /\ DeleterInv'
  <1> DEFINE p == job[r].cs
  <1> USE DEF At, Goto, Finish, Leave
  <1>1. r \in Requests /\ r \notin Tasks /\ Calls \subseteq Requests
    BY Slots
  <1>2. p \in Persons
    BY <1>1 DEF DeleteMark, DeleteRevoked, KcDelete, IInv, TypeOK
  <1>3. TypeOK'
    <2> USE ObserveType DEF IInv, TypeOK, CallPlaces, SyncPoints, db, kc
    <2>1. CASE DeleteMark(r)
      <3>1. job' \in [Requests -> Jobs] /\ job'[r].cs = p
            /\ \A s \in Requests \ {r} : job'[s] = job[s]
        <4>1. \A b \in BOOLEAN : [job EXCEPT ![r].id = b] \in [Requests -> Jobs]
                                /\ [job EXCEPT ![r].id = b][r].cs = p
          BY <1>1, FieldSet
        <4>2. (p \in linked) = TRUE \/ (p \in linked) = FALSE
          OBVIOUS
        <4>3. job' \in [Requests -> Jobs] /\ job'[r].cs = p
          BY <2>1, <4>1, <4>2 DEF DeleteMark
        <4> QED
          BY <1>1, <2>1, <4>3 DEF DeleteMark
      <3>2. /\ pc' = [pc EXCEPT ![r] = "del_revoke"] /\ deleted' = deleted \cup {p}
            /\ UNCHANGED <<roles, inserted, linked, kcusers, kcadmin, home, failures>>
        BY <2>1 DEF DeleteMark
      <3> QED
        BY <1>1, <1>2, <3>1, <3>2
    <2>2. CASE DeleteRevoked(r)
      <3>1. UNCHANGED <<roles, inserted, deleted, linked, kcusers, kcadmin, home, failures>>
        BY <2>2 DEF DeleteRevoked
      <3>2. \/ pc' = [pc EXCEPT ![r] = "del_kc"] /\ job' = job
            \/ pc' = [pc EXCEPT ![r] = "idle"] /\ job' = [job EXCEPT ![r] = NoJob]
        BY <2>2, Zenon DEF DeleteRevoked
      <3>3. CASE pc' = [pc EXCEPT ![r] = "del_kc"] /\ job' = job
        BY <1>1, <1>2, <3>1, <3>3
      <3>4. CASE pc' = [pc EXCEPT ![r] = "idle"] /\ job' = [job EXCEPT ![r] = NoJob]
        BY <1>1, <3>1, <3>4, JobType
      <3> QED
        BY <3>2, <3>3, <3>4
    <2>3. CASE KcDelete(r)
      BY <1>1, <1>2, <2>3, JobType DEF KcDelete
    <2> QED
      BY <2>1, <2>2, <2>3
  <1>4. /\ pc'[r] # "pro_insert"
        /\ \A s \in Requests \ {r} : pc'[s] = pc[s] /\ job'[s] = job[s]
        /\ UNCHANGED <<roles, linked>> /\ deleted \subseteq deleted'
    BY <1>1 DEF DeleteMark, DeleteRevoked, KcDelete, IInv, TypeOK, db
  <1>5. RowInv'
    BY <1>1, <1>4, RowFrame DEF IInv
  <1>6. DeleterInv'
    <2>1. pc'[r] \in {"del_revoke", "del_kc"} => job'[r].cs \in deleted'
      <3> USE DEF IInv, TypeOK, DeleterInv, db
      <3>1. CASE DeleteMark(r)
        BY <1>1, <3>1 DEF DeleteMark, Jobs
      <3>2. CASE DeleteRevoked(r)
        BY <1>1, <3>2 DEF DeleteRevoked
      <3>3. CASE KcDelete(r)
        BY <1>1, <3>3 DEF KcDelete
      <3> QED
        BY <3>1, <3>2, <3>3
    <2> QED
      BY <1>1, <1>4, <2>1 DEF IInv, DeleterInv
  <1> QED
    BY <1>3, <1>5, <1>6

(* What a step of a task leaves alone, whichever it is: the rows, and what *)
(* handlers do.                                                            *)
LEMMA SyncFrame ==
  ASSUME TypeOK, RowInv, DeleterInv, NEW t \in Tasks, Sync(t)
  PROVE  /\ RowInv' /\ DeleterInv'
         /\ UNCHANGED <<roles, inserted, deleted, home, failures>>
         /\ \A s \in Requests \ {t} : pc'[s] = pc[s] /\ job'[s] = job[s]
  <1> USE DEF At, Goto, Finish, Leave
  <1>1. /\ UNCHANGED <<roles, inserted, deleted, home, failures>>
        /\ \A s \in Requests \ {t} : pc'[s] = pc[s] /\ job'[s] = job[s]
    BY DEF Sync, SyncStart, KcFind, KcCreate, KcRoles, KcWrite, KcUpdate, SyncLink, TypeOK, db
  <1>2. RowInv' /\ DeleterInv'
    BY <1>1, Slots, RowFrame DEF DeleterInv
  <1> QED
    BY <1>1, <1>2

(* A step of a task keeps the types.                                       *)
LEMMA SyncType == ASSUME TypeOK, Observe, NEW t \in Tasks, Sync(t) PROVE TypeOK'
  <1> DEFINE p == job[t].cs
  <1> USE DEF At, Goto, Finish, Leave
  <1>1. t \in Requests /\ t \notin Calls
    BY Slots
  <1>2. p \in Persons /\ pc[t] \in SyncPoints
    BY <1>1 DEF Sync, SyncStart, KcFind, KcCreate, KcRoles, KcWrite, KcUpdate, SyncLink,
                TypeOK, SyncPoints
  <1>3. UNCHANGED <<roles, inserted, deleted, home, failures>>
    BY DEF Sync, SyncStart, KcFind, KcCreate, KcRoles, KcWrite, KcUpdate, SyncLink, db
  <1>4. /\ linked' \subseteq NullExtra
        /\ kcusers' \subseteq Persons /\ kcadmin' \subseteq kcusers'
    BY <1>2 DEF Sync, SyncStart, KcFind, KcCreate, KcRoles, KcWrite, KcUpdate, SyncLink,
                TypeOK, db, kc
  <1>5. job' \in [Requests -> Jobs] /\ (pc'[t] # "idle" => job'[t].cs = p)
    <2> USE DEF TypeOK
    <2>1. CASE SyncStart(t)
      <3> DEFINE b == roles[p] # {}
      <3>1. b = TRUE \/ b = FALSE
        OBVIOUS
      <3>2. job' = [job EXCEPT ![t].admin = b]
        BY <2>1 DEF SyncStart
      <3> HIDE DEF b
      <3> QED
        BY <1>1, <3>1, <3>2, FieldSet
    <2>2. CASE KcFind(t)
      BY <1>1, <2>2 DEF KcFind
    <2>3. CASE KcCreate(t)
      BY <1>1, <2>3, JobType DEF KcCreate
    <2>4. CASE KcRoles(t)
      BY <1>1, <2>4, JobType DEF KcRoles
    <2>5. CASE KcWrite(t)
      BY <1>1, <2>5, JobType DEF KcWrite
    <2>6. CASE KcUpdate(t)
      BY SMTT(30), <1>1, <2>6, JobType DEF KcUpdate
    <2>7. CASE SyncLink(t)
      BY <1>1, <2>7, JobType DEF SyncLink
    <2> QED
      BY <2>1, <2>2, <2>3, <2>4, <2>5, <2>6, <2>7 DEF Sync
  <1>6. /\ pc' \in [Requests -> CallPlaces \cup SyncPoints \cup {"idle"}]
        /\ pc'[t] \in SyncPoints \cup {"idle"}
        /\ \A s \in Requests \ {t} : pc'[s] = pc[s] /\ job'[s] = job[s]
    BY <1>1 DEF Sync, SyncStart, KcFind, KcCreate, KcRoles, KcWrite, KcUpdate, SyncLink,
                TypeOK, SyncPoints
  <1>7. /\ \A r \in Calls : pc'[r] \notin SyncPoints
        /\ \A u \in Tasks : pc'[u] \notin CallPlaces
        /\ \A s \in Requests : pc'[s] # "idle" => job'[s].cs \in Persons
    BY <1>1, <1>2, <1>5, <1>6, Slots DEF TypeOK, SyncPoints, CallPlaces
  <1> QED
    BY <1>3, <1>4, <1>5, <1>6, <1>7, ObserveType DEF TypeOK

(* What a step of a task does to it: the places in their order, and what   *)
(* it remembers.                                                           *)
LEMMA SyncTask ==
  ASSUME TypeOK, NEW t \in Tasks, Sync(t), NEW p \in Persons, p = job[t].cs
  PROVE  /\ pc[t] \in SyncPoints
         /\ \/ pc'[t] = "idle"
            \/ /\ pc'[t] \in SyncPoints \ {"sync_start"}
               /\ job'[t].cs = p /\ job'[t].id = job[t].id
         /\ pc[t] # "sync_start" /\ pc'[t] # "idle" => job'[t].admin = job[t].admin
         /\ pc[t] = "sync_start" => /\ job'[t].admin = HasRole(p)
                                    /\ pc'[t] \in {"sync_find", "sync_roles"}
                                    /\ pc'[t] = "sync_find" <=> ~job[t].id
         /\ pc'[t] = "sync_find" => pc[t] = "sync_start"
         /\ pc'[t] = "sync_create" => pc[t] = "sync_find"
         /\ pc'[t] = "sync_roles" => \/ pc[t] = "sync_start"
                                     \/ pc[t] = "sync_find" /\ p \in kcusers
                                     \/ pc[t] = "sync_create" /\ p \in kcusers'
         /\ pc'[t] = "sync_write" => pc[t] = "sync_roles"
         /\ pc'[t] = "sync_update" => /\ pc[t] \in {"sync_roles", "sync_write"}
                                      /\ job[t].admin = (p \in kcadmin')
         /\ pc'[t] = "sync_link" => pc[t] = "sync_update"
         /\ pc'[t] = "idle" /\ pc[t] \in {"sync_roles", "sync_write"} => p \notin kcusers
         /\ pc'[t] = "idle" => pc[t] # "sync_find"
  <1>1. /\ t \in Requests /\ pc \in [Requests -> CallPlaces \cup SyncPoints \cup {"idle"}]
        /\ job \in [Requests -> Jobs] /\ job[t] \in Jobs
    BY Slots DEF TypeOK
  <1> USE <1>1 DEF At, Goto, Finish, Leave, SyncPoints, HasRole, kc
  <1>2. CASE SyncStart(t)
    <2>1. PICK b \in BOOLEAN : b = HasRole(p)
      OBVIOUS
    <2>2. job' = [job EXCEPT ![t].admin = b]
      BY <2>1, <1>2 DEF SyncStart
    <2>3. job'[t].admin = b /\ job'[t].cs = p /\ job'[t].id = job[t].id
      BY <2>2 DEF Jobs
    <2>4. pc[t] = "sync_start" /\ pc'[t] = IF job[t].id THEN "sync_roles" ELSE "sync_find"
      BY <1>2 DEF SyncStart
    <2> QED
      BY <2>1, <2>3, <2>4
  <1>3. CASE KcFind(t)
    BY <1>3 DEF KcFind
  <1>4. CASE KcCreate(t)
    BY <1>4 DEF KcCreate
  <1>5. CASE KcRoles(t)
    <2>1. CASE p \in kcusers
      <3>1. job' = job /\ kcadmin' = kcadmin /\ pc[t] = "sync_roles"
            /\ pc'[t] = IF job[t].admin = (p \in kcadmin) THEN "sync_update" ELSE "sync_write"
        BY <2>1, <1>5 DEF KcRoles
      <3> QED
        BY <2>1, <3>1
    <2>2. CASE p \notin kcusers
      BY <2>2, <1>5 DEF KcRoles
    <2> QED
      BY <2>1, <2>2
  <1>6. CASE KcWrite(t)
    <2>1. CASE p \in kcusers
      <3>1. job' = job /\ pc[t] = "sync_write" /\ pc'[t] = "sync_update"
            /\ kcadmin' = IF job[t].admin THEN kcadmin \cup {p} ELSE kcadmin \ {p}
        BY <2>1, <1>6 DEF KcWrite
      <3>2. job[t].admin \in BOOLEAN
        BY DEF Jobs
      <3>3. job[t].admin = (p \in kcadmin')
        BY <3>1, <3>2
      <3> QED
        BY <3>1, <3>3
    <2>2. CASE p \notin kcusers
      BY <2>2, <1>6 DEF KcWrite
    <2> QED
      BY <2>1, <2>2
  <1>7. CASE KcUpdate(t)
    BY <1>7 DEF KcUpdate
  <1>8. CASE SyncLink(t)
    BY <1>8 DEF SyncLink
  <1> QED
    BY <1>2, <1>3, <1>4, <1>5, <1>6, <1>7, <1>8 DEF Sync

(* What any step does to a task: nothing, or it is started, or takes a     *)
(* step of its own, or something fails and it is gone.                     *)
LEMMA TaskSteps ==
  ASSUME TypeOK, Step, NEW t \in Tasks
  PROVE  \/ pc'[t] = pc[t] /\ job'[t] = job[t]
         \/ pc'[t] = "idle" /\ failures' # 0
         \/ pc[t] = "idle" /\ pc'[t] = "sync_start" /\ job'[t].id = (job'[t].cs \in linked)
         \/ Sync(t)
  <1>1. CASE \E r \in Calls : Arrive(r) \/ Advance(r)
    <2>1. PICK r \in Calls : Arrive(r) \/ Advance(r)
      BY <1>1
    <2>2. CASE \E p \in Persons : Inform(r, p)
      BY <2>2, Informing, Slots
    <2>3. CASE \A s \in Requests \ {r} : pc'[s] = pc[s] /\ job'[s] = job[s]
      BY <2>3, Slots
    <2>4. r \in Requests /\ job \in [Requests -> Jobs]
          /\ pc \in [Requests -> CallPlaces \cup SyncPoints \cup {"idle"}]
      BY Slots DEF TypeOK
    <2>5. CASE Arrive(r)
      BY <2>2, <2>3, <2>4, <2>5 DEF Arrive, PromoteLook, DemoteLook, DeleteLoad, Begin, Goto
    <2>6. CASE Advance(r)
      <3>1. CASE PromoteInsert(r) \/ DemoteDelete(r)
        <4>1. job[r].cs \in Persons
          BY <2>4, <3>1 DEF TypeOK, PromoteInsert, DemoteDelete, At
        <4> QED
          BY <2>2, <3>1, <4>1 DEF PromoteInsert, DemoteDelete
      <3>2. CASE DeleteMark(r) \/ DeleteRevoked(r) \/ KcDelete(r)
        BY <2>3, <2>4, <3>2 DEF DeleteMark, DeleteRevoked, KcDelete, Finish, Leave, Goto
      <3> QED
        BY <2>6, <3>1, <3>2 DEF Advance
    <2> QED
      BY <2>1, <2>5, <2>6
  <1>2. CASE \E u \in Tasks : Sync(u)
    <2>1. PICK u \in Tasks : Sync(u)
      BY <1>2
    <2>2. \A s \in Requests \ {u} : pc'[s] = pc[s] /\ job'[s] = job[s]
      BY <2>1 DEF Sync, SyncStart, KcFind, KcCreate, KcRoles, KcWrite, KcUpdate, SyncLink, TypeOK,
                  Goto, Finish, Leave
    <2> QED
      BY <2>1, <2>2, Slots
  <1>3. CASE (\E s \in Requests : CallFails(s)) \/ (\E w \in Workers : WorkerCrash(w))
    BY <1>3, Slots DEF CallFails, WorkerCrash, Dies, Goto, Finish, Leave, TypeOK
  <1> QED
    BY <1>1, <1>2, <1>3 DEF Step

(* What is deleted, linked or has failed stays so.                         *)
LEMMA Grows ==
  ASSUME IInv, Step
  PROVE  /\ linked \subseteq linked' /\ deleted \subseteq deleted'
         /\ linked' \subseteq linked \cup {job[t].cs : t \in {u \in Tasks : pc[u] = "sync_link"}}
         /\ kcusers \subseteq kcusers' \cup deleted
         /\ failures' = 0 => failures = 0
  <1> USE DEF db, kc
  <1>1. CASE \E r \in Calls : Arrive(r) \/ Advance(r)
    BY <1>1 DEF Arrive, PromoteLook, DemoteLook, DeleteLoad, Advance, PromoteInsert, DemoteDelete,
                DeleteMark, DeleteRevoked, KcDelete, IInv, DeleterInv
  <1>2. CASE \E t \in Tasks : Sync(t)
    BY <1>2 DEF Sync, SyncStart, KcFind, KcCreate, KcRoles, KcWrite, KcUpdate, SyncLink, At
  <1>3. CASE (\E s \in Requests : CallFails(s)) \/ (\E w \in Workers : WorkerCrash(w))
    BY <1>3 DEF CallFails, WorkerCrash, Dies, IInv, TypeOK
  <1> QED
    BY <1>1, <1>2, <1>3 DEF Step

(* Who writes the role of a person who is not deleted into Keycloak.       *)
LEMMA RoleWrites ==
  ASSUME IInv, Step, NEW p \in Persons \ deleted, (p \in kcadmin') # (p \in kcadmin)
  PROVE  /\ HasRole(p)' = HasRole(p)
         /\ \E t \in Tasks : /\ pc[t] = "sync_write" /\ pc'[t] = "sync_update"
                             /\ job[t].cs = p /\ job[t].admin = (p \in kcadmin')
  <1>1. \A r \in Calls : ~KcDelete(r)
    BY DEF KcDelete, IInv, DeleterInv
  <1>2. PICK t \in Tasks : KcWrite(t)
    BY <1>1 DEF Step, Arrive, PromoteLook, DemoteLook, DeleteLoad, Advance, PromoteInsert,
                DemoteDelete, DeleteMark, DeleteRevoked, Sync, SyncStart, KcFind, KcCreate, KcRoles,
                KcUpdate, SyncLink, CallFails, WorkerCrash, db, kc
  <1>3. t \in Requests /\ pc \in [Requests -> CallPlaces \cup SyncPoints \cup {"idle"}]
        /\ job[t].admin \in BOOLEAN
    BY Slots DEF IInv, TypeOK, Jobs
  <1>4. /\ pc[t] = "sync_write" /\ pc' = [pc EXCEPT ![t] = "sync_update"] /\ roles' = roles
        /\ kcadmin' = IF job[t].admin THEN kcadmin \cup {job[t].cs} ELSE kcadmin \ {job[t].cs}
    BY <1>2 DEF KcWrite, Goto, db
  <1>5. job[t].cs = p
    BY <1>4
  <1>6. job[t].admin = (p \in kcadmin')
    BY <1>3, <1>4, <1>5
  <1> QED
    BY <1>3, <1>4, <1>5, <1>6 DEF HasRole

(* Agreement about a person whose role stays is lost in the open.          *)
LEMMA AgreementWatched ==
  ASSUME IInv, Step, Observe, NEW p \in Persons \ deleted, HasRole(p)' = HasRole(p),
         Agrees(p) \/ p \in lost
  PROVE  Agrees(p)' \/ p \in lost'
  <1> SUFFICES ASSUME ~Agrees(p)' PROVE p \in lost'
    OBVIOUS
  <1>1. CASE p \in lost
    BY <1>1 DEF Observe
  <1>2. CASE p \notin lost
    <2>1. Agrees(p) /\ (p \in kcadmin') # (p \in kcadmin)
      BY <1>2 DEF Agrees
    <2>2. PICK t \in Tasks : /\ pc[t] = "sync_write" /\ pc'[t] = "sync_update"
                             /\ job[t].cs = p /\ job[t].admin = (p \in kcadmin')
      BY <2>1, RoleWrites
    <2>3. job[t].admin # HasRole(p)
      BY <2>1, <2>2 DEF Agrees
    <2>4. Overrules(t, p)
      BY <2>2, <2>3 DEF Overrules
    <2> QED
      BY <2>4 DEF Observe
  <1> QED
    BY <1>1, <1>2

(* What a task has read and still stands was read just now or before.      *)
LEMMA Standing ==
  ASSUME IInv, Step, Observe, NEW t \in current'
  PROVE  /\ t \in Tasks
         /\ \/ /\ Sync(t) /\ pc[t] = "sync_start" /\ pc'[t] # "idle"
            \/ /\ t \in current /\ pc'[t] \in SyncPoints \ {"sync_start"}
               /\ job'[t].cs = job[t].cs /\ job'[t].admin = job[t].admin
               /\ HasRole(job[t].cs)' = HasRole(job[t].cs)
  <1>1. t \in Tasks
    BY DEF Observe
  <1>2. CASE pc[t] = "sync_start" /\ pc'[t] \notin {"idle", "sync_start"}
    BY <1>1, <1>2, TaskSteps DEF IInv
  <1>3. CASE t \in current /\ pc'[t] # "idle" /\ HasRole(job[t].cs)' = HasRole(job[t].cs)
    <2>1. pc[t] \in SyncPoints \ {"sync_start"} /\ job[t].cs \in Persons
      BY <1>1, <1>3, Slots DEF IInv, TaskInv, TypeOK, SyncPoints
    <2>2. (pc'[t] = pc[t] /\ job'[t] = job[t]) \/ Sync(t)
      BY <1>1, <1>3, <2>1, TaskSteps DEF IInv, SyncPoints
    <2> QED
      BY <1>1, <1>3, <2>1, <2>2, SyncTask DEF IInv
  <1> QED
    BY <1>1, <1>2, <1>3 DEF Observe

(* Tasks keep what is said of them, whoever takes the step.                *)
LEMMA TasksInv == ASSUME IInv, Step, Observe PROVE TaskInv'
  <1>1. ASSUME NEW t \in Tasks
        PROVE  /\ pc'[t] # "idle" /\ job'[t].id => job'[t].cs \in linked'
               /\ pc'[t] \in {"sync_find", "sync_create"} => ~job'[t].id
    <2>1. /\ pc[t] # "idle" /\ job[t].id => job[t].cs \in linked
          /\ pc[t] \in {"sync_find", "sync_create"} => ~job[t].id
          /\ pc[t] # "idle" => job[t].cs \in Persons
      BY Slots DEF IInv, TaskInv, TypeOK
    <2>2. linked \subseteq linked'
      BY Grows
    <2>3. CASE Sync(t)
      <3>1. PICK p \in Persons : p = job[t].cs
        BY <2>1, <2>3 DEF Sync, SyncStart, KcFind, KcCreate, KcRoles, KcWrite, KcUpdate, SyncLink, At
      <3>2. /\ pc[t] # "idle"
            /\ pc'[t] = "idle" \/ (job'[t].cs = p /\ job'[t].id = job[t].id)
            /\ pc'[t] = "sync_find" => ~job[t].id
            /\ pc'[t] = "sync_create" => pc[t] = "sync_find"
        BY <2>3, <3>1, SyncTask DEF IInv, SyncPoints
      <3> QED
        BY <2>1, <2>2, <3>1, <3>2
    <2> QED
      BY <2>1, <2>2, <2>3, TaskSteps DEF IInv
  <1>2. ASSUME NEW t \in current'
        PROVE  /\ pc'[t] \in SyncPoints \ {"sync_start"}
               /\ job'[t].admin = HasRole(job[t].cs)'
               /\ pc'[t] \in {"sync_update", "sync_link"} /\ job'[t].cs \notin deleted' =>
                    Agrees(job[t].cs)' \/ job'[t].cs \in lost'
    <2>1. PICK p \in Persons : p = job[t].cs
      BY Standing, Slots DEF IInv, TypeOK, TaskInv, SyncPoints, Sync, SyncStart, KcFind, KcCreate,
                             KcRoles, KcWrite, KcUpdate, SyncLink, At
    <2>2. CASE Sync(t) /\ pc[t] = "sync_start" /\ pc'[t] # "idle"
      <3>1. roles' = roles /\ t \in Tasks
        BY <2>2, Standing, SyncFrame DEF IInv
      <3>2. /\ pc'[t] \in {"sync_find", "sync_roles"}
            /\ job'[t].cs = p /\ job'[t].admin = HasRole(p)
        BY <2>1, <2>2, <3>1, SyncTask DEF IInv
      <3> QED
        BY <3>1, <3>2 DEF HasRole, SyncPoints
    <2>3. CASE /\ t \in current /\ pc'[t] \in SyncPoints \ {"sync_start"}
               /\ job'[t].cs = job[t].cs /\ job'[t].admin = job[t].admin
               /\ HasRole(job[t].cs)' = HasRole(job[t].cs)
      <3>1. /\ t \in Tasks /\ job[t].admin = HasRole(p)
            /\ pc[t] \in {"sync_update", "sync_link"} /\ p \notin deleted => Agrees(p) \/ p \in lost
        BY <2>1, <2>3, Standing DEF IInv, TaskInv
      <3>2. job'[t].cs = p /\ HasRole(p)' = HasRole(p) /\ job'[t].admin = HasRole(p)
        BY <2>1, <2>3, <3>1 DEF HasRole
      <3>3. ASSUME pc'[t] \in {"sync_update", "sync_link"}, p \notin deleted'
            PROVE  Agrees(p)' \/ p \in lost'
        <4>1. p \notin deleted
          BY <3>3, Grows
        <4>2. CASE pc[t] \in {"sync_update", "sync_link"}
          BY <3>1, <3>2, <4>1, <4>2, AgreementWatched
        <4>3. CASE pc[t] \notin {"sync_update", "sync_link"}
          <5>1. pc'[t] # pc[t] /\ pc[t] # "idle"
            BY <2>3, <3>1, <3>3, <4>3 DEF IInv, TaskInv, SyncPoints
          <5>2. Sync(t)
            BY <3>1, <3>3, <5>1, TaskSteps DEF IInv
          <5>3. job[t].admin = (p \in kcadmin')
            BY <2>1, <3>1, <3>3, <4>3, <5>2, SyncTask DEF IInv
          <5> QED
            BY <3>1, <3>2, <5>3 DEF Agrees
        <4> QED
          BY <4>2, <4>3
      <3> QED
        BY <2>3, <3>2, <3>3 DEF HasRole, Agrees
    <2> QED
      BY <2>2, <2>3, Standing
  <1> QED
    BY <1>1, <1>2 DEF TaskInv, HasRole, Agrees

(* Handlers and tasks that end, by an exception or with their worker.      *)
LEMMA EndsInv ==
  ASSUME IInv, Observe, (\E s \in Requests : CallFails(s)) \/ (\E w \in Workers : WorkerCrash(w))
  PROVE  TypeOK' /\ RowInv' /\ DeleterInv'
  <1>1. /\ UNCHANGED <<roles, inserted, deleted, linked, kcusers, kcadmin, home>>
        /\ pc' \in [Requests -> CallPlaces \cup SyncPoints \cup {"idle"}]
        /\ \A s \in Requests : \/ pc'[s] = "idle"
                               \/ pc'[s] = pc[s] /\ job'[s] = job[s]
    BY DEF CallFails, WorkerCrash, Dies, Goto, Finish, Leave, IInv, TypeOK, db, kc
  <1>2. job' \in [Requests -> Jobs] /\ failures' \in 0..MaxFailures
    BY JobType DEF CallFails, WorkerCrash, Dies, Goto, Finish, Leave, IInv, TypeOK
  <1>3. TypeOK'
    BY <1>1, <1>2, Slots, ObserveType DEF IInv, TypeOK, CallPlaces, SyncPoints
  <1>4. RowInv' /\ DeleterInv'
    BY <1>1, Slots, RowFrame DEF IInv, DeleterInv
  <1> QED
    BY <1>3, <1>4

(* Every step keeps the invariant.                                         *)
LEMMA StepInv == ASSUME IInv, [Next]_vars PROVE IInv'
  <1>1. CASE UNCHANGED vars
    <2>1. UNCHANGED <<roles, inserted, deleted, linked, kcusers, kcadmin, current, lost, pc, job,
                      home, failures>>
      BY <1>1 DEF vars, db, kc
    <2>2. TypeOK'
      BY <2>1 DEF IInv, TypeOK
    <2>3. RowInv' /\ DeleterInv'
      BY <2>1, RowFrame DEF IInv, DeleterInv
    <2>4. TaskInv'
      BY <2>1 DEF IInv, TaskInv, HasRole, Agrees
    <2> QED
      BY <2>2, <2>3, <2>4 DEF IInv
  <1>2. CASE Step /\ Observe
    <2>1. TaskInv'
      BY <1>2, TasksInv
    <2>2. CASE \E r \in Calls : Arrive(r)
      BY <1>2, <2>1, <2>2, ArriveInv DEF IInv
    <2>3. CASE \E r \in Calls : Advance(r)
      BY <1>2, <2>1, <2>3, PromoteInv, DemoteInv, DeleteInv DEF Advance, IInv
    <2>4. CASE \E t \in Tasks : Sync(t)
      BY <1>2, <2>1, <2>4, SyncFrame, SyncType DEF IInv
    <2>5. CASE (\E s \in Requests : CallFails(s)) \/ (\E w \in Workers : WorkerCrash(w))
      BY <1>2, <2>1, <2>5, EndsInv DEF IInv
    <2> QED
      BY <1>2, <2>2, <2>3, <2>4, <2>5 DEF Step
  <1> QED
    BY <1>1, <1>2 DEF Next

-------------------------------------------------------------------------------
(* The inductive invariant of Roles.                                       *)
THEOREM Invariance == Spec => []IInv
  <1>1. Init => IInv
    BY InitInv
  <1>2. IInv /\ [Next]_vars => IInv'
    BY StepInv
  <1> QED
    BY <1>1, <1>2, PTL DEF Spec

(* Every variable keeps its type, the users with the admin role are users  *)
(* of Keycloak, and a busy slot works on a person.                         *)
THEOREM TypeCorrect == Spec => []TypeOK
  <1>1. IInv => TypeOK
    BY DEF IInv
  <1> QED
    BY <1>1, Invariance, PTL

(* Nobody has the role more often than workers serve requests              *)
(* (Person.assign_role): the table does not stop two workers, but a worker *)
(* that has looked in vain inserts before anybody else on it looks, so the *)
(* rows and the workers about to insert one are never more than these.     *)
THEOREM NobodyTwice == Spec => []RowPerWorker
  <1>1. IInv => RowPerWorker
    <2> SUFFICES ASSUME TypeOK, RowInv, NEW p \in Persons
                 PROVE  Cardinality(roles[p]) <= Cardinality(Serving)
      BY DEF IInv, RowPerWorker
    <2>1. /\ Cardinality(roles[p]) \in Nat /\ Cardinality(Promoting(p)) \in Nat
          /\ Cardinality(Serving) \in Nat
      BY PromotingServes, ServingFinite, FS_CardinalityType DEF RowInv
    <2>2. Cardinality(roles[p]) + Cardinality(Promoting(p)) <= Cardinality(Serving)
      BY DEF RowInv
    <2> QED
      BY <2>1, <2>2
  <1> QED
    BY <1>1, Invariance, PTL

(* Whatever failed before and however many tasks overlap, a task that gets *)
(* to its end has repaired Keycloak, if what it has read still stands and  *)
(* no other has written an older reading over it (KCClient.update_kc_user, *)
(* check_user_roles).                                                      *)
THEOREM TasksRepair == Spec => []SyncRepairs
  <1>1. IInv => SyncRepairs
    BY DEF IInv, TypeOK, TaskInv, SyncRepairs
  <1> QED
    BY <1>1, Invariance, PTL

(* However many tasks overlap: the user of a linked person, once removed   *)
(* from Keycloak, is not made again but by a task from before the person   *)
(* was linked.  Only a task that was not told an id makes users, and none  *)
(* is started for a person who is linked.                                  *)
THEOREM RemovedIsGone == Spec => RemovedStaysRemoved
  <1> DEFINE Gone == \A p \in linked \ kcusers :
                       (\A t \in Tasks : ~Unaware(t, p)) =>
                         p \notin kcusers' /\ \A t \in Tasks : ~Unaware(t, p)'
  <1>1. ASSUME IInv, [Next]_vars PROVE [Gone]_vars
    <2> SUFFICES ASSUME Step, NEW p \in linked \ kcusers, \A t \in Tasks : ~Unaware(t, p)
                 PROVE  p \notin kcusers' /\ \A t \in Tasks : ~Unaware(t, p)'
      BY <1>1 DEF Next
    <2>1. p \notin kcusers'
      <3> SUFFICES ASSUME p \in kcusers' PROVE FALSE
        OBVIOUS
      <3>1. PICK t \in Tasks : KcCreate(t)
        BY DEF Step, Arrive, PromoteLook, DemoteLook, DeleteLoad, Advance, PromoteInsert,
               DemoteDelete, DeleteMark, DeleteRevoked, KcDelete, Sync, SyncStart, KcFind, KcRoles,
               KcWrite, KcUpdate, SyncLink, CallFails, WorkerCrash, db, kc
      <3>2. job[t].cs = p /\ pc[t] = "sync_create"
        BY <3>1 DEF KcCreate
      <3>3. ~job[t].id
        BY <1>1, <3>2 DEF IInv, TaskInv
      <3> QED
        BY <3>2, <3>3 DEF Unaware
    <2>2. ASSUME NEW t \in Tasks, Unaware(t, p)' PROVE FALSE
      <3>1. /\ pc'[t] \in {"sync_start", "sync_find", "sync_create"}
            /\ job'[t].cs = p /\ ~job'[t].id /\ ~Unaware(t, p)
        BY <2>2 DEF Unaware
      <3>2. CASE pc'[t] = pc[t] /\ job'[t] = job[t]
        BY <3>1, <3>2 DEF Unaware
      <3>3. CASE job'[t].id = (job'[t].cs \in linked)
        BY <3>1, <3>3
      <3>4. CASE Sync(t)
        <4>1. pc[t] # "idle"
          BY <3>4 DEF Sync, SyncStart, KcFind, KcCreate, KcRoles, KcWrite, KcUpdate, SyncLink, At
        <4>2. job[t].cs \in Persons
          BY <1>1, <4>1, Slots DEF IInv, TypeOK
        <4>3. /\ job'[t].cs = job[t].cs /\ job'[t].id = job[t].id
              /\ pc[t] \in {"sync_start", "sync_find"}
          BY <1>1, <3>1, <3>4, <4>2, SyncTask DEF IInv
        <4> QED
          BY <3>1, <4>3 DEF Unaware
      <3> QED
        BY <1>1, <3>1, <3>2, <3>3, <3>4, TaskSteps DEF IInv
    <2> QED
      BY <2>1, <2>2
  <1>2. IInv /\ [Next]_vars => [Gone]_vars
    BY <1>1
  <1> QED
    BY <1>2, Invariance, PTL DEF Spec, RemovedStaysRemoved

-------------------------------------------------------------------------------
(* Whose record names a Keycloak user has one, or is deleted, and so has   *)
(* the person of a task past the search.                                   *)
LEMMA LinkStep == ASSUME IInv, LinkInv, Step PROVE LinkInv'
  <1>1. /\ linked \subseteq linked' /\ deleted \subseteq deleted'
        /\ linked' \subseteq linked \cup {job[t].cs : t \in {u \in Tasks : pc[u] = "sync_link"}}
        /\ kcusers \subseteq kcusers' \cup deleted
    BY Grows
  <1>2. linked' \subseteq kcusers' \cup deleted'
    BY <1>1 DEF LinkInv
  <1>3. ASSUME NEW t \in Tasks,
               pc'[t] \in {"sync_roles", "sync_write", "sync_update", "sync_link"}
        PROVE  job'[t].cs \in kcusers' \cup deleted'
    <2>1. CASE pc'[t] = pc[t] /\ job'[t] = job[t]
      BY <1>1, <1>3, <2>1 DEF LinkInv
    <2>2. CASE Sync(t)
      <3>1. pc[t] # "idle"
        BY <2>2 DEF Sync, SyncStart, KcFind, KcCreate, KcRoles, KcWrite, KcUpdate, SyncLink, At
      <3>2. PICK p \in Persons : p = job[t].cs
        BY <3>1, Slots DEF IInv, TypeOK
      <3>3. /\ job'[t].cs = p
            /\ \/ pc[t] \in {"sync_roles", "sync_write", "sync_update", "sync_link"}
               \/ pc[t] = "sync_start" /\ job[t].id
               \/ p \in kcusers
               \/ p \in kcusers'
        BY <1>3, <2>2, <3>2, SyncTask DEF IInv, SyncPoints
      <3>4. p \in kcusers \cup deleted \/ p \in kcusers'
        BY <3>2, <3>3 DEF IInv, TaskInv, LinkInv
      <3> QED
        BY <1>1, <3>3, <3>4
    <2> QED
      BY <1>3, <2>1, <2>2, TaskSteps DEF IInv
  <1> QED
    BY <1>2, <1>3 DEF LinkInv

(* A step that gives or takes a role starts a task for its person.         *)
LEMMA ChangesInform ==
  ASSUME IInv, Step, NEW p \in Persons, HasRole(p)' # HasRole(p)
  PROVE  \E t \in Tasks : pc'[t] = "sync_start" /\ job'[t].cs = p
  <1>1. PICK r \in Calls : PromoteInsert(r) \/ DemoteDelete(r)
    BY DEF Step, HasRole, Arrive, PromoteLook, DemoteLook, DeleteLoad, Advance, DeleteMark,
           DeleteRevoked, KcDelete, Sync, SyncStart, KcFind, KcCreate, KcRoles, KcWrite, KcUpdate,
           SyncLink, CallFails, WorkerCrash, db
  <1>2. PICK q \in Persons : q = job[r].cs
    BY <1>1, Slots DEF IInv, TypeOK, PromoteInsert, DemoteDelete, At
  <1>3. Inform(r, q) /\ \A d \in Persons \ {q} : roles'[d] = roles[d]
    BY <1>1, <1>2 DEF PromoteInsert, DemoteDelete, IInv, TypeOK
  <1>4. q = p
    BY <1>3 DEF HasRole
  <1> QED
    BY <1>3, <1>4, Informing DEF IInv

(* A task that is to mend a difference goes on to it, mends it, or is      *)
(* refused.                                                                *)
LEMMA MenderGoesOn ==
  ASSUME IInv, LinkInv, Step, Observe, NEW p \in Persons \ deleted, NEW t \in Tasks,
         failures' = 0, ~Agrees(p), HasRole(p)' = HasRole(p), Mending(t, p)
  PROVE  Agrees(p)' \/ p \in lost' \/ Mending(t, p)'
  <1> SUFFICES ASSUME ~Agrees(p)', p \notin lost' PROVE Mending(t, p)'
    OBVIOUS
  <1>1. /\ job[t].cs = p /\ pc[t] # "idle"
        /\ \/ pc[t] = "sync_start"
           \/ /\ pc[t] \in {"sync_find", "sync_create", "sync_roles", "sync_write"}
              /\ t \in current /\ job[t].admin = HasRole(p)
    BY DEF Mending, IInv, TaskInv
  <1>2. CASE pc'[t] = pc[t] /\ job'[t] = job[t]
    <2>1. t \in current => t \in current'
      BY <1>1, <1>2 DEF Observe, HasRole
    <2> QED
      BY <1>1, <1>2, <2>1 DEF Mending
  <1>3. CASE Sync(t)
    <2>1. /\ pc'[t] = "idle" \/ (pc'[t] \in SyncPoints \ {"sync_start"} /\ job'[t].cs = p)
          /\ pc[t] = "sync_start" => pc'[t] \in {"sync_find", "sync_roles"}
          /\ pc'[t] = "sync_update" => job[t].admin = (p \in kcadmin')
          /\ pc'[t] = "sync_link" => pc[t] = "sync_update"
          /\ pc'[t] = "idle" /\ pc[t] \in {"sync_roles", "sync_write"} => p \notin kcusers
          /\ pc'[t] = "idle" => pc[t] # "sync_find"
      BY <1>1, <1>3, SyncTask DEF IInv
    <2>2. pc'[t] # "idle"
      <3>1. pc[t] \in {"sync_roles", "sync_write"} => p \in kcusers
        BY <1>1 DEF LinkInv
      <3>2. failures' = failures
        BY <1>3 DEF Sync, SyncStart, KcFind, KcCreate, KcRoles, KcWrite, KcUpdate, SyncLink
      <3>3. pc[t] = "sync_create" => pc'[t] # "idle"
        BY <1>1, <3>2 DEF Observe, Refused
      <3> QED
        BY <1>1, <2>1, <3>1, <3>3
    <2>3. pc'[t] # "sync_update"
      <3> SUFFICES ASSUME pc'[t] = "sync_update" PROVE FALSE
        OBVIOUS
      <3>1. HasRole(p) = (p \in kcadmin')
        BY <1>1, <2>1
      <3> QED
        BY <3>1 DEF Agrees
    <2>4. pc'[t] \in {"sync_find", "sync_create", "sync_roles", "sync_write"}
      BY <1>1, <2>1, <2>2, <2>3 DEF SyncPoints
    <2>5. t \in current'
      BY <1>1, <2>1, <2>4 DEF Observe, HasRole
    <2> QED
      BY <2>1, <2>4, <2>5 DEF Mending
  <1> QED
    BY <1>1, <1>2, <1>3, TaskSteps DEF IInv

(* Every step keeps it.                                                    *)
LEMMA MendStep == ASSUME IInv, MendInv, [Next]_vars PROVE MendInv'
  <1>1. CASE UNCHANGED vars
    BY <1>1 DEF vars, db, kc, MendInv, LinkInv, DifferenceIsMended, Agrees, HasRole, Mending
  <1>2. CASE Step /\ Observe
    <2>1. LinkInv'
      BY <1>2, LinkStep DEF MendInv
    <2>2. ASSUME failures' = 0, NEW p \in Persons, p \notin deleted', p \notin lost', ~Agrees(p)'
          PROVE  \E t \in Tasks : Mending(t, p)'
      <3>1. p \notin deleted /\ failures = 0
        BY <1>2, <2>2, Grows
      <3>2. CASE HasRole(p)' # HasRole(p)
        <4>1. PICK t \in Tasks : pc'[t] = "sync_start" /\ job'[t].cs = p
          BY <1>2, <3>2, ChangesInform
        <4> QED
          BY <4>1 DEF Mending
      <3>3. CASE HasRole(p)' = HasRole(p)
        <4>1. ~Agrees(p) /\ p \notin lost
          BY <1>2, <2>2, <3>1, <3>3, AgreementWatched
        <4>2. PICK t \in Tasks : Mending(t, p)
          BY <3>1, <4>1 DEF MendInv, DifferenceIsMended
        <4>3. Mending(t, p)'
          BY <1>2, <2>2, <3>1, <3>3, <4>1, <4>2, MenderGoesOn DEF MendInv
        <4> QED
          BY <4>3
      <3> QED
        BY <3>2, <3>3
    <2>3. DifferenceIsMended'
      BY <2>2 DEF DifferenceIsMended
    <2> QED
      BY <2>1, <2>3 DEF MendInv
  <1> QED
    BY <1>1, <1>2 DEF Next

(* The safety half of KcCatchesUp, however many tasks overlap: until       *)
(* something fails, a person about whom Keycloak and the roles table       *)
(* differ has a task that is still to get to the difference and has not    *)
(* read an outdated role (user_promoted, user_demoted), unless another     *)
(* task has overwritten what that one wrote, or made its user first.       *)
THEOREM NoDifferenceForgotten == Spec => []DifferenceIsMended
  <1>1. Init => MendInv
    BY Slots DEF Init, NoRequests, MendInv, LinkInv, DifferenceIsMended, Agrees, HasRole
  <1>2. IInv /\ MendInv /\ [Next]_vars => MendInv'
    BY MendStep
  <1>3. MendInv => DifferenceIsMended
    BY DEF MendInv
  <1> QED
    BY <1>1, <1>2, <1>3, Invariance, PTL DEF Spec

-------------------------------------------------------------------------------
(* Groups                                                                  *)

(* The places of the walk.                                                 *)
LEMMA WalkPlaces ==
  Len(Products) \in Nat /\ DOMAIN Walk = 1..(3 * Len(Products))
  <1>1. Len(Products) \in Nat
    OBVIOUS
  <1>2. DOMAIN Walk = 1..(3 * Len(Products))
    BY DEF Walk
  <1> QED
    BY <1>1, <1>2

(* What a creation lacks, and the initial groups it has passed.            *)
LEMMA MissingPassed ==
  ASSUME NEW S
  PROVE  /\ Missing(S) \subseteq All \ S
         /\ \A g \in Missing(S) : \E k \in DOMAIN Walk :
              g = Walk[k] /\ \A j \in 1..(k - 1) : Walk[j] \in S
         /\ Passed(S) \subseteq S \cap Defaults
         /\ All \subseteq S => Passed(S) = Defaults
  <1>1. /\ Missing(S) \subseteq All \ S
        /\ \A g \in Missing(S) : \E k \in DOMAIN Walk :
             g = Walk[k] /\ \A j \in 1..(k - 1) : Walk[j] \in S
    BY DEF Missing, All
  <1>2. \A i \in DOMAIN Walk : i \in 1..i /\ 1..i \subseteq DOMAIN Walk
    BY WalkPlaces
  <1>3. Passed(S) \subseteq S \cap Defaults
    BY <1>2 DEF Passed, Defaults, All
  <1>4. ASSUME All \subseteq S PROVE Defaults \subseteq Passed(S)
    BY <1>2, <1>4 DEF Passed, Defaults, All
  <1> QED
    BY <1>1, <1>3, <1>4

(* The walk goes on knowing of some of the groups there are.               *)
LEMMA WalkGoesOn ==
  ASSUME GroupsTypeOK, NEW c \in Requests, NEW s \in SUBSET groups, GoOn(c, s)
  PROVE  /\ initial' \in [Workers -> SUBSET groups]
         /\ \A w \in Workers : initial[w] \subseteq initial'[w]
         /\ \A w \in Workers : initial'[w] \subseteq initial[w] \cup Defaults
         /\ pc' \in [Requests -> {"idle", "list", "make", "get", "join", "roles", "done", "refused"}]
         /\ pc'[c] \in {"make", "join", "roles"} /\ job'[c].seen = s
         /\ pc'[c] = "make" => job'[c].item \in Missing(s)
         /\ pc'[c] = "join" => Defaults \subseteq initial'[home[c]]
         /\ pc'[c] = "roles" => Defaults = {}
         /\ job' \in [Requests -> [seen : SUBSET groups, item : All \cup {NoGroup}]]
         /\ \A d \in Requests \ {c} : pc'[d] = pc[d] /\ job'[d] = job[d]
  <1>1. home[c] \in Workers
    BY DEF GroupsTypeOK
  <1>2. Passed(s) \subseteq s \cap Defaults /\ (All \subseteq s => Passed(s) = Defaults)
        /\ Missing(s) \subseteq All
    BY MissingPassed
  <1>3. /\ initial' \in [Workers -> SUBSET groups]
        /\ initial'[home[c]] = initial[home[c]] \cup Passed(s)
        /\ \A w \in Workers \ {home[c]} : initial'[w] = initial[w]
    BY <1>1, <1>2 DEF GoOn, GroupsTypeOK
  <1>4. CASE /\ All \subseteq s
             /\ Goto(c, IF initial'[home[c]] = {} THEN "roles" ELSE "join")
             /\ job' = [job EXCEPT ![c].seen = s]
    <2> DEFINE place == IF initial'[home[c]] = {} THEN "roles" ELSE "join"
    <2>1. /\ pc' = [pc EXCEPT ![c] = place] /\ job' = [job EXCEPT ![c].seen = s]
          /\ Passed(s) = Defaults
      BY <1>2, <1>4 DEF Goto
    <2>2. /\ place \in {"join", "roles"}
          /\ place = "roles" => Defaults = {}
      BY <1>3, <2>1
    <2> HIDE DEF place
    <2>3. job' \in [Requests -> [seen : SUBSET groups, item : All \cup {NoGroup}]]
      BY <2>1 DEF GroupsTypeOK
    <2>4. pc'[c] = place /\ job'[c].seen = s
          /\ \A d \in Requests \ {c} : pc'[d] = pc[d] /\ job'[d] = job[d]
      BY <2>1 DEF GroupsTypeOK
    <2>5. pc' \in [Requests -> {"idle", "list", "make", "get", "join", "roles", "done", "refused"}]
      BY <2>1, <2>2 DEF GroupsTypeOK
    <2> QED
      BY <1>1, <1>2, <1>3, <2>1, <2>2, <2>3, <2>4, <2>5
  <1>5. CASE \E g \in Missing(s) : Goto(c, "make") /\ job' = [job EXCEPT ![c] = Knows(s, g)]
    <2>1. PICK g \in Missing(s) :
            /\ pc' = [pc EXCEPT ![c] = "make"] /\ job' = [job EXCEPT ![c] = Knows(s, g)]
      BY <1>5 DEF Goto
    <2>2. Knows(s, g) \in [seen : SUBSET groups, item : All \cup {NoGroup}]
          /\ Knows(s, g).seen = s /\ Knows(s, g).item = g
      BY <1>2 DEF Knows
    <2>3. job' \in [Requests -> [seen : SUBSET groups, item : All \cup {NoGroup}]]
          /\ job'[c].seen = s /\ job'[c].item = g
      BY <2>1, <2>2 DEF GroupsTypeOK
    <2>4. pc'[c] = "make"
          /\ \A d \in Requests \ {c} : pc'[d] = pc[d] /\ job'[d] = job[d]
      BY <2>1 DEF GroupsTypeOK
    <2>5. pc' \in [Requests -> {"idle", "list", "make", "get", "join", "roles", "done", "refused"}]
      BY <2>1 DEF GroupsTypeOK
    <2> QED
      BY <1>1, <1>2, <1>3, <2>1, <2>3, <2>4, <2>5
  <1> QED
    BY <1>4, <1>5 DEF GoOn

(* The invariant holds initially.                                          *)
LEMMA GroupsInitInv == GroupsInit => GroupsInv
  <1> SUFFICES ASSUME GroupsInit PROVE GroupsInv
    OBVIOUS
  <1>1. Knows({}, NoGroup) \in [seen : {{}}, item : {NoGroup}]
    BY DEF Knows
  <1>2. /\ pc = [c \in Requests |-> "idle"] /\ failures = 0 /\ home \in Deployments
        /\ job \in [Requests -> [seen : {{}}, item : {NoGroup}]]
        /\ groups \subseteq All /\ created = {}
        /\ members = [c \in Requests |-> {}] /\ initial = [w \in Workers |-> {}]
    BY <1>1 DEF GroupsInit, NoRequests
  <1>3. GroupsTypeOK
    BY <1>2 DEF GroupsTypeOK
  <1>4. MemberInv /\ WalkInv /\ OrderInv
    BY <1>2 DEF MemberInv, MemberOfAll, WalkInv, OrderInv
  <1>5. AheadInv
    BY <1>2 DEF AheadInv, Unrefused
  <1> QED
    BY <1>3, <1>4, <1>5 DEF GroupsInv

(* A creation that lists the groups, or gets back the one it has made,     *)
(* keeps the invariant: it knows of more than before and of nothing that   *)
(* is not there.                                                           *)
LEMMA LooksInv ==
  ASSUME GroupsInv, NEW c \in Requests, ListGroups(c) \/ GetGroup(c), UNCHANGED home
  PROVE  GroupsInv'
  <1> DEFINE s == IF pc[c] = "list" THEN groups
                  ELSE job[c].seen \cup {job[c].item} \cup {h \in groups : job[c].item = Root(h[1])}
  <1> USE DEF GroupsInv
  <1>1. GoOn(c, s) /\ pc[c] \in {"list", "get"}
        /\ UNCHANGED <<created, groups, members, failures, home>>
    BY DEF ListGroups, GetGroup, keycloak
  <1>2. s \subseteq groups
        /\ (pc[c] = "list" => s = groups)
        /\ (pc[c] = "get" => job[c].seen \cup {job[c].item} \subseteq s)
    BY <1>1 DEF GroupsTypeOK, WalkInv
  <1> HIDE DEF s
  <1>3. /\ initial' \in [Workers -> SUBSET groups]
        /\ \A w \in Workers : initial[w] \subseteq initial'[w]
        /\ \A w \in Workers : initial'[w] \subseteq initial[w] \cup Defaults
        /\ pc' \in [Requests -> {"idle", "list", "make", "get", "join", "roles", "done", "refused"}]
        /\ pc'[c] \in {"make", "join", "roles"} /\ job'[c].seen = s
        /\ pc'[c] = "make" => job'[c].item \in Missing(s)
        /\ pc'[c] = "join" => Defaults \subseteq initial'[home[c]]
        /\ pc'[c] = "roles" => Defaults = {}
        /\ job' \in [Requests -> [seen : SUBSET groups, item : All \cup {NoGroup}]]
        /\ \A d \in Requests \ {c} : pc'[d] = pc[d] /\ job'[d] = job[d]
    BY <1>1, <1>2, WalkGoesOn
  <1>4. home \in [Requests -> Workers]
    BY DEF GroupsTypeOK
  <1>5. GroupsTypeOK'
    BY <1>1, <1>3 DEF GroupsTypeOK
  <1>6. MemberInv'
    <2>1. /\ \A w \in Workers : initial'[w] \subseteq Defaults
          /\ \A d \in Requests : members'[d] \subseteq Defaults
      BY <1>1, <1>3 DEF MemberInv
    <2>2. \A d \in Requests : pc'[d] = "join" => Defaults \subseteq initial'[home'[d]]
      <3>1. ASSUME NEW d \in Requests \ {c}, pc[d] = "join"
            PROVE  Defaults \subseteq initial'[home[d]]
        <4>1. initial[home[d]] = Defaults /\ home[d] \in Workers
          BY <1>4, <3>1 DEF MemberInv
        <4> QED
          BY <1>3, <4>1
      <3> QED
        BY <1>1, <1>3, <3>1
    <2>3. \A d \in Requests : pc'[d] = "join" => initial'[home'[d]] = Defaults
      BY <1>1, <1>4, <2>1, <2>2
    <2>4. MemberOfAll'
      <3>1. pc'[c] = "roles" => members'[c] = Defaults
        BY <1>3, <2>1
      <3>2. pc'[c] # "done"
        BY <1>3
      <3> QED
        BY <1>1, <1>3, <3>1, <3>2 DEF MemberInv, MemberOfAll
    <2> QED
      BY <2>1, <2>3, <2>4 DEF MemberInv
  <1>7. WalkInv'
    BY <1>1, <1>3 DEF WalkInv
  <1>8. OrderInv'
    <2> SUFFICES ASSUME NEW d \in Requests, pc'[d] \in {"make", "get", "join"},
                        NEW h \in groups, h \notin job'[d].seen
                 PROVE  \E i \in DOMAIN Walk : h = Walk[i] /\ \A j \in 1..(i - 1) : Walk[j] \in groups
      BY <1>1 DEF OrderInv
    <2>1. CASE d = c
      <3>1. pc[c] = "get" /\ h \notin job[c].seen
        BY <1>1, <1>2, <1>3, <2>1
      <3> QED
        BY <3>1 DEF OrderInv
    <2>2. CASE d # c
      BY <1>3, <2>2 DEF OrderInv
    <2> QED
      BY <2>1, <2>2
  <1>9. AheadInv'
    <2> SUFFICES ASSUME failures = 0 PROVE \E d \in Requests : Unrefused(d)'
      BY <1>1 DEF AheadInv
    <2>1. PICK d \in Requests : Unrefused(d)
      BY DEF AheadInv
    <2>2. CASE d = c
      BY <1>1, <1>2, <1>3, <2>1, <2>2 DEF Unrefused
    <2>3. CASE d # c
      BY <1>1, <1>3, <2>1, <2>3 DEF Unrefused
    <2> QED
      BY <2>2, <2>3
  <1> QED
    BY <1>5, <1>6, <1>7, <1>8, <1>9

(* Who makes the next group of the walk knows of all groups there are: one *)
(* made since would come after it.                                         *)
LEMMA MakerKnows ==
  ASSUME GroupsInv, NEW c \in Requests, pc[c] = "make", job[c].item \notin groups
  PROVE  groups \subseteq job[c].seen
  <1> USE DEF GroupsInv
  <1>1. PICK k \in DOMAIN Walk :
          /\ job[c].item = Walk[k] /\ job[c].item \notin job[c].seen
          /\ \A j \in 1..(k - 1) : Walk[j] \in job[c].seen
    BY MissingPassed DEF WalkInv
  <1> SUFFICES ASSUME NEW h \in groups, h \notin job[c].seen PROVE FALSE
    OBVIOUS
  <1>2. PICK i \in DOMAIN Walk : h = Walk[i] /\ \A j \in 1..(i - 1) : Walk[j] \in groups
    BY DEF OrderInv
  <1>3. i # k
    BY <1>1, <1>2
  <1>4. ~(k < i) /\ ~(i < k)
    BY <1>1, <1>2, WalkPlaces
  <1> QED
    BY <1>3, <1>4, WalkPlaces

(* Making a group keeps the invariant: it is the next of the walk, and     *)
(* whoever makes it knows then of all groups there are.                    *)
LEMMA MakesInv ==
  ASSUME GroupsInv, NEW c \in Requests, MakeGroup(c), UNCHANGED home
  PROVE  GroupsInv'
  <1> DEFINE g == job[c].item
  <1> USE DEF GroupsInv, Goto
  <1>1. pc[c] = "make" /\ UNCHANGED <<created, members, initial, job, failures, home>>
    BY DEF MakeGroup
  <1>2. \/ g \notin groups /\ groups' = groups \cup {g} /\ pc' = [pc EXCEPT ![c] = "get"]
        \/ g \in groups /\ groups' = groups /\ pc' = [pc EXCEPT ![c] = "refused"]
    BY DEF MakeGroup
  <1>3. PICK k \in DOMAIN Walk :
          g = Walk[k] /\ g \notin job[c].seen /\ \A j \in 1..(k - 1) : Walk[j] \in job[c].seen
    BY <1>1, MissingPassed DEF WalkInv
  <1>4. g \in All /\ job[c].seen \subseteq groups
    BY <1>3 DEF GroupsTypeOK, All
  <1>5. GroupsTypeOK'
    BY <1>1, <1>2, <1>4 DEF GroupsTypeOK
  <1>6. MemberInv'
    BY <1>1, <1>2 DEF GroupsTypeOK, MemberInv, MemberOfAll
  <1>7. WalkInv'
    BY <1>1, <1>2 DEF GroupsTypeOK, WalkInv
  <1>8. OrderInv'
    <2> SUFFICES ASSUME NEW d \in Requests, pc'[d] \in {"make", "get", "join"},
                        NEW h \in groups', h \notin job[d].seen
                 PROVE  \E i \in DOMAIN Walk : h = Walk[i] /\ \A j \in 1..(i - 1) : Walk[j] \in groups'
      BY <1>1 DEF OrderInv
    <2>1. pc[d] \in {"make", "get", "join"}
      BY <1>1, <1>2 DEF GroupsTypeOK
    <2>2. CASE h \in groups
      BY <1>2, <2>1, <2>2 DEF OrderInv
    <2>3. CASE h \notin groups
      BY <1>2, <1>3, <1>4, <2>3
    <2> QED
      BY <2>2, <2>3
  <1>9. AheadInv'
    <2> SUFFICES ASSUME failures = 0 PROVE \E d \in Requests : Unrefused(d)'
      BY <1>1 DEF AheadInv
    <2>1. CASE g \in groups
      <3>1. PICK d \in Requests : Unrefused(d)
        BY DEF AheadInv
      <3>2. d # c
        BY <1>1, <1>3, <2>1, <3>1 DEF Unrefused
      <3> QED
        BY <1>1, <1>2, <2>1, <3>1, <3>2 DEF GroupsTypeOK, Unrefused
    <2>2. CASE g \notin groups
      <3>1. groups \subseteq job[c].seen
        BY <1>1, <2>2, MakerKnows
      <3> QED
        BY <1>1, <1>2, <2>2, <3>1 DEF GroupsTypeOK, Unrefused
    <2> QED
      BY <2>1, <2>2
  <1> QED
    BY <1>5, <1>6, <1>7, <1>8, <1>9

(* Creating the user, joining the groups and the last calls of a creation  *)
(* keep the invariant: a user is through once it is in every initial group *)
(* its worker knows, and those are all.                                    *)
LEMMA UserInv ==
  ASSUME GroupsInv, NEW c \in Requests, CreateUser(c) \/ Join(c) \/ CheckRoles(c),
         UNCHANGED home
  PROVE  GroupsInv'
  <1> USE DEF GroupsInv, Goto
  <1>1. home \in [Requests -> Workers]
    BY DEF GroupsTypeOK
  <1>2. /\ UNCHANGED <<groups, initial, job, failures, home>>
        /\ \A d \in Requests \ {c} : pc'[d] = pc[d] /\ members'[d] = members[d]
        /\ pc'[c] \in {"list", "join", "roles", "done"}
        /\ pc'[c] = "join" => pc[c] = "join"
    BY DEF CreateUser, Join, CheckRoles, GroupsTypeOK, keycloak
  <1>3. members'[c] \in SUBSET groups /\ members'[c] \subseteq Defaults
        /\ (c # AnonAdmin /\ pc'[c] \in {"roles", "done"} => members'[c] = Defaults)
    <2>1. CASE CreateUser(c)
      BY <2>1 DEF CreateUser, GroupsTypeOK, MemberInv
    <2>2. CASE Join(c)
      <3>1. initial[home[c]] = Defaults /\ Defaults \subseteq groups
        BY <1>1, <2>2 DEF Join, GroupsTypeOK, MemberInv
      <3>2. PICK g \in initial[home[c]] : members' = [members EXCEPT ![c] = @ \cup {g}]
        BY <2>2 DEF Join
      <3>3. members'[c] = members[c] \cup {g}
        BY <3>2 DEF GroupsTypeOK
      <3>4. pc'[c] = IF initial[home[c]] \subseteq members'[c] THEN "roles" ELSE "join"
        BY <2>2 DEF Join, GroupsTypeOK
      <3> QED
        BY <3>1, <3>3, <3>4 DEF GroupsTypeOK, MemberInv
    <2>3. CASE CheckRoles(c)
      BY <2>3 DEF CheckRoles, GroupsTypeOK, MemberInv, MemberOfAll, keycloak
    <2> QED
      BY <2>1, <2>2, <2>3
  <1>4. GroupsTypeOK'
    <2>1. created' \subseteq Requests /\ DOMAIN members' = Requests
          /\ members' = [d \in Requests |-> members'[d]]
      BY DEF CreateUser, Join, CheckRoles, GroupsTypeOK, keycloak
    <2>2. members' \in [Requests -> SUBSET groups]
      BY <1>2, <1>3, <2>1 DEF GroupsTypeOK
    <2>3. pc' \in [Requests -> {"idle", "list", "make", "get", "join", "roles", "done", "refused"}]
      BY DEF CreateUser, Join, CheckRoles, GroupsTypeOK
    <2> QED
      BY <1>2, <2>1, <2>2, <2>3 DEF GroupsTypeOK
  <1>5. MemberInv'
    BY <1>2, <1>3 DEF MemberInv, MemberOfAll
  <1>6. WalkInv' /\ OrderInv'
    BY <1>2 DEF WalkInv, OrderInv
  <1>7. AheadInv'
    BY <1>2 DEF AheadInv, Unrefused
  <1> QED
    BY <1>4, <1>5, <1>6, <1>7

(* Creations that end by an exception or with their worker, which forgets  *)
(* the groups, keep the invariant.                                         *)
LEMMA CreationEndsInv ==
  ASSUME GroupsInv, (\E c \in Requests : CreationFails(c)) \/ (\E w \in Workers : CreatorDies(w))
  PROVE  GroupsInv'
  <1> USE DEF GroupsInv, Goto
  <1>1. /\ UNCHANGED <<created, groups, members, job, home>>
        /\ \A d \in Requests : pc'[d] = pc[d] \/ pc'[d] = "refused"
        /\ pc' \in [Requests -> {"idle", "list", "make", "get", "join", "roles", "done", "refused"}]
        /\ failures' \in 0..MaxFailures /\ failures' # 0
    <2>1. failures' \in 0..MaxFailures /\ failures' # 0
      BY DEF CreationFails, CreatorDies, GroupsTypeOK
    <2>2. CASE \E c \in Requests : CreationFails(c)
      BY <2>1, <2>2 DEF CreationFails, GroupsTypeOK, keycloak
    <2>3. CASE \E w \in Workers : CreatorDies(w)
      BY <2>1, <2>3 DEF CreatorDies, GroupsTypeOK, keycloak
    <2> QED
      BY <2>2, <2>3
  <1>2. /\ initial' \in [Workers -> SUBSET groups]
        /\ \A w \in Workers : initial'[w] = initial[w] \/ initial'[w] = {}
        /\ \A d \in Requests : pc'[d] = "join" => initial'[home[d]] = initial[home[d]]
    <2>1. CASE \E c \in Requests : CreationFails(c)
      BY <2>1 DEF CreationFails, GroupsTypeOK
    <2>2. CASE \E w \in Workers : CreatorDies(w)
      <3>1. PICK w \in Workers : CreatorDies(w)
        BY <2>2
      <3>2. initial' = [initial EXCEPT ![w] = {}]
            /\ \A d \in Requests : pc'[d] = "join" => home[d] # w
        BY <3>1 DEF CreatorDies, GroupsTypeOK
      <3>3. home \in [Requests -> Workers]
        BY DEF GroupsTypeOK
      <3> QED
        BY <3>2, <3>3 DEF GroupsTypeOK
    <2> QED
      BY <2>1, <2>2
  <1>3. GroupsTypeOK'
    BY <1>1, <1>2 DEF GroupsTypeOK
  <1>4. MemberInv'
    BY <1>1, <1>2 DEF MemberInv, MemberOfAll
  <1>5. WalkInv' /\ OrderInv' /\ AheadInv'
    BY <1>1 DEF WalkInv, OrderInv, AheadInv
  <1> QED
    BY <1>3, <1>4, <1>5

(* Every step keeps the invariant.                                         *)
LEMMA GroupsStepInv == ASSUME GroupsInv, [GroupsNext]_groupsVars PROVE GroupsInv'
  <1>1. CASE UNCHANGED groupsVars
    <2>1. UNCHANGED <<created, groups, members, initial, pc, job, home, failures>>
      BY <1>1 DEF groupsVars, keycloak
    <2>2. GroupsTypeOK' /\ MemberInv'
      BY <2>1 DEF GroupsInv, GroupsTypeOK, MemberInv, MemberOfAll
    <2>3. WalkInv' /\ OrderInv' /\ AheadInv'
      BY <2>1 DEF GroupsInv, WalkInv, OrderInv, AheadInv, Unrefused
    <2> QED
      BY <2>2, <2>3 DEF GroupsInv
  <1>2. CASE \E c \in Requests : GoAhead(c)
    BY <1>2, LooksInv, MakesInv, UserInv DEF GoAhead
  <1>3. CASE (\E c \in Requests : CreationFails(c)) \/ (\E w \in Workers : CreatorDies(w))
    BY <1>3, CreationEndsInv
  <1> QED
    BY <1>1, <1>2, <1>3 DEF GroupsNext

-------------------------------------------------------------------------------
(* No step leaves the groups missing with nobody to make them: who has     *)
(* listed them goes on making, who makes one can make the next, and who is *)
(* refused was refused by another.                                         *)
LEMMA GroupsInHandStep ==
  ASSUME GroupsInv, GroupsAreInHand, [GroupsNext]_groupsVars PROVE GroupsAreInHand'
  <1> USE DEF GroupsInv
  <1> SUFFICES ASSUME failures' = 0, groups' # All,
                      NEW e \in Requests, pc'[e] \in {"make", "get", "refused"}
               PROVE  \E d \in Requests : pc'[d] \in {"make", "get"} /\ Unrefused(d)'
    BY DEF GroupsAreInHand
  <1>1. CASE UNCHANGED groupsVars
    BY <1>1 DEF groupsVars, keycloak, GroupsAreInHand, Unrefused
  <1>2. ASSUME NEW c \in Requests, GoAhead(c)
        PROVE  \E d \in Requests : pc'[d] \in {"make", "get"} /\ Unrefused(d)'
    <2> DEFINE AtWork(d) == pc[d] \in {"make", "get"} /\ Unrefused(d)
    <2>1. failures = 0 /\ \A d \in Requests \ {c} : pc'[d] = pc[d] /\ job'[d] = job[d]
      BY <1>2 DEF GoAhead, CreateUser, ListGroups, MakeGroup, GetGroup, Join, CheckRoles, GoOn,
                  Goto, GroupsTypeOK
    <2>2. CASE groups' = groups /\ \E d \in Requests \ {c} : AtWork(d)
      BY <2>1, <2>2 DEF Unrefused
    <2>3. groups # All /\ (\E d \in Requests : pc[d] \in {"make", "get", "refused"}) =>
            \E d \in Requests : AtWork(d)
      BY <2>1 DEF GroupsAreInHand
    <2> HIDE DEF AtWork
    <2>4. ASSUME ListGroups(c) \/ GetGroup(c), NEW s \in SUBSET groups, GoOn(c, s),
                 groups \subseteq s, groups' = groups
          PROVE  pc'[c] \in {"make", "get"} /\ Unrefused(c)'
      <3>1. pc' = [pc EXCEPT ![c] = "make"] /\ \E g : job' = [job EXCEPT ![c] = Knows(s, g)]
        BY <2>4 DEF GoOn, Goto, GroupsTypeOK
      <3>2. pc'[c] = "make" /\ job'[c].seen = s
        BY <3>1 DEF Knows, GroupsTypeOK
      <3> QED
        BY <2>4, <3>2 DEF Unrefused
    <2>5. CASE ListGroups(c)
      BY <2>4, <2>5 DEF ListGroups, keycloak
    <2>6. CASE GetGroup(c)
      <3> DEFINE s == job[c].seen \cup {job[c].item} \cup {h \in groups : job[c].item = Root(h[1])}
      <3>1. GoOn(c, s) /\ pc[c] = "get" /\ UNCHANGED groups /\ s \subseteq groups
        BY <2>6 DEF GetGroup, keycloak, WalkInv, GroupsTypeOK
      <3>2. PICK d \in Requests : AtWork(d)
        BY <2>3, <3>1
      <3>3. CASE d = c
        <4>1. groups \subseteq s
          BY <3>1, <3>2, <3>3 DEF AtWork, Unrefused
        <4> HIDE DEF s
        <4> QED
          BY <2>4, <2>6, <3>1, <4>1
      <3> QED
        BY <2>2, <3>1, <3>2, <3>3
    <2>7. CASE MakeGroup(c)
      <3>1. pc[c] = "make" /\ UNCHANGED job
        BY <2>7 DEF MakeGroup
      <3>2. CASE job[c].item \notin groups
        <4>1. groups' = groups \cup {job[c].item} /\ pc'[c] = "get"
          BY <2>7, <3>2 DEF MakeGroup, Goto, GroupsTypeOK
        <4> QED
          BY <3>1, <3>2, <4>1, MakerKnows DEF Unrefused
      <3>3. CASE job[c].item \in groups
        <4>1. UNCHANGED groups
          BY <2>7, <3>3 DEF MakeGroup
        <4>2. PICK d \in Requests : AtWork(d)
          BY <2>3, <3>1, <4>1
        <4>3. job[c].item \notin job[c].seen
          BY <3>1, MissingPassed DEF WalkInv
        <4>4. d # c
          BY <3>1, <3>3, <4>2, <4>3 DEF AtWork, Unrefused
        <4> QED
          BY <2>2, <4>1, <4>2, <4>4
      <3> QED
        BY <3>2, <3>3
    <2>8. CASE CreateUser(c) \/ Join(c) \/ CheckRoles(c)
      <3>1. /\ UNCHANGED groups /\ pc[c] \notin {"make", "get", "refused"}
            /\ pc'[c] \notin {"make", "get", "refused"}
        BY <2>8 DEF CreateUser, Join, CheckRoles, Goto, GroupsTypeOK, keycloak
      <3>2. pc[e] \in {"make", "get", "refused"}
        BY <2>1, <3>1
      <3>3. PICK d \in Requests : AtWork(d)
        BY <2>3, <3>1, <3>2
      <3> QED
        BY <2>2, <3>1, <3>3 DEF AtWork
    <2> QED
      BY <1>2, <2>5, <2>6, <2>7, <2>8 DEF GoAhead
  <1>3. CASE (\E c \in Requests : CreationFails(c)) \/ (\E w \in Workers : CreatorDies(w))
    BY <1>3 DEF CreationFails, CreatorDies, GroupsTypeOK
  <1> QED
    BY <1>1, <1>2, <1>3 DEF GroupsNext

-------------------------------------------------------------------------------
(* The inductive invariant of Groups.                                      *)
THEOREM GroupsInvariance == GroupsSpec => []GroupsInv
  <1>1. GroupsInit => GroupsInv
    BY GroupsInitInv
  <1>2. GroupsInv /\ [GroupsNext]_groupsVars => GroupsInv'
    BY GroupsStepInv
  <1> QED
    BY <1>1, <1>2, PTL DEF GroupsSpec

(* Every variable keeps its type: nobody is in a group, no worker and no   *)
(* creation knows of one, that is not in Keycloak.                         *)
THEOREM GroupsCorrect == GroupsSpec => []GroupsTypeOK
  <1>1. GroupsInv => GroupsTypeOK
    BY DEF GroupsInv
  <1> QED
    BY <1>1, GroupsInvariance, PTL

(* However many creations race on however many workers, a user that is     *)
(* through is in the initial group of every product, and in no other       *)
(* (KCClient.create_kc_user).                                              *)
THEOREM UsersHaveTheirGroups == GroupsSpec => []MemberOfAll
  <1>1. GroupsInv => MemberOfAll
    BY DEF GroupsInv, MemberInv
  <1> QED
    BY <1>1, GroupsInvariance, PTL

(* Creations that race refuse each other, but while nothing fails there is *)
(* always one that nobody has refused (KCClient.ensure_product_groups).    *)
THEOREM SomebodyGetsThrough == GroupsSpec => []NotAllRefused
  <1>1. GroupsInv => NotAllRefused
    BY DEF GroupsInv, AheadInv, Unrefused, NotAllRefused
  <1> QED
    BY <1>1, GroupsInvariance, PTL

(* The safety half of GroupsGetMade: once somebody has listed the groups,  *)
(* and until something fails, groups are missing only while there is one   *)
(* who can make the next of them and is refused by nobody                  *)
(* (KCClient.ensure_product_groups).                                       *)
THEOREM GroupsGoOn == GroupsSpec => []GroupsAreInHand
  <1>1. GroupsInit => GroupsAreInHand
    BY DEF GroupsInit, NoRequests, GroupsAreInHand
  <1>2. GroupsInv /\ GroupsAreInHand /\ [GroupsNext]_groupsVars => GroupsAreInHand'
    BY GroupsInHandStep
  <1> QED
    BY <1>1, <1>2, GroupsInvariance, PTL DEF GroupsSpec
===============================================================================
