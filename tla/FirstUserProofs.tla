---------------------------- MODULE FirstUserProofs ----------------------------
(***************************************************************************)
(* Proofs about FirstUser for every number of callsigns, products,         *)
(* requests and workers and every bound.                                   *)
(*                                                                         *)
(* The unique enrollments row gives every callsign one request that owns   *)
(* it (OneOwner); what is done for a callsign is done by its owner, in the *)
(* order of OwnerInv.  What the products have not heard is a task of the   *)
(* owner's own worker (AnnounceInv), so an owner that has seen its worker  *)
(* without tasks knows that they have heard it.                            *)
(***************************************************************************)
EXTENDS FirstUser, TLAPS

USE ConstantsAssumption, HandlersAssumption DEF ConstantsAssumption, HandlersAssumption

-------------------------------------------------------------------------------
(* What a request remembers is well typed and can be read back.            *)
LEMMA JobType ==
  /\ NoJob \in Jobs
  /\ \A c \in Callsigns, p \in People \cup {Nobody} :
       Job(c, p) \in Jobs /\ Job(c, p).cs = c /\ Job(c, p).who = p
  /\ \A j \in Jobs, p \in People :
       [j EXCEPT !.who = p] \in Jobs /\ [j EXCEPT !.who = p].cs = j.cs
         /\ [j EXCEPT !.who = p].who = p
  BY DEF NoJob, Job, Jobs

(* A new task is well typed and can be read back.                          *)
LEMMA TaskType ==
  \A kind \in Kinds, p \in People, w \in Workers :
    /\ Task(kind, p, w) \in Tasks
    /\ Task(kind, p, w).kind = kind /\ Task(kind, p, w).of = p
    /\ Task(kind, p, w).at = "prepare" /\ Task(kind, p, w).worker = w
  BY DEF Task, Tasks

(* So is the task that posts to one product.                               *)
LEMMA SpreadType ==
  \A t \in Tasks, q \in Products :
    /\ [t EXCEPT !.at = q] \in Tasks
    /\ [t EXCEPT !.at = q].at = q
    /\ [t EXCEPT !.at = q].kind = t.kind /\ [t EXCEPT !.at = q].of = t.of
    /\ [t EXCEPT !.at = q].worker = t.worker
  BY DEF Tasks

(* The invariant holds initially.                                          *)
LEMMA InitInv == Init => IInv
  BY JobType DEF Init, NoRequests, IInv, TypeOK, OneOwner, OwnerInv, RestInv, CodeMeansAdmin,
                 NothingHalfDone, AnnounceInv, Placed, DoneFor, InHand, Announced, Owns, IsAdmin, Creating

-------------------------------------------------------------------------------
(* What is on its way stays so while no task ends.                         *)
LEMMA OnItsWayKept ==
  ASSUME tasks \subseteq tasks', UNCHANGED home,
         NEW q \in Products, NEW c \in Callsigns, NEW r \in Requests,
         OnItsWay(q, c, home[r])
  PROVE  OnItsWay(q, c, home[r])'
  BY DEF OnItsWay

(* A step that ends no task, makes nobody an admin and moves no owner from *)
(* before the approval past it, or from the wait to the role, keeps        *)
(* AnnounceInv.                                                            *)
LEMMA AnnounceKept ==
  ASSUME AnnounceInv, UNCHANGED <<home, failures>>, tasks \subseteq tasks', heard \subseteq heard',
         \A c \in Callsigns : IsAdmin(c)' => IsAdmin(c),
         \A s \in Requests, c \in Callsigns : Owns(s, c)' =>
           /\ pc'[s] \in {"approve_commit", "wait"} =>
                Owns(s, c) /\ pc[s] \in {"approve_commit", "wait"}
           /\ pc'[s] = "role" => Owns(s, c) /\ pc[s] = "role"
  PROVE  AnnounceInv'
  <1> SUFFICES ASSUME failures = 0, NEW q \in Products, NEW c \in Callsigns
               PROVE  Announced(q, c)'
    BY DEF AnnounceInv
  <1>1. \A s \in Requests : Owns(s, c) /\ pc[s] \in {"approve_commit", "wait"} =>
          <<q, "created", c>> \in heard \/ OnItsWay(q, c, home[s])'
    BY OnItsWayKept DEF AnnounceInv, Announced
  <1> QED
    BY <1>1 DEF AnnounceInv, Announced

-------------------------------------------------------------------------------
(* A request arrives.                                                      *)
LEMMA AddAdminInv ==
  ASSUME IInv, NEW r \in Requests, UNCHANGED home, NEW k \in Callsigns, AddAdmin(r, k)
  PROVE  IInv'
  <1> USE JobType DEF IInv, TypeOK, OwnerInv, Placed, DoneFor, Owns, Creating
  <1>a. CASE AnonAdmin \in users
    <2>0. /\ pc[r] = "idle"
          /\ pc' = [pc EXCEPT ![r] = "enroll"]
          /\ job' = [job EXCEPT ![r] = Job(k, Nobody)]
          /\ UNCHANGED <<users, certfile, enrolled, approved, roles, codes, tasks, heard, failures, home>>
      BY <1>a DEF AddAdmin, At, Goto, Finish, Leave, Create, db
    <2>j. Job(k, Nobody) \in Jobs /\ Job(k, Nobody).cs = k /\ Job(k, Nobody).who = Nobody
      BY DEF People
    <2>1. TypeOK'
      BY <1>a, <2>0, <2>j, TaskType DEF Busy, People, Kinds
    <2>2. OneOwner'
      BY <1>a, <2>0, <2>j DEF OneOwner
    <2>3. OwnerInv'
      <3>1. ASSUME NEW s \in Requests, NEW c \in Callsigns, Owns(s, c)'
           PROVE  DoneFor(s, c)'
        BY <1>a, <2>0, <2>j, <3>1 DEF OneOwner, RestInv, IsAdmin
      <3>2. \A s \in Requests : Placed(s)'
        BY <1>a, <2>0, <2>j
      <3> QED
        BY <3>1, <3>2
    <2>4. RestInv' /\ CodeMeansAdmin'
      BY <1>a, <2>0, <2>j, TaskType DEF RestInv, CodeMeansAdmin, IsAdmin, Kinds
    <2>5. NothingHalfDone'
      <3>1. ASSUME NEW c \in enrolled', failures = 0
           PROVE  InHand(c)'
        BY <1>a, <2>0, <2>j, <3>1 DEF OneOwner, NothingHalfDone, InHand, IsAdmin
      <3>2. failures = 0 /\ AnonAdmin \in users' => AnonInHand'
        BY <1>a, <2>0, <2>j DEF NothingHalfDone, AnonInHand
      <3> QED
        BY <1>a, <2>0, <2>j, <3>1, <3>2 DEF NothingHalfDone
    <2>6. AnnounceInv'
      BY <1>a, <2>0, <2>j, AnnounceKept DEF IsAdmin
    <2> QED
      BY <2>1, <2>2, <2>3, <2>4, <2>5, <2>6
  <1>b. CASE AnonAdmin \notin users
    <2>0. /\ pc[r] = "idle"
          /\ pc' = [pc EXCEPT ![r] = "create_insert"]
          /\ job' = [job EXCEPT ![r] = Job(k, AnonAdmin)]
          /\ UNCHANGED <<users, certfile, enrolled, approved, roles, codes, tasks, heard, failures, home>>
      BY <1>b DEF AddAdmin, At, Goto, Finish, Leave, Create, db
    <2>j. /\ Job(k, AnonAdmin) \in Jobs
          /\ Job(k, AnonAdmin).cs = k /\ Job(k, AnonAdmin).who = AnonAdmin
      BY DEF People
    <2>1. TypeOK'
      BY <1>b, <2>0, <2>j, TaskType DEF Busy, People, Kinds
    <2>2. OneOwner'
      BY <1>b, <2>0, <2>j DEF OneOwner
    <2>3. OwnerInv'
      <3>1. ASSUME NEW s \in Requests, NEW c \in Callsigns, Owns(s, c)'
           PROVE  DoneFor(s, c)'
        BY <1>b, <2>0, <2>j, <3>1 DEF OneOwner, RestInv, IsAdmin
      <3>2. \A s \in Requests : Placed(s)'
        BY <1>b, <2>0, <2>j
      <3> QED
        BY <3>1, <3>2
    <2>4. RestInv' /\ CodeMeansAdmin'
      BY <1>b, <2>0, <2>j, TaskType DEF RestInv, CodeMeansAdmin, IsAdmin, Kinds
    <2>5. NothingHalfDone'
      <3>1. ASSUME NEW c \in enrolled', failures = 0
           PROVE  InHand(c)'
        BY <1>b, <2>0, <2>j, <3>1 DEF OneOwner, NothingHalfDone, InHand, IsAdmin
      <3>2. failures = 0 /\ AnonAdmin \in users' => AnonInHand'
        BY <1>b, <2>0, <2>j DEF NothingHalfDone, AnonInHand
      <3> QED
        BY <1>b, <2>0, <2>j, <3>1, <3>2 DEF NothingHalfDone
    <2>6. AnnounceInv'
      BY <1>b, <2>0, <2>j, AnnounceKept DEF IsAdmin
    <2> QED
      BY <2>1, <2>2, <2>3, <2>4, <2>5, <2>6
  <1> QED
    BY <1>a, <1>b

(* The users row.                                                          *)
LEMMA CreateInsertInv ==
  ASSUME IInv, NEW r \in Requests, UNCHANGED home, CreateInsert(r)
  PROVE  IInv'
  <1> USE JobType DEF IInv, TypeOK, OwnerInv, Placed, DoneFor, Owns, Creating
  <1>a. CASE job[r].who \notin users
    <2>0. /\ pc[r] = "create_insert"
          /\ users' = users \cup {job[r].who}
          /\ pc' = [pc EXCEPT ![r] = "create_sign"]
          /\ UNCHANGED job
          /\ UNCHANGED <<certfile, enrolled, approved, roles, codes, tasks, heard, failures, home>>
      BY <1>a DEF CreateInsert, At, Goto, Finish, Leave, Create, db
    <2>1. TypeOK'
      BY <1>a, <2>0, TaskType DEF Busy, People, Kinds
    <2>2. OneOwner'
      BY <1>a, <2>0 DEF OneOwner
    <2>3. OwnerInv'
      <3>1. ASSUME NEW s \in Requests, NEW c \in Callsigns, Owns(s, c)'
           PROVE  DoneFor(s, c)'
        BY <1>a, <2>0, <3>1 DEF OneOwner, RestInv, IsAdmin
      <3>2. \A s \in Requests : Placed(s)'
        BY <1>a, <2>0
      <3> QED
        BY <3>1, <3>2
    <2>4. RestInv' /\ CodeMeansAdmin'
      BY <1>a, <2>0, TaskType DEF RestInv, CodeMeansAdmin, IsAdmin, Kinds
    <2>5. NothingHalfDone'
      <3>1. ASSUME NEW c \in enrolled', failures = 0
           PROVE  InHand(c)'
        BY <1>a, <2>0, <3>1 DEF OneOwner, NothingHalfDone, InHand, IsAdmin
      <3>2. failures = 0 /\ AnonAdmin \in users' => AnonInHand'
        BY <1>a, <2>0 DEF NothingHalfDone, AnonInHand
      <3> QED
        BY <1>a, <2>0, <3>1, <3>2 DEF NothingHalfDone
    <2>6. AnnounceInv'
      BY <1>a, <2>0, AnnounceKept DEF IsAdmin
    <2> QED
      BY <2>1, <2>2, <2>3, <2>4, <2>5, <2>6
  <1>b. CASE job[r].who \in users
    <2>0. /\ pc[r] = "create_insert"
          /\ pc' = [pc EXCEPT ![r] = "idle"]
          /\ job' = [job EXCEPT ![r] = NoJob]
          /\ UNCHANGED <<users, certfile, enrolled, approved, roles, codes, tasks, heard, failures, home>>
      BY <1>b DEF CreateInsert, At, Goto, Finish, Leave, Create, db
    <2>1. TypeOK'
      BY <1>b, <2>0, TaskType DEF Busy, People, Kinds
    <2>2. OneOwner'
      BY <1>b, <2>0 DEF OneOwner
    <2>3. OwnerInv'
      <3>1. ASSUME NEW s \in Requests, NEW c \in Callsigns, Owns(s, c)'
           PROVE  DoneFor(s, c)'
        BY <1>b, <2>0, <3>1 DEF OneOwner, RestInv, IsAdmin
      <3>2. \A s \in Requests : Placed(s)'
        BY <1>b, <2>0
      <3> QED
        BY <3>1, <3>2
    <2>4. RestInv' /\ CodeMeansAdmin'
      BY <1>b, <2>0, TaskType DEF RestInv, CodeMeansAdmin, IsAdmin, Kinds
    <2>5. NothingHalfDone'
      <3>1. ASSUME NEW c \in enrolled', failures = 0
           PROVE  InHand(c)'
        <4>1. ~Owns(r, c)
          BY <1>b, <2>0
        <4>2. \A s \in Requests : Owns(s, c) => Owns(s, c)'
          BY <1>b, <2>0, <4>1
        <4> QED
          BY <1>b, <2>0, <3>1, <4>2 DEF NothingHalfDone, InHand
      <3>2. failures = 0 /\ AnonAdmin \in users' => AnonInHand'
        BY <1>b, <2>0 DEF NothingHalfDone, AnonInHand
      <3> QED
        BY <1>b, <2>0, <3>1, <3>2 DEF NothingHalfDone
    <2>6. AnnounceInv'
      BY <1>b, <2>0, AnnounceKept DEF IsAdmin
    <2> QED
      BY <2>1, <2>2, <2>3, <2>4, <2>5, <2>6
  <1> QED
    BY <1>a, <1>b

(* The certificate.                                                        *)
LEMMA CreateCertInv ==
  ASSUME IInv, NEW r \in Requests, UNCHANGED home, CreateCert(r)
  PROVE  IInv'
  <1> USE JobType DEF IInv, TypeOK, OwnerInv, Placed, DoneFor, Owns, Creating
  <1>0. /\ pc[r] = "create_sign"
        /\ certfile' = certfile \cup {job[r].who}
        /\ pc' = [pc EXCEPT ![r] = "create_kc"]
        /\ UNCHANGED <<users, enrolled, approved, roles, codes, tasks, heard, failures, home>>
        /\ UNCHANGED job
    BY DEF CreateCert, At, Goto, Finish, Leave, Create, db
  <1>1. TypeOK'
    BY <1>0, TaskType DEF Busy, People, Kinds
  <1>2. OneOwner'
    BY <1>0 DEF OneOwner
  <1>3. OwnerInv'
    <2>1. ASSUME NEW s \in Requests, NEW c \in Callsigns, Owns(s, c)'
         PROVE  DoneFor(s, c)'
      BY <1>0, <2>1 DEF OneOwner, RestInv, IsAdmin
    <2>2. \A s \in Requests : Placed(s)'
      BY <1>0
    <2> QED
      BY <2>1, <2>2
  <1>4. RestInv' /\ CodeMeansAdmin'
    BY <1>0, TaskType DEF RestInv, CodeMeansAdmin, IsAdmin, Kinds
  <1>5. NothingHalfDone'
    <2>1. ASSUME NEW c \in enrolled', failures = 0
         PROVE  InHand(c)'
      BY <1>0, <2>1 DEF OneOwner, NothingHalfDone, InHand, IsAdmin
    <2>2. failures = 0 /\ AnonAdmin \in users' => AnonInHand'
      BY <1>0 DEF NothingHalfDone, AnonInHand
    <2> QED
      BY <1>0, <2>1, <2>2 DEF NothingHalfDone
  <1>6. AnnounceInv'
    BY <1>0, AnnounceKept DEF IsAdmin
  <1> QED
    BY <1>1, <1>2, <1>3, <1>4, <1>5, <1>6

(* The task that tells the products.                                       *)
LEMMA CreateKcReplyInv ==
  ASSUME IInv, NEW r \in Requests, UNCHANGED home, CreateKcReply(r)
  PROVE  IInv'
  <1> USE JobType DEF IInv, TypeOK, OwnerInv, Placed, DoneFor, Owns, Creating
  <1>0. /\ pc[r] = "create_kc"
        /\ tasks' = tasks \cup {Task("created", job[r].who, home[r])}
        /\ pc' = [pc EXCEPT ![r] = IF job[r].who = AnonAdmin THEN "anon_role" ELSE "approve_commit"]
        /\ UNCHANGED <<users, certfile, enrolled, approved, roles, codes, heard, failures, home>>
        /\ UNCHANGED job
    BY DEF CreateKcReply, At, Goto, Finish, Leave, Create, db
  <1>1. TypeOK'
    BY <1>0, TaskType DEF Busy, People, Kinds
  <1>2. OneOwner'
    BY <1>0 DEF OneOwner
  <1>3. OwnerInv'
    <2>1. ASSUME NEW s \in Requests, NEW c \in Callsigns, Owns(s, c)'
         PROVE  DoneFor(s, c)'
      BY <1>0, <2>1 DEF OneOwner, RestInv, IsAdmin
    <2>2. \A s \in Requests : Placed(s)'
      BY <1>0
    <2> QED
      BY <2>1, <2>2
  <1>4. RestInv' /\ CodeMeansAdmin'
    BY <1>0, TaskType DEF RestInv, CodeMeansAdmin, IsAdmin, Kinds
  <1>5. NothingHalfDone'
    <2>1. ASSUME NEW c \in enrolled', failures = 0
         PROVE  InHand(c)'
      BY <1>0, <2>1 DEF OneOwner, NothingHalfDone, InHand, IsAdmin
    <2>2. failures = 0 /\ AnonAdmin \in users' => AnonInHand'
      BY <1>0 DEF NothingHalfDone, AnonInHand
    <2> QED
      BY <1>0, <2>1, <2>2 DEF NothingHalfDone
  <1>6. AnnounceInv'
    <2> SUFFICES ASSUME failures = 0, NEW q \in Products, NEW c \in Callsigns
                 PROVE  Announced(q, c)'
      BY <1>0 DEF AnnounceInv
    <2>1. \A s \in Requests : Owns(s, c) /\ pc[s] \in {"approve_commit", "wait"} =>
            <<q, "created", c>> \in heard \/ OnItsWay(q, c, home[s])'
      BY <1>0, OnItsWayKept DEF AnnounceInv, Announced
    <2>2. job[r].who = c => OnItsWay(q, c, home[r])'
      <3> DEFINE t == Task("created", job[r].who, home[r])
      <3>1. job[r].who \in People /\ home[r] \in Workers
        BY <1>0 DEF People
      <3>2. t \in tasks' /\ t.kind = "created" /\ t.of = job[r].who /\ t.at = "prepare"
              /\ t.worker = home[r]
        BY <1>0, <3>1, TaskType DEF Kinds
      <3> QED
        BY <1>0, <3>2 DEF OnItsWay
    <2>3. \A s \in Requests : Owns(s, c)' /\ pc'[s] \in {"approve_commit", "wait", "role"} =>
            \/ Owns(s, c) /\ pc[s] = pc'[s]
            \/ s = r /\ job[r].who = c /\ pc'[s] = "approve_commit"
      BY <1>0
    <2> QED
      BY <1>0, <2>1, <2>2, <2>3 DEF AnnounceInv, Announced, IsAdmin
  <1> QED
    BY <1>1, <1>2, <1>3, <1>4, <1>5, <1>6

(* The role of anon_admin.                                                 *)
LEMMA AnonRoleInv ==
  ASSUME IInv, NEW r \in Requests, UNCHANGED home, AnonRole(r)
  PROVE  IInv'
  <1> USE JobType DEF IInv, TypeOK, OwnerInv, Placed, DoneFor, Owns, Creating
  <1>0. /\ pc[r] = "anon_role"
        /\ roles' = roles \cup {<<AnonAdmin, "anon_admin">>}
        /\ pc' = [pc EXCEPT ![r] = "enroll"]
        /\ UNCHANGED <<users, certfile, enrolled, approved, codes, tasks, heard, failures, home>>
        /\ UNCHANGED job
    BY DEF AnonRole, At, Goto, Finish, Leave, Create, db
  <1>1. TypeOK'
    BY <1>0, TaskType DEF Busy, People, Kinds
  <1>2. OneOwner'
    BY <1>0 DEF OneOwner
  <1>3. OwnerInv'
    <2>1. ASSUME NEW s \in Requests, NEW c \in Callsigns, Owns(s, c)'
         PROVE  DoneFor(s, c)'
      BY <1>0, <2>1 DEF OneOwner, RestInv, IsAdmin
    <2>2. \A s \in Requests : Placed(s)'
      BY <1>0
    <2> QED
      BY <2>1, <2>2
  <1>4. RestInv' /\ CodeMeansAdmin'
    BY <1>0, TaskType DEF RestInv, CodeMeansAdmin, IsAdmin, Kinds
  <1>5. NothingHalfDone'
    <2>1. ASSUME NEW c \in enrolled', failures = 0
         PROVE  InHand(c)'
      BY <1>0, <2>1 DEF OneOwner, NothingHalfDone, InHand, IsAdmin
    <2>2. failures = 0 /\ AnonAdmin \in users' => AnonInHand'
      BY <1>0 DEF NothingHalfDone, AnonInHand
    <2> QED
      BY <1>0, <2>1, <2>2 DEF NothingHalfDone
  <1>6. AnnounceInv'
    BY <1>0, AnnounceKept DEF IsAdmin
  <1> QED
    BY <1>1, <1>2, <1>3, <1>4, <1>5, <1>6

(* The enrollments row.                                                    *)
LEMMA EnrollInv ==
  ASSUME IInv, NEW r \in Requests, UNCHANGED home, Enroll(r)
  PROVE  IInv'
  <1> USE JobType DEF IInv, TypeOK, OwnerInv, Placed, DoneFor, Owns, Creating
  <1>a. CASE job[r].cs \notin enrolled
    <2>0. /\ pc[r] = "enroll"
          /\ enrolled' = enrolled \cup {job[r].cs}
          /\ pc' = [pc EXCEPT ![r] = "create_insert"]
          /\ job' = [job EXCEPT ![r].who = job[r].cs]
          /\ UNCHANGED <<users, certfile, approved, roles, codes, tasks, heard, failures, home>>
      BY <1>a DEF Enroll, At, Goto, Finish, Leave, Create, db
    <2>j. /\ job[r].cs \in Callsigns
          /\ job' \in [Requests -> Jobs]
          /\ job'[r].cs = job[r].cs /\ job'[r].who = job[r].cs
          /\ \A s \in Requests \ {r} : job'[s] = job[s]
      BY <2>0 DEF Jobs, People
    <2>1. TypeOK'
      BY <1>a, <2>0, <2>j, TaskType DEF Busy, People, Kinds
    <2>2. OneOwner'
      BY <1>a, <2>0, <2>j DEF OneOwner
    <2>3. OwnerInv'
      <3>1. ASSUME NEW s \in Requests, NEW c \in Callsigns, Owns(s, c)'
           PROVE  DoneFor(s, c)'
        BY <1>a, <2>0, <2>j, <3>1 DEF OneOwner, RestInv, IsAdmin
      <3>2. \A s \in Requests : Placed(s)'
        BY <1>a, <2>0, <2>j
      <3> QED
        BY <3>1, <3>2
    <2>4. RestInv' /\ CodeMeansAdmin'
      BY <1>a, <2>0, <2>j, TaskType DEF RestInv, CodeMeansAdmin, IsAdmin, Kinds
    <2>5. NothingHalfDone'
      <3>1. ASSUME NEW c \in enrolled', failures = 0
           PROVE  InHand(c)'
        BY <1>a, <2>0, <2>j, <3>1 DEF OneOwner, NothingHalfDone, InHand, IsAdmin
      <3>2. failures = 0 /\ AnonAdmin \in users' => AnonInHand'
        BY <1>a, <2>0, <2>j DEF NothingHalfDone, AnonInHand
      <3> QED
        BY <1>a, <2>0, <2>j, <3>1, <3>2 DEF NothingHalfDone
    <2>6. AnnounceInv'
      BY <1>a, <2>0, <2>j, AnnounceKept DEF IsAdmin
    <2> QED
      BY <2>1, <2>2, <2>3, <2>4, <2>5, <2>6
  <1>b. CASE job[r].cs \in enrolled
    <2>0. /\ pc[r] = "enroll"
          /\ pc' = [pc EXCEPT ![r] = "idle"]
          /\ job' = [job EXCEPT ![r] = NoJob]
          /\ UNCHANGED <<users, certfile, enrolled, approved, roles, codes, tasks, heard, failures, home>>
      BY <1>b DEF Enroll, At, Goto, Finish, Leave, Create, db
    <2>j. /\ job[r].cs \in Callsigns
          /\ job' \in [Requests -> Jobs]
      BY <2>0 DEF Jobs, People
    <2>1. TypeOK'
      BY <1>b, <2>0, <2>j, TaskType DEF Busy, People, Kinds
    <2>2. OneOwner'
      BY <1>b, <2>0, <2>j DEF OneOwner
    <2>3. OwnerInv'
      <3>1. ASSUME NEW s \in Requests, NEW c \in Callsigns, Owns(s, c)'
           PROVE  DoneFor(s, c)'
        BY <1>b, <2>0, <2>j, <3>1 DEF OneOwner, RestInv, IsAdmin
      <3>2. \A s \in Requests : Placed(s)'
        BY <1>b, <2>0, <2>j
      <3> QED
        BY <3>1, <3>2
    <2>4. RestInv' /\ CodeMeansAdmin'
      BY <1>b, <2>0, <2>j, TaskType DEF RestInv, CodeMeansAdmin, IsAdmin, Kinds
    <2>5. NothingHalfDone'
      <3>1. ASSUME NEW c \in enrolled', failures = 0
           PROVE  InHand(c)'
        BY <1>b, <2>0, <2>j, <3>1 DEF OneOwner, NothingHalfDone, InHand, IsAdmin
      <3>2. failures = 0 /\ AnonAdmin \in users' => AnonInHand'
        BY <1>b, <2>0, <2>j DEF NothingHalfDone, AnonInHand
      <3> QED
        BY <1>b, <2>0, <2>j, <3>1, <3>2 DEF NothingHalfDone
    <2>6. AnnounceInv'
      BY <1>b, <2>0, <2>j, AnnounceKept DEF IsAdmin
    <2> QED
      BY <2>1, <2>2, <2>3, <2>4, <2>5, <2>6
  <1> QED
    BY <1>a, <1>b

(* The approval.                                                           *)
LEMMA ApproveCommitInv ==
  ASSUME IInv, NEW r \in Requests, UNCHANGED home, ApproveCommit(r)
  PROVE  IInv'
  <1> USE JobType DEF IInv, TypeOK, OwnerInv, Placed, DoneFor, Owns, Creating
  <1>0. /\ pc[r] = "approve_commit"
        /\ approved' = approved \cup {job[r].cs}
        /\ pc' = [pc EXCEPT ![r] = "wait"]
        /\ UNCHANGED <<users, certfile, enrolled, roles, codes, tasks, heard, failures, home>>
        /\ UNCHANGED job
    BY DEF ApproveCommit, At, Goto, Finish, Leave, Create, db
  <1> DEFINE k == job[r].cs
  <1>k. k \in Callsigns /\ Owns(r, k)
    BY <1>0
  <1>1. TypeOK'
    <2>1. approved' \subseteq enrolled \cap certfile
      BY <1>0, <1>k
    <2>2. pc' \in [Requests -> Busy \cup {"idle"}]
      BY <1>0 DEF Busy
    <2> QED
      BY <1>0, <2>1, <2>2
  <1>2. OneOwner'
    BY <1>0, <1>k DEF OneOwner
  <1>3. OwnerInv'
    <2>1. ASSUME NEW s \in Requests, NEW c \in Callsigns, Owns(s, c)'
         PROVE  DoneFor(s, c)'
      BY <1>0, <1>k, <2>1 DEF OneOwner, RestInv, IsAdmin
    <2>2. \A s \in Requests : Placed(s)'
      BY <1>0, <1>k
    <2> QED
      BY <2>1, <2>2
  <1>4. RestInv' /\ CodeMeansAdmin'
    BY <1>0, <1>k, TaskType DEF RestInv, CodeMeansAdmin, IsAdmin, Kinds
  <1>5. NothingHalfDone'
    <2>1. ASSUME NEW c \in enrolled', failures = 0
         PROVE  InHand(c)'
      BY <1>0, <1>k, <2>1 DEF OneOwner, NothingHalfDone, InHand, IsAdmin
    <2>2. failures = 0 /\ AnonAdmin \in users' => AnonInHand'
      BY <1>0, <1>k DEF NothingHalfDone, AnonInHand
    <2> QED
      BY <1>0, <1>k, <2>1, <2>2 DEF NothingHalfDone
  <1>6. AnnounceInv'
    BY <1>0, <1>k, AnnounceKept DEF IsAdmin
  <1> QED
    BY <1>1, <1>2, <1>3, <1>4, <1>5, <1>6

(* The end of the wait: the worker has no tasks left.                      *)
LEMMA WaitDoneInv ==
  ASSUME IInv, NEW r \in Requests, UNCHANGED home, WaitDone(r)
  PROVE  IInv'
  <1> USE JobType DEF IInv, TypeOK, OwnerInv, Placed, DoneFor, Owns, Creating
  <1>0. /\ pc[r] = "wait"
        /\ \A t \in tasks : t.worker # home[r]
        /\ pc' = [pc EXCEPT ![r] = "role"]
        /\ UNCHANGED <<users, certfile, enrolled, approved, roles, codes, tasks, heard, failures, home>>
        /\ UNCHANGED job
    BY DEF WaitDone, At, Goto, Finish, Leave, Create, db
  <1> DEFINE k == job[r].cs
  <1>k. k \in Callsigns /\ Owns(r, k)
    BY <1>0
  <1>1. TypeOK'
    BY <1>0, <1>k, TaskType DEF Busy, People, Kinds
  <1>2. OneOwner'
    BY <1>0, <1>k DEF OneOwner
  <1>3. OwnerInv'
    <2>1. ASSUME NEW s \in Requests, NEW c \in Callsigns, Owns(s, c)'
         PROVE  DoneFor(s, c)'
      BY <1>0, <1>k, <2>1 DEF OneOwner, RestInv, IsAdmin
    <2>2. \A s \in Requests : Placed(s)'
      BY <1>0, <1>k
    <2> QED
      BY <2>1, <2>2
  <1>4. RestInv' /\ CodeMeansAdmin'
    BY <1>0, <1>k, TaskType DEF RestInv, CodeMeansAdmin, IsAdmin, Kinds
  <1>5. NothingHalfDone'
    <2>1. ASSUME NEW c \in enrolled', failures = 0
         PROVE  InHand(c)'
      BY <1>0, <1>k, <2>1 DEF OneOwner, NothingHalfDone, InHand, IsAdmin
    <2>2. failures = 0 /\ AnonAdmin \in users' => AnonInHand'
      BY <1>0, <1>k DEF NothingHalfDone, AnonInHand
    <2> QED
      BY <1>0, <1>k, <2>1, <2>2 DEF NothingHalfDone
  <1>6. AnnounceInv'
    <2> SUFFICES ASSUME failures = 0, NEW q \in Products, NEW c \in Callsigns
                 PROVE  Announced(q, c)'
      BY <1>0 DEF AnnounceInv
    <2>1. \A s \in Requests : Owns(s, c) /\ pc[s] \in {"approve_commit", "wait"} =>
            <<q, "created", c>> \in heard \/ OnItsWay(q, c, home[s])'
      BY <1>0, OnItsWayKept DEF AnnounceInv, Announced
    <2>2. ~OnItsWay(q, c, home[r])
      BY <1>0 DEF OnItsWay
    <2>3. \A s \in Requests : Owns(s, c)' /\ pc'[s] \in {"approve_commit", "wait", "role"} =>
            \/ Owns(s, c) /\ pc[s] = pc'[s]
            \/ s = r /\ Owns(r, c) /\ pc[r] = "wait" /\ pc'[s] = "role"
      BY <1>0
    <2> QED
      BY <1>0, <2>1, <2>2, <2>3 DEF AnnounceInv, Announced, IsAdmin
  <1> QED
    BY <1>1, <1>2, <1>3, <1>4, <1>5, <1>6

(* The role.                                                               *)
LEMMA AssignRoleInv ==
  ASSUME IInv, NEW r \in Requests, UNCHANGED home, AssignRole(r)
  PROVE  IInv'
  <1> USE JobType DEF IInv, TypeOK, OwnerInv, Placed, DoneFor, Owns, Creating
  <1> DEFINE k == job[r].cs
  <1>k. k \in Callsigns /\ Owns(r, k) /\ pc[r] = "role"
    BY DEF AssignRole, At, IInv, OwnerInv, Placed, DoneFor, Owns
  <1>0. /\ pc[r] = "role"
        /\ roles' = roles \cup {<<job[r].cs, "admin">>}
        /\ tasks' = tasks \cup {Task("promoted", job[r].cs, home[r])}
        /\ pc' = [pc EXCEPT ![r] = "code"]
        /\ UNCHANGED <<users, certfile, enrolled, approved, codes, heard, failures, home>>
        /\ UNCHANGED job
    BY <1>k DEF AssignRole, At, Goto, Finish, Leave, Create, db, IsAdmin
  <1>1. TypeOK'
    BY <1>0, <1>k, TaskType DEF Busy, People, Kinds
  <1>2. OneOwner'
    BY <1>0, <1>k DEF OneOwner
  <1>3. OwnerInv'
    <2>1. ASSUME NEW s \in Requests, NEW c \in Callsigns, Owns(s, c)'
         PROVE  DoneFor(s, c)'
      BY <1>0, <1>k, <2>1 DEF OneOwner, RestInv, IsAdmin
    <2>2. \A s \in Requests : Placed(s)'
      BY <1>0, <1>k
    <2> QED
      BY <2>1, <2>2
  <1>4. RestInv' /\ CodeMeansAdmin'
    <2>1. \A c \in Callsigns : IsAdmin(c)' <=> IsAdmin(c) \/ c = k
      BY <1>0, <1>k DEF IsAdmin
    <2>2. \A t \in tasks' : t.kind = "promoted" /\ t.of \in Callsigns => IsAdmin(t.of)'
      BY <1>0, <1>k, <2>1, TaskType DEF RestInv, Kinds, People
    <2>3. k \in enrolled /\ k \in approved /\ codes[k] = 0
      BY <1>0, <1>k
    <2> QED
      BY <1>0, <1>k, <2>1, <2>2, <2>3 DEF RestInv, CodeMeansAdmin
  <1>5. NothingHalfDone'
    <2>1. ASSUME NEW c \in enrolled', failures = 0
         PROVE  InHand(c)'
      BY <1>0, <1>k, <2>1 DEF OneOwner, NothingHalfDone, InHand, IsAdmin
    <2>2. failures = 0 /\ AnonAdmin \in users' => AnonInHand'
      BY <1>0, <1>k DEF NothingHalfDone, AnonInHand
    <2> QED
      BY <1>0, <1>k, <2>1, <2>2 DEF NothingHalfDone
  <1>6. AnnounceInv'
    <2> SUFFICES ASSUME failures = 0, NEW q \in Products, NEW c \in Callsigns
                 PROVE  Announced(q, c)'
      BY <1>0 DEF AnnounceInv
    <2>1. \A s \in Requests : Owns(s, c) /\ pc[s] \in {"approve_commit", "wait"} =>
            <<q, "created", c>> \in heard \/ OnItsWay(q, c, home[s])'
      BY <1>0, OnItsWayKept DEF AnnounceInv, Announced
    <2>2. IsAdmin(c)' => IsAdmin(c) \/ c = k
      BY <1>0 DEF IsAdmin
    <2>3. \A s \in Requests : Owns(s, c)' /\ pc'[s] \in {"approve_commit", "wait", "role"} =>
            Owns(s, c) /\ pc[s] = pc'[s]
      BY <1>0
    <2> QED
      BY <1>0, <1>k, <2>1, <2>2, <2>3 DEF AnnounceInv, Announced
  <1> QED
    BY <1>1, <1>2, <1>3, <1>4, <1>5, <1>6

(* The login code.                                                         *)
LEMMA CreateCodeInv ==
  ASSUME IInv, NEW r \in Requests, UNCHANGED home, CreateCode(r)
  PROVE  IInv'
  <1> USE JobType DEF IInv, TypeOK, OwnerInv, Placed, DoneFor, Owns, Creating
  <1>0. /\ pc[r] = "code"
        /\ codes' = [codes EXCEPT ![job[r].cs] = @ + 1]
        /\ pc' = [pc EXCEPT ![r] = "idle"]
        /\ job' = [job EXCEPT ![r] = NoJob]
        /\ UNCHANGED <<users, certfile, enrolled, approved, roles, tasks, heard, failures, home>>
    BY DEF CreateCode, At, Goto, Finish, Leave, Create, db
  <1> DEFINE k == job[r].cs
  <1>k. k \in Callsigns /\ Owns(r, k)
    BY <1>0
  <1>1. TypeOK'
    BY <1>0, <1>k, TaskType DEF Busy, People, Kinds
  <1>2. OneOwner'
    BY <1>0, <1>k DEF OneOwner
  <1>3. OwnerInv'
    <2>1. ASSUME NEW s \in Requests, NEW c \in Callsigns, Owns(s, c)'
         PROVE  DoneFor(s, c)'
      BY <1>0, <1>k, <2>1 DEF OneOwner, RestInv, IsAdmin
    <2>2. \A s \in Requests : Placed(s)'
      BY <1>0, <1>k
    <2> QED
      BY <2>1, <2>2
  <1>4. RestInv' /\ CodeMeansAdmin'
    BY <1>0, <1>k, TaskType DEF RestInv, CodeMeansAdmin, IsAdmin, Kinds
  <1>5. NothingHalfDone'
    <2>1. ASSUME NEW c \in enrolled', failures = 0
         PROVE  InHand(c)'
      <3>1. CASE c = k
        BY <1>0, <1>k, <3>1 DEF InHand
      <3>2. CASE c # k
        <4>1. \A s \in Requests : Owns(s, c) => Owns(s, c)'
          BY <1>0, <1>k, <3>2
        <4>2. c \in Callsigns /\ codes'[c] = codes[c]
          BY <1>0, <1>k, <2>1, <3>2
        <4> QED
          BY <1>0, <1>k, <2>1, <4>1, <4>2 DEF NothingHalfDone, InHand
      <3> QED
        BY <3>1, <3>2
    <2>2. failures = 0 /\ AnonAdmin \in users' => AnonInHand'
      BY <1>0, <1>k DEF NothingHalfDone, AnonInHand
    <2> QED
      BY <1>0, <1>k, <2>1, <2>2 DEF NothingHalfDone
  <1>6. AnnounceInv'
    BY <1>0, <1>k, AnnounceKept DEF IsAdmin
  <1> QED
    BY <1>1, <1>2, <1>3, <1>4, <1>5, <1>6

-------------------------------------------------------------------------------
(* A step of the background tasks changes no row and moves no request: it  *)
(* keeps the invariant if nothing gets lost on its way.                    *)
LEMMA TaskStepInv ==
  ASSUME IInv, UNCHANGED <<db, pc, job, home, failures>>,
         tasks' \subseteq Tasks, heard' \subseteq (Products \X Kinds \X People),
         \A t \in tasks' : t.kind = "promoted" /\ t.of \in Callsigns => IsAdmin(t.of),
         \A q \in Products, c \in Callsigns :
           /\ <<q, "promoted", c>> \in heard' => IsAdmin(c)
           /\ <<q, "created", c>> \in heard => <<q, "created", c>> \in heard'
           /\ \A w \in Workers : OnItsWay(q, c, w) =>
                <<q, "created", c>> \in heard' \/ OnItsWay(q, c, w)'
  PROVE  IInv'
  <1>1. TypeOK' /\ OneOwner' /\ OwnerInv'
    BY DEF IInv, TypeOK, OneOwner, OwnerInv, Placed, DoneFor, Owns, IsAdmin, db
  <1>2. RestInv' /\ CodeMeansAdmin'
    BY DEF IInv, RestInv, CodeMeansAdmin, IsAdmin, db
  <1>3. NothingHalfDone'
    BY DEF IInv, NothingHalfDone, InHand, AnonInHand, Owns, db
  <1>4. AnnounceInv'
    <2>1. \A r \in Requests : home[r] \in Workers
      BY DEF IInv, TypeOK
    <2> QED
      BY <2>1 DEF IInv, AnnounceInv, Announced, Owns, IsAdmin, db
  <1> QED
    BY <1>1, <1>2, <1>3, <1>4 DEF IInv

(* A task for every product in place of one that has prepared.             *)
LEMMA SpreadInv ==
  ASSUME IInv, UNCHANGED home, NEW t \in tasks, Spread(t)
  PROVE  IInv'
  <1> DEFINE To(q) == [t EXCEPT !.at = q]
  <1>0. /\ tasks' = (tasks \ {t}) \cup {To(q) : q \in Products}
        /\ UNCHANGED <<db, pc, job, heard, failures>>
    BY DEF Spread
  <1>t. \A q \in Products :
          /\ To(q) \in Tasks /\ To(q).at = q
          /\ To(q).kind = t.kind /\ To(q).of = t.of /\ To(q).worker = t.worker
    BY SpreadType DEF IInv, TypeOK
  <1> HIDE DEF To
  <1>1. tasks' \subseteq Tasks
    BY <1>0, <1>t DEF IInv, TypeOK
  <1>2. \A u \in tasks' : u.kind = "promoted" /\ u.of \in Callsigns => IsAdmin(u.of)
    BY <1>0, <1>t DEF IInv, RestInv
  <1>3. ASSUME NEW q \in Products, NEW c \in Callsigns, NEW w \in Workers, OnItsWay(q, c, w)
        PROVE  OnItsWay(q, c, w)'
    <2>1. PICK u \in tasks : u.kind = "created" /\ u.of = c /\ u.at \in {"prepare", q} /\ u.worker = w
      BY <1>3 DEF OnItsWay
    <2>2. CASE u = t
      <3>1. To(q) \in tasks'
        BY <1>0
      <3> QED
        BY <1>t, <2>1, <2>2, <3>1 DEF OnItsWay
    <2>3. CASE u # t
      BY <1>0, <2>1, <2>3 DEF OnItsWay
    <2> QED
      BY <2>2, <2>3
  <1> QED
    BY <1>0, <1>1, <1>2, <1>3, TaskStepInv DEF IInv, TypeOK, RestInv

(* A product is told.                                                      *)
LEMMA PostInv ==
  ASSUME IInv, UNCHANGED home, NEW t \in tasks, Post(t)
  PROVE  IInv'
  <1>0. /\ t \in Tasks /\ t.at \in Products /\ t.kind \in Kinds /\ t.of \in People
        /\ tasks' = tasks \ {t}
        /\ heard' = heard \cup {<<t.at, t.kind, t.of>>}
        /\ UNCHANGED <<db, pc, job, failures>>
    BY DEF Post, IInv, TypeOK, Tasks
  <1>1. heard' \subseteq (Products \X Kinds \X People)
    BY <1>0 DEF IInv, TypeOK
  <1>2. \A q \in Products, c \in Callsigns : <<q, "promoted", c>> \in heard' => IsAdmin(c)
    BY <1>0 DEF IInv, RestInv
  <1>3. ASSUME NEW q \in Products, NEW c \in Callsigns, NEW w \in Workers, OnItsWay(q, c, w)
        PROVE  <<q, "created", c>> \in heard' \/ OnItsWay(q, c, w)'
    <2>1. PICK u \in tasks : u.kind = "created" /\ u.of = c /\ u.at \in {"prepare", q} /\ u.worker = w
      BY <1>3 DEF OnItsWay
    <2>2. CASE u = t
      BY <1>0, <2>1, <2>2
    <2>3. CASE u # t
      BY <1>0, <2>1, <2>3 DEF OnItsWay
    <2> QED
      BY <2>2, <2>3
  <1> QED
    BY <1>0, <1>1, <1>2, <1>3, TaskStepInv DEF IInv, TypeOK, RestInv

(* After a failure only rows, places and types matter: requests that end   *)
(* or that go on from the wait, and lost tasks, keep the invariant.        *)
LEMMA FailureInv ==
  ASSUME IInv, UNCHANGED <<db, heard, home>>, tasks' \subseteq tasks,
         failures < MaxFailures, failures' = failures + 1,
         pc' \in [Requests -> Busy \cup {"idle"}], job' \in [Requests -> Jobs],
         \A s \in Requests :
           \/ pc'[s] = "idle" /\ job'[s] = NoJob
           \/ pc'[s] = pc[s] /\ job'[s] = job[s]
           \/ pc[s] = "wait" /\ pc'[s] = "role" /\ job'[s] = job[s]
  PROVE  IInv'
  <1>0. \A s \in Requests, c \in Callsigns : Owns(s, c)' => Owns(s, c)
    BY DEF Owns, Creating
  <1>1. TypeOK'
    BY DEF IInv, TypeOK, db
  <1>2. OneOwner'
    BY <1>0 DEF IInv, OneOwner, Creating
  <1>3. OwnerInv'
    <2>1. ASSUME NEW s \in Requests, NEW c \in Callsigns, Owns(s, c)'
         PROVE  DoneFor(s, c)'
      <3>1. Owns(s, c) /\ DoneFor(s, c)
        BY <1>0, <2>1 DEF IInv, OwnerInv
      <3>2. pc'[s] # "idle"
        BY <2>1 DEF Owns, Creating
      <3> QED
        BY <3>1, <3>2 DEF DoneFor, IsAdmin, db
    <2>2. \A s \in Requests : Placed(s)'
      BY DEF IInv, OwnerInv, Placed, Creating, db
    <2> QED
      BY <2>1, <2>2 DEF OwnerInv
  <1>4. RestInv' /\ CodeMeansAdmin'
    BY DEF IInv, RestInv, CodeMeansAdmin, IsAdmin, db
  <1>5. failures' # 0
    BY DEF IInv, TypeOK
  <1> QED
    BY <1>1, <1>2, <1>3, <1>4, <1>5 DEF IInv, NothingHalfDone, AnnounceInv

(* The CA or Keycloak fails, or the wait times out.                        *)
LEMMA CallFailsInv ==
  ASSUME IInv, NEW r \in Requests, CallFails(r)
  PROVE  IInv'
  <1>1. /\ pc' \in [Requests -> Busy \cup {"idle"}]
        /\ job' \in [Requests -> Jobs]
        /\ \A s \in Requests :
             \/ pc'[s] = "idle" /\ job'[s] = NoJob
             \/ pc'[s] = pc[s] /\ job'[s] = job[s]
             \/ pc[s] = "wait" /\ pc'[s] = "role" /\ job'[s] = job[s]
    <2>1. CASE Finish(r)
      BY <2>1, JobType DEF IInv, TypeOK, Finish, Leave, Goto
    <2>2. CASE pc[r] = "wait" /\ Goto(r, "role") /\ UNCHANGED job
      BY <2>2 DEF IInv, TypeOK, Goto, Busy
    <2> QED
      BY <2>1, <2>2 DEF CallFails, At
  <1> QED
    BY <1>1, FailureInv DEF CallFails

(* A background task fails.                                                *)
LEMMA TaskFailsInv ==
  ASSUME IInv, NEW t \in tasks, TaskFails(t)
  PROVE  IInv'
  BY FailureInv DEF TaskFails, IInv, TypeOK

(* A worker dies.                                                          *)
LEMMA WorkerCrashInv ==
  ASSUME IInv, NEW w \in Workers, WorkerCrash(w)
  PROVE  IInv'
  BY FailureInv, JobType DEF WorkerCrash, Dies, IInv, TypeOK

-------------------------------------------------------------------------------
(* Every step of the system, and none, preserves the invariant.            *)
LEMMA NextInv == IInv /\ [Next]_vars => IInv'
  <1> SUFFICES ASSUME IInv, [Next]_vars PROVE IInv'
    OBVIOUS
  <1>1. ASSUME NEW r \in Requests, Arrive(r) PROVE IInv'
    BY <1>1, AddAdminInv DEF Arrive
  <1>2. ASSUME NEW r \in Requests, Advance(r) PROVE IInv'
    BY <1>2, CreateInsertInv, CreateCertInv, CreateKcReplyInv, AnonRoleInv, EnrollInv,
       ApproveCommitInv, WaitDoneInv, AssignRoleInv, CreateCodeInv DEF Advance
  <1>3. ASSUME NEW r \in Requests, CallFails(r) PROVE IInv'
    BY <1>3, CallFailsInv
  <1>4. ASSUME NEW t \in tasks, TaskFails(t) PROVE IInv'
    BY <1>4, TaskFailsInv
  <1>5. ASSUME NEW w \in Workers, RunTask(w) PROVE IInv'
    BY <1>5, SpreadInv, PostInv DEF RunTask
  <1>6. ASSUME NEW w \in Workers, WorkerCrash(w) PROVE IInv'
    BY <1>6, WorkerCrashInv
  <1>7. CASE UNCHANGED vars
    <2>1. /\ UNCHANGED <<db, pc, job, home, failures, tasks, heard>>
          /\ \A q \in Products, c \in Callsigns, w \in Workers :
               OnItsWay(q, c, w) => OnItsWay(q, c, w)'
      BY <1>7 DEF vars, OnItsWay
    <2> QED
      BY <2>1, TaskStepInv DEF IInv, TypeOK, RestInv
  <1> QED
    BY <1>1, <1>2, <1>3, <1>4, <1>5, <1>6, <1>7 DEF Next

(* The inductive invariant of the first admin's requests always holds.     *)
THEOREM Invariance == Spec => []IInv
  BY InitInv, NextInv, PTL DEF Spec

(* The state is always well typed: an approved admin is enrolled and has a *)
(* certificate, a certificate belongs to a person.                         *)
THEOREM TypeCorrect == Spec => []TypeOK
  <1>1. IInv => TypeOK
    BY DEF IInv
  <1> QED
    BY <1>1, Invariance, PTL

(* A login code for the admin's session is created at most once for each   *)
(* callsign, and only when its approval and its role are committed.        *)
THEOREM AdminCodes == Spec => []CodeMeansAdmin
  <1>1. IInv => CodeMeansAdmin
    BY DEF IInv
  <1> QED
    BY <1>1, Invariance, PTL

(* Until something fails nobody is left half enrolled, and anon_admin is   *)
(* not left without its role.                                              *)
THEOREM NothingLeftHalfDone == Spec => []NothingHalfDone
  <1>1. IInv => NothingHalfDone
    BY DEF IInv
  <1> QED
    BY <1>1, Invariance, PTL

(* Until something fails a product hears of a person before it hears of    *)
(* the promotion.                                                          *)
THEOREM AnnouncedInOrder == Spec => []CreatedBeforePromoted
  <1>1. IInv => CreatedBeforePromoted
    BY DEF IInv, RestInv, AnnounceInv, Announced, CreatedBeforePromoted
  <1> QED
    BY <1>1, Invariance, PTL
===============================================================================
