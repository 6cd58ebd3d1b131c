--------------------------- MODULE EnrollmentProofs ---------------------------
(***************************************************************************)
(* Proofs about Enrollment for every number of callsigns, admins, workers  *)
(* and requests, every spelling relation Fold and every bound.             *)
(*                                                                         *)
(* Everything follows from IInv.  It is preserved because a request passes *)
(* the INSERT of a users row for a callsign at most once (OneCreator), so  *)
(* what that request knows about its own row stays true until it commits   *)
(* (CreatorInv), and because copies loaded earlier are never ahead of the  *)
(* row (SnapshotInv).  For NoAcceptForgotten the accept must also find no  *)
(* user of its own spelling in Keycloak (CreatorsAreNew).                  *)
(***************************************************************************)
EXTENDS Enrollment, FiniteSetTheorems, TLAPS

USE ConstantsAssumption, HandlersAssumption DEF ConstantsAssumption, HandlersAssumption

-------------------------------------------------------------------------------
(* A new enrollment row is well typed and undecided.                       *)
LEMMA NewRowType ==
  \A x \in Extras : /\ NewRow(x) \in EnrollmentRow
                    /\ NewRow(x).state = "PENDING"
                    /\ NewRow(x).decided_by = Nobody
                    /\ ~NewRow(x).person
  BY DEF NewRow, EnrollmentRow, States, Extras, Codes

(* What a handler remembers is well typed and can be read back.            *)
LEMMA JobType ==
  \A c \in Callsigns \cup {Nobody}, a \in Admins \cup {Nobody},
     row \in EnrollmentRow \cup {NoRow} :
       /\ Job(c, a, row) \in Jobs
       /\ Job(c, a, row).cs = c
       /\ Job(c, a, row).by = a
       /\ Job(c, a, row).seen = row
       /\ Job(c, a, row).kc = FALSE
  BY DEF Job, Jobs

(* An idle slot remembers nothing, well typed.                             *)
LEMMA NoJobType == NoJob \in Jobs
  BY JobType DEF NoJob

(* Writing a stale copy, by approve or by reject, yields a row.            *)
LEMMA WriteTypes ==
  \A row, seen \in EnrollmentRow, a \in Admins :
       /\ Approved(row, seen, a) \in EnrollmentRow
       /\ Rejected(row, seen, a) \in EnrollmentRow
  <1> SUFFICES ASSUME NEW row \in EnrollmentRow, NEW seen \in EnrollmentRow, NEW a \in Admins
               PROVE  /\ Approved(row, seen, a) \in EnrollmentRow
                      /\ Rejected(row, seen, a) \in EnrollmentRow
    OBVIOUS
  <1>1. \A new \in States : Dirty(row.state, seen.state, new) \in States
    BY DEF Dirty, EnrollmentRow
  <1>2. Dirty(row.decided_by, seen.decided_by, a) \in Admins \cup {Nobody}
    BY DEF Dirty, EnrollmentRow
  <1>3. "APPROVED" \in States /\ "REJECTED" \in States
    BY DEF States
  <1>4. \A st \in States, d \in Admins \cup {Nobody} :
          /\ [row EXCEPT !.state = st, !.decided_by = d, !.person = TRUE] \in EnrollmentRow
          /\ [row EXCEPT !.state = st, !.decided_by = d] \in EnrollmentRow
    BY DEF EnrollmentRow
  <1> QED
    BY <1>1, <1>2, <1>3, <1>4 DEF Approved, Rejected

-------------------------------------------------------------------------------
(* Remembering whether a kc_uuid was loaded keeps the rest of a job.       *)
LEMMA JobKc ==
  \A j \in Jobs, b \in BOOLEAN : [j EXCEPT !.kc = b] \in Jobs /\ [j EXCEPT !.kc = b].cs = j.cs
  BY DEF Jobs

(* The invariant holds initially.                                          *)
LEMMA InitInv == Init => IInv
  <1> SUFFICES ASSUME Init PROVE IInv
    OBVIOUS
  <1>1. TypeOK
    BY NoJobType DEF Init, NoRequests, TypeOK
  <1>2. RowInv /\ DecisionIsAttributed /\ RevokedIsDeleted /\ LinkedHasKcUser
    BY DEF Init, NoRequests, RowInv, DecisionIsAttributed, RevokedIsDeleted, LinkedHasKcUser, NoRow, Enrolled
  <1>3. OneCreator /\ CreatorInv /\ DeleterInv /\ SnapshotInv
    BY DEF Init, NoRequests, OneCreator, CreatorInv, DeleterInv, SnapshotInv, Creating, Deleting, Accepting
  <1> QED
    BY <1>1, <1>2, <1>3 DEF IInv

-------------------------------------------------------------------------------
(* An arriving request preserves the invariant: only its pc and job change.*)
LEMMA ArriveInv == ASSUME IInv, NEW r \in Requests, Arrive(r) PROVE IInv'
  <1> USE DEF IInv, TypeOK, RowInv, OneCreator, CreatorInv, DeleterInv, SnapshotInv,
              DecisionIsAttributed, RevokedIsDeleted, LinkedHasKcUser,
              At, Goto, Finish, Leave, Begin, db, world, Enrolled, Matches, AwaitPoints,
              Busy, Creating, Deleting, Accepting, Certified, Revoking
  <1>0. UNCHANGED home
    BY DEF Arrive
  <1> USE <1>0
  <1>1. ASSUME NEW c \in Callsigns, NEW extra \in Extras, CreateCheck(r, c, extra) PROVE IInv'
    <2> DEFINE j == Job(c, Nobody, NewRow(extra))
    <2>1. j \in Jobs /\ j.cs = c /\ j.seen = NewRow(extra) /\ ~j.kc
      BY JobType, NewRowType
    <2>2. pc' = [pc EXCEPT ![r] = "init_insert"] /\ job' = [job EXCEPT ![r] = j]
      BY <1>1 DEF CreateCheck
    <2> HIDE DEF j
    <2>3. TypeOK'
      BY <1>1, <2>1, <2>2 DEF CreateCheck
    <2>4. RowInv' /\ OneCreator' /\ CreatorInv' /\ DeleterInv'
      BY <1>1, <2>2 DEF CreateCheck
    <2>5. SnapshotInv'
      BY <1>1, <2>1, <2>2, NewRowType DEF CreateCheck
    <2>6. DecisionIsAttributed' /\ RevokedIsDeleted' /\ LinkedHasKcUser'
      BY <1>1 DEF CreateCheck
    <2> QED
      BY <2>3, <2>4, <2>5, <2>6
  <1>2. ASSUME NEW c \in Callsigns, NEW a \in Admins, NEW code \in Codes,
                AcceptLoad(r, c, a, code)
         PROVE  IInv'
    <2> PICK e \in Matches(Enrolled, c) :
          /\ Begin(r, "acc_check", Job(e, a, enrollment[e]))
          /\ UNCHANGED <<db, world, failures>>
      BY <1>2 DEF AcceptLoad
    <2> DEFINE j == Job(e, a, enrollment[e])
    <2>1. /\ enrollment[e] \in EnrollmentRow
          /\ j \in Jobs /\ j.cs = e /\ j.by = a /\ j.seen = enrollment[e] /\ ~j.kc
      BY JobType DEF NoRow
    <2>2. pc' = [pc EXCEPT ![r] = "acc_check"] /\ job' = [job EXCEPT ![r] = j]
      OBVIOUS
    <2> HIDE DEF j
    <2>3. TypeOK'
      BY <2>1, <2>2
    <2>4. RowInv' /\ OneCreator' /\ CreatorInv' /\ DeleterInv'
      BY <2>2
    <2>5. SnapshotInv'
      BY <2>1, <2>2
    <2>6. DecisionIsAttributed' /\ RevokedIsDeleted' /\ LinkedHasKcUser'
      OBVIOUS
    <2> QED
      BY <2>3, <2>4, <2>5, <2>6
  <1>3. ASSUME NEW c \in Callsigns, NEW a \in Admins,
                LockLoad(r, c, a)
         PROVE  IInv'
    <2> PICK e \in Matches(Enrolled, c) :
          /\ Begin(r, "lock_commit", Job(e, a, enrollment[e]))
          /\ UNCHANGED <<db, world, failures>>
      BY <1>3 DEF LockLoad
    <2> DEFINE j == Job(e, a, enrollment[e])
    <2>1. /\ enrollment[e] \in EnrollmentRow
          /\ j \in Jobs /\ j.cs = e /\ j.by = a /\ j.seen = enrollment[e] /\ ~j.kc
      BY JobType DEF NoRow
    <2>2. pc' = [pc EXCEPT ![r] = "lock_commit"] /\ job' = [job EXCEPT ![r] = j]
      OBVIOUS
    <2> HIDE DEF j
    <2>3. TypeOK'
      BY <2>1, <2>2
    <2>4. RowInv' /\ OneCreator' /\ CreatorInv' /\ DeleterInv'
      BY <2>2
    <2>5. SnapshotInv'
      BY <2>1, <2>2
    <2>6. DecisionIsAttributed' /\ RevokedIsDeleted' /\ LinkedHasKcUser'
      OBVIOUS
    <2> QED
      BY <2>3, <2>4, <2>5, <2>6
  <1>4. ASSUME NEW c \in Callsigns, NEW a \in Admins, DeleteLoad(r, c, a) PROVE IInv'
    <2> PICK p \in Matches(users, c) :
          /\ Begin(r, "del_check", Job(p, a, NoRow))
          /\ UNCHANGED <<db, world, failures>>
      BY <1>4 DEF DeleteLoad
    <2> DEFINE j == Job(p, a, NoRow)
    <2>1. j \in Jobs /\ j.cs = p /\ ~j.kc
      BY JobType
    <2>2. pc' = [pc EXCEPT ![r] = "del_check"] /\ job' = [job EXCEPT ![r] = j]
      OBVIOUS
    <2> HIDE DEF j
    <2>3. TypeOK'
      BY <2>1, <2>2
    <2>4. RowInv' /\ OneCreator' /\ CreatorInv' /\ DeleterInv'
      BY <2>1, <2>2
    <2>5. SnapshotInv'
      BY <2>2
    <2>6. DecisionIsAttributed' /\ RevokedIsDeleted' /\ LinkedHasKcUser'
      OBVIOUS
    <2> QED
      BY <2>3, <2>4, <2>5, <2>6
  <1> QED
    BY <1>1, <1>2, <1>3, <1>4 DEF Arrive

-------------------------------------------------------------------------------
(* The steps of the handlers that create a person preserve the invariant.  *)
LEMMA AcceptInv ==
  ASSUME IInv, NEW r \in Requests, UNCHANGED home,
         \/ CreateInsert(r)
         \/ AcceptCheck(r) \/ AcceptInsert(r) \/ CaSign(r) \/ AcceptCert(r)
         \/ KcCreate(r) \/ AcceptKcReply(r) \/ AcceptLink(r) \/ AcceptCommit(r)
  PROVE  IInv'
  <1> USE DEF IInv, TypeOK, RowInv, OneCreator, CreatorInv, DeleterInv, SnapshotInv,
              DecisionIsAttributed, RevokedIsDeleted, LinkedHasKcUser,
              At, Goto, Finish, Leave, Begin, db, world, Enrolled, Matches, AwaitPoints,
              Busy, Creating, Deleting, Accepting, Certified, Revoking
  <1>1. ASSUME CreateInsert(r) PROVE IInv'
    <2>1. CASE job[r].cs \in Enrolled
      <3>1. TypeOK'
        BY <1>1, <2>1, NoJobType DEF CreateInsert
      <3>2. RowInv'
        BY <1>1, <2>1 DEF CreateInsert
      <3>3. OneCreator' /\ CreatorInv' /\ DeleterInv'
        BY SMTT(30), <1>1, <2>1 DEF CreateInsert
      <3>4. SnapshotInv'
        BY <1>1, <2>1 DEF CreateInsert
      <3>5. DecisionIsAttributed' /\ RevokedIsDeleted' /\ LinkedHasKcUser'
        BY <1>1, <2>1 DEF CreateInsert
      <3> QED
        BY <3>1, <3>2, <3>3, <3>4, <3>5
    <2>2. CASE job[r].cs \notin Enrolled
      <3>1. TypeOK'
        BY <1>1, <2>2, NoJobType DEF CreateInsert, EnrollmentRow, NoRow
      <3>2. RowInv'
        BY <1>1, <2>2 DEF CreateInsert, EnrollmentRow, NoRow
      <3>3. OneCreator' /\ CreatorInv' /\ DeleterInv'
        BY SMTT(30), <1>1, <2>2 DEF CreateInsert, EnrollmentRow, NoRow
      <3>4. SnapshotInv'
        BY <1>1, <2>2 DEF CreateInsert, EnrollmentRow, NoRow
      <3>5. DecisionIsAttributed'
        BY <1>1, <2>2 DEF CreateInsert
      <3>6. RevokedIsDeleted' /\ LinkedHasKcUser'
        BY <1>1 DEF CreateInsert
      <3> QED
        BY <3>1, <3>2, <3>3, <3>4, <3>5, <3>6
    <2> QED
      BY <2>1, <2>2
  <1>2. ASSUME AcceptCheck(r) PROVE IInv'
    <2>1. CASE pc'[r] = "idle"
      <3>0. job' = job \/ job' = [job EXCEPT ![r] = NoJob]
        BY <1>2 DEF AcceptCheck
      <3>1. TypeOK'
        <4>1. job' \in [Requests -> Jobs]
          BY <3>0, NoJobType
        <4>2. pc' = [pc EXCEPT ![r] = "idle"] /\ UNCHANGED <<db, world, failures>>
          BY <1>2, <2>1 DEF AcceptCheck
        <4>3. \A q \in Requests : pc'[q] # "idle" => job'[q].cs \in Callsigns
          BY <3>0, <4>2
        <4> QED
          BY <4>1, <4>2, <4>3
      <3>2. RowInv'
        BY <1>2, <2>1 DEF AcceptCheck
      <3>3. OneCreator' /\ CreatorInv' /\ DeleterInv'
        BY SMTT(30), <1>2, <2>1 DEF AcceptCheck
      <3>4. SnapshotInv'
        BY <1>2, <2>1 DEF AcceptCheck
      <3>5. DecisionIsAttributed' /\ RevokedIsDeleted' /\ LinkedHasKcUser'
        BY <1>2, <2>1 DEF AcceptCheck
      <3> QED
        BY <3>1, <3>2, <3>3, <3>4, <3>5
    <2>2. CASE pc'[r] # "idle"
      <3>1. TypeOK'
        BY SMTT(30), <1>2, <2>2, NoJobType DEF AcceptCheck
      <3>2. RowInv'
        BY <1>2, <2>2 DEF AcceptCheck
      <3>3. OneCreator' /\ CreatorInv' /\ DeleterInv'
        BY <1>2, <2>2 DEF AcceptCheck
      <3>4. SnapshotInv'
        BY <1>2, <2>2 DEF AcceptCheck
      <3>5. DecisionIsAttributed' /\ RevokedIsDeleted' /\ LinkedHasKcUser'
        BY <1>2, <2>2 DEF AcceptCheck
      <3> QED
        BY <3>1, <3>2, <3>3, <3>4, <3>5
    <2> QED
      BY <2>1, <2>2
  <1>3. ASSUME AcceptInsert(r) PROVE IInv'
    <2>1. CASE job[r].cs \in users
      <3>1. TypeOK'
        BY <1>3, <2>1, NoJobType DEF AcceptInsert
      <3>2. RowInv'
        BY <1>3, <2>1 DEF AcceptInsert
      <3>3. OneCreator' /\ CreatorInv' /\ DeleterInv'
        BY <1>3, <2>1 DEF AcceptInsert
      <3>4. SnapshotInv'
        BY <1>3, <2>1 DEF AcceptInsert
      <3>5. DecisionIsAttributed' /\ RevokedIsDeleted' /\ LinkedHasKcUser'
        BY <1>3, <2>1 DEF AcceptInsert
      <3> QED
        BY <3>1, <3>2, <3>3, <3>4, <3>5
    <2>2. CASE job[r].cs \notin users
      <3>1. TypeOK'
        BY <1>3, <2>2, NoJobType DEF AcceptInsert
      <3>2. RowInv'
        BY <1>3, <2>2 DEF AcceptInsert
      <3>3. OneCreator' /\ CreatorInv' /\ DeleterInv'
        BY <1>3, <2>2 DEF AcceptInsert
      <3>4. SnapshotInv'
        BY <1>3, <2>2 DEF AcceptInsert
      <3>5. DecisionIsAttributed' /\ RevokedIsDeleted' /\ LinkedHasKcUser'
        BY <1>3, <2>2 DEF AcceptInsert
      <3> QED
        BY <3>1, <3>2, <3>3, <3>4, <3>5
    <2> QED
      BY <2>1, <2>2
  <1>4. ASSUME CaSign(r) PROVE IInv'
    <2>1. TypeOK'
      BY <1>4 DEF CaSign
    <2>2. RowInv' /\ OneCreator' /\ CreatorInv' /\ DeleterInv'
      BY <1>4 DEF CaSign
    <2>3. SnapshotInv'
      BY <1>4 DEF CaSign
    <2>4. DecisionIsAttributed' /\ RevokedIsDeleted' /\ LinkedHasKcUser'
      BY <1>4 DEF CaSign
    <2> QED
      BY <2>1, <2>2, <2>3, <2>4
  <1>5. ASSUME AcceptCert(r) PROVE IInv'
    <2>1. TypeOK'
      BY <1>5 DEF AcceptCert
    <2>2. RowInv' /\ OneCreator' /\ CreatorInv' /\ DeleterInv'
      BY <1>5 DEF AcceptCert
    <2>3. SnapshotInv'
      BY <1>5 DEF AcceptCert
    <2>4. DecisionIsAttributed' /\ RevokedIsDeleted' /\ LinkedHasKcUser'
      BY <1>5 DEF AcceptCert
    <2> QED
      BY <2>1, <2>2, <2>3, <2>4
  <1>6. ASSUME KcCreate(r) PROVE IInv'
    <2>1. CASE Matches(kcusers, job[r].cs) = {}
      <3>1. TypeOK'
        BY <1>6, <2>1, NoJobType DEF KcCreate
      <3>2. RowInv'
        BY <1>6, <2>1 DEF KcCreate
      <3>3. OneCreator' /\ CreatorInv' /\ DeleterInv'
        BY <1>6, <2>1 DEF KcCreate
      <3>4. SnapshotInv'
        BY <1>6, <2>1 DEF KcCreate
      <3>5. DecisionIsAttributed' /\ RevokedIsDeleted' /\ LinkedHasKcUser'
        BY <1>6, <2>1 DEF KcCreate
      <3> QED
        BY <3>1, <3>2, <3>3, <3>4, <3>5
    <2>2. CASE Matches(kcusers, job[r].cs) # {}
      <3>1. TypeOK'
        BY <1>6, <2>2, NoJobType, SMTT(30) DEF KcCreate
      <3>2. RowInv'
        BY <1>6, <2>2 DEF KcCreate
      <3>3. OneCreator' /\ CreatorInv' /\ DeleterInv'
        BY <1>6, <2>2 DEF KcCreate
      <3>4. SnapshotInv'
        BY <1>6, <2>2 DEF KcCreate
      <3>5. DecisionIsAttributed' /\ RevokedIsDeleted' /\ LinkedHasKcUser'
        BY <1>6, <2>2 DEF KcCreate
      <3> QED
        BY <3>1, <3>2, <3>3, <3>4, <3>5
    <2> QED
      BY <2>1, <2>2
  <1>7. ASSUME AcceptKcReply(r) PROVE IInv'
    <2>1. TypeOK'
      BY <1>7 DEF AcceptKcReply
    <2>2. RowInv' /\ OneCreator' /\ CreatorInv' /\ DeleterInv'
      BY <1>7 DEF AcceptKcReply
    <2>3. SnapshotInv'
      BY <1>7 DEF AcceptKcReply
    <2>4. DecisionIsAttributed' /\ RevokedIsDeleted' /\ LinkedHasKcUser'
      BY <1>7 DEF AcceptKcReply
    <2> QED
      BY <2>1, <2>2, <2>3, <2>4
  <1>8. ASSUME AcceptLink(r) PROVE IInv'
    <2>1. TypeOK'
      BY <1>8 DEF AcceptLink
    <2>2. RowInv' /\ OneCreator' /\ CreatorInv' /\ DeleterInv'
      BY <1>8 DEF AcceptLink
    <2>3. SnapshotInv'
      BY <1>8 DEF AcceptLink
    <2>4. DecisionIsAttributed' /\ RevokedIsDeleted' /\ LinkedHasKcUser'
      BY <1>8 DEF AcceptLink
    <2> QED
      BY <2>1, <2>2, <2>3, <2>4
  <1>9. ASSUME AcceptCommit(r) PROVE IInv'
    <2> DEFINE row == Approved(enrollment[job[r].cs], job[r].seen, job[r].by)
    <2>1. row \in EnrollmentRow
      BY SMTT(30), <1>9, WriteTypes DEF AcceptCommit, NoRow
    <2>2. enrollment' = [enrollment EXCEPT ![job[r].cs] = row]
      BY <1>9 DEF AcceptCommit
    <2>3. TypeOK'
      <3> HIDE DEF row
      <3> QED
        BY <1>9, <2>1, <2>2, NoJobType DEF AcceptCommit
    <2>4. RowInv' /\ OneCreator' /\ CreatorInv' /\ DeleterInv'
      BY SMTT(30), <1>9 DEF AcceptCommit, Approved, Dirty, EnrollmentRow, States, NoRow
    <2>5. SnapshotInv'
      BY SMTT(30), <1>9 DEF AcceptCommit, Approved, Dirty, EnrollmentRow, States, NoRow
    <2>6. DecisionIsAttributed' /\ RevokedIsDeleted' /\ LinkedHasKcUser'
      BY SMTT(30), <1>9 DEF AcceptCommit, Approved, Dirty, EnrollmentRow, States, NoRow
    <2> QED
      BY <2>3, <2>4, <2>5, <2>6
  <1> QED
    BY <1>1, <1>2, <1>3, <1>4, <1>5, <1>6, <1>7, <1>8, <1>9

-------------------------------------------------------------------------------
(* The steps of locks and deletions preserve the invariant.                *)
LEMMA LockDeleteInv ==
  ASSUME IInv, NEW r \in Requests, UNCHANGED home,
         \/ LockCommit(r)
         \/ DeleteCheck(r) \/ DeleteBase(r) \/ DeleteMark(r)
         \/ CaRevoke(r) \/ DeleteRevoked(r) \/ KcDelete(r)
  PROVE  IInv'
  <1> USE DEF IInv, TypeOK, RowInv, OneCreator, CreatorInv, DeleterInv, SnapshotInv,
              DecisionIsAttributed, RevokedIsDeleted, LinkedHasKcUser,
              At, Goto, Finish, Leave, Begin, db, world, Enrolled, Matches, AwaitPoints,
              Busy, Creating, Deleting, Accepting, Certified, Revoking
  <1>1. ASSUME LockCommit(r) PROVE IInv'
    <2> DEFINE row == Rejected(enrollment[job[r].cs], job[r].seen, job[r].by)
    <2>1. row \in EnrollmentRow
      BY <1>1, WriteTypes DEF LockCommit, NoRow
    <2>2. enrollment' = [enrollment EXCEPT ![job[r].cs] = row]
      BY <1>1 DEF LockCommit
    <2>3. TypeOK'
      <3> HIDE DEF row
      <3> QED
        BY <1>1, <2>1, <2>2, NoJobType DEF LockCommit
    <2>4. RowInv' /\ OneCreator' /\ CreatorInv' /\ DeleterInv'
      BY SMTT(30), <1>1 DEF LockCommit, Rejected, Dirty, EnrollmentRow, States, NoRow
    <2>5. SnapshotInv'
      BY SMTT(30), <1>1 DEF LockCommit, Rejected, Dirty, EnrollmentRow, States, NoRow
    <2>6. DecisionIsAttributed' /\ RevokedIsDeleted' /\ LinkedHasKcUser'
      BY <1>1 DEF LockCommit, Rejected, Dirty, EnrollmentRow, States, NoRow
    <2> QED
      BY <2>3, <2>4, <2>5, <2>6
  <1>2. ASSUME DeleteCheck(r) PROVE IInv'
    <2>1. TypeOK'
      BY <1>2 DEF DeleteCheck
    <2>2. RowInv' /\ OneCreator' /\ CreatorInv' /\ DeleterInv'
      BY <1>2 DEF DeleteCheck
    <2>3. SnapshotInv'
      BY <1>2 DEF DeleteCheck
    <2>4. DecisionIsAttributed' /\ RevokedIsDeleted' /\ LinkedHasKcUser'
      BY <1>2 DEF DeleteCheck
    <2> QED
      BY <2>1, <2>2, <2>3, <2>4
  <1>3. ASSUME DeleteBase(r) PROVE IInv'
    <2>1. TypeOK'
      BY <1>3, NoJobType DEF DeleteBase
    <2>2. RowInv' /\ OneCreator' /\ CreatorInv' /\ DeleterInv'
      BY <1>3 DEF DeleteBase
    <2>3. SnapshotInv'
      BY <1>3 DEF DeleteBase
    <2>4. DecisionIsAttributed' /\ RevokedIsDeleted' /\ LinkedHasKcUser'
      BY <1>3 DEF DeleteBase
    <2> QED
      BY <2>1, <2>2, <2>3, <2>4
  <1>4. ASSUME DeleteMark(r) PROVE IInv'
    <2> DEFINE b == job[r].cs \in linked
               j == [job[r] EXCEPT !.kc = b]
    <2>1. b \in BOOLEAN
      OBVIOUS
    <2>2. j \in Jobs /\ j.cs = job[r].cs
      <3>1. job[r] \in Jobs
        OBVIOUS
      <3> HIDE DEF b
      <3> QED
        BY <2>1, <3>1, JobKc
    <2>3. job' = [job EXCEPT ![r] = j]
      BY <1>4 DEF DeleteMark
    <2>4. TypeOK'
      <3> HIDE DEF j
      <3> QED
        BY <1>4, <2>2, <2>3 DEF DeleteMark
    <2>5. RowInv' /\ OneCreator' /\ CreatorInv' /\ DeleterInv'
      BY <1>4 DEF DeleteMark, Jobs
    <2>6. SnapshotInv'
      BY <1>4 DEF DeleteMark, Jobs
    <2>7. DecisionIsAttributed' /\ RevokedIsDeleted' /\ LinkedHasKcUser'
      BY <1>4 DEF DeleteMark
    <2> QED
      BY <2>4, <2>5, <2>6, <2>7
  <1>5. ASSUME CaRevoke(r) PROVE IInv'
    <2>1. TypeOK'
      BY <1>5 DEF CaRevoke
    <2>2. RowInv' /\ OneCreator' /\ CreatorInv' /\ DeleterInv'
      BY <1>5 DEF CaRevoke
    <2>3. SnapshotInv'
      BY <1>5 DEF CaRevoke
    <2>4. DecisionIsAttributed' /\ RevokedIsDeleted' /\ LinkedHasKcUser'
      BY <1>5 DEF CaRevoke
    <2> QED
      BY <2>1, <2>2, <2>3, <2>4
  <1>6. ASSUME DeleteRevoked(r) PROVE IInv'
    <2>1. CASE job[r].kc
      <3>1. TypeOK'
        BY <1>6, <2>1, NoJobType DEF DeleteRevoked
      <3>2. RowInv'
        BY <1>6, <2>1 DEF DeleteRevoked
      <3>3. OneCreator' /\ CreatorInv' /\ DeleterInv'
        BY <1>6, <2>1 DEF DeleteRevoked
      <3>4. SnapshotInv'
        BY <1>6, <2>1 DEF DeleteRevoked
      <3>5. DecisionIsAttributed' /\ RevokedIsDeleted' /\ LinkedHasKcUser'
        BY <1>6, <2>1 DEF DeleteRevoked
      <3> QED
        BY <3>1, <3>2, <3>3, <3>4, <3>5
    <2>2. CASE ~job[r].kc
      <3>1. TypeOK'
        BY SMTT(30), <1>6, <2>2, NoJobType DEF DeleteRevoked
      <3>2. RowInv'
        BY <1>6, <2>2 DEF DeleteRevoked
      <3>3. OneCreator' /\ CreatorInv' /\ DeleterInv'
        BY <1>6, <2>2 DEF DeleteRevoked
      <3>4. SnapshotInv'
        BY <1>6, <2>2 DEF DeleteRevoked
      <3>5. DecisionIsAttributed' /\ RevokedIsDeleted' /\ LinkedHasKcUser'
        BY <1>6, <2>2 DEF DeleteRevoked
      <3> QED
        BY <3>1, <3>2, <3>3, <3>4, <3>5
    <2> QED
      BY <2>1, <2>2
  <1>7. ASSUME KcDelete(r) PROVE IInv'
    <2>1. TypeOK'
      BY <1>7, NoJobType DEF KcDelete
    <2>2. RowInv' /\ OneCreator' /\ CreatorInv' /\ DeleterInv'
      BY <1>7 DEF KcDelete
    <2>3. SnapshotInv'
      BY <1>7 DEF KcDelete
    <2>4. DecisionIsAttributed' /\ RevokedIsDeleted' /\ LinkedHasKcUser'
      BY <1>7 DEF KcDelete
    <2> QED
      BY <2>1, <2>2, <2>3, <2>4
  <1> QED
    BY <1>1, <1>2, <1>3, <1>4, <1>5, <1>6, <1>7

-------------------------------------------------------------------------------
(* Failures, crashes and new approvecodes preserve the invariant.          *)
LEMMA FailureInv ==
  ASSUME IInv,
         \/ \E r \in Requests : CallFails(r)
         \/ \E c \in Callsigns : ResetApprovecode(c)
         \/ \E w \in Workers : WorkerCrash(w)
  PROVE  IInv'
  <1> USE DEF IInv, TypeOK, RowInv, OneCreator, CreatorInv, DeleterInv, SnapshotInv,
              DecisionIsAttributed, RevokedIsDeleted, LinkedHasKcUser,
              At, Goto, Finish, Leave, Begin, db, world, Enrolled, Matches, AwaitPoints,
              Busy, Creating, Deleting, Accepting, Certified, Revoking
  <1>1. ASSUME NEW r \in Requests, CallFails(r) PROVE IInv'
    <2>1. TypeOK'
      BY <1>1, NoJobType DEF CallFails
    <2>2. RowInv' /\ OneCreator' /\ CreatorInv' /\ DeleterInv'
      BY <1>1 DEF CallFails
    <2>3. SnapshotInv'
      BY <1>1 DEF CallFails
    <2>4. DecisionIsAttributed' /\ RevokedIsDeleted' /\ LinkedHasKcUser'
      BY <1>1 DEF CallFails
    <2> QED
      BY <2>1, <2>2, <2>3, <2>4
  <1>2. ASSUME NEW c \in Callsigns, ResetApprovecode(c) PROVE IInv'
    <2>1. TypeOK'
      BY <1>2 DEF ResetApprovecode, EnrollmentRow, NoRow, Codes
    <2>2. RowInv' /\ OneCreator' /\ CreatorInv' /\ DeleterInv'
      BY <1>2 DEF ResetApprovecode, EnrollmentRow, NoRow
    <2>3. SnapshotInv'
      BY <1>2 DEF ResetApprovecode, EnrollmentRow, NoRow
    <2>4. DecisionIsAttributed' /\ RevokedIsDeleted' /\ LinkedHasKcUser'
      BY <1>2 DEF ResetApprovecode, EnrollmentRow, NoRow
    <2> QED
      BY <2>1, <2>2, <2>3, <2>4
  <1>3. ASSUME NEW w \in Workers, WorkerCrash(w) PROVE IInv'
    <2>1. TypeOK'
      BY <1>3, NoJobType DEF WorkerCrash, Dies
    <2>2. RowInv' /\ OneCreator' /\ CreatorInv' /\ DeleterInv'
      BY <1>3 DEF WorkerCrash, Dies
    <2>3. SnapshotInv'
      BY <1>3 DEF WorkerCrash, Dies
    <2>4. DecisionIsAttributed' /\ RevokedIsDeleted' /\ LinkedHasKcUser'
      BY <1>3 DEF WorkerCrash, Dies
    <2> QED
      BY <2>1, <2>2, <2>3, <2>4
  <1> QED
    BY <1>1, <1>2, <1>3

-------------------------------------------------------------------------------
(* Every step preserves the invariant.                                     *)
LEMMA NextInv == IInv /\ [Next]_vars => IInv'
  <1> SUFFICES ASSUME IInv, [Next]_vars PROVE IInv'
    OBVIOUS
  <1>1. ASSUME NEW r \in Requests, Arrive(r) PROVE IInv'
    BY <1>1, ArriveInv
  <1>2. ASSUME NEW r \in Requests, Advance(r) PROVE IInv'
    BY <1>2, AcceptInv, LockDeleteInv DEF Advance
  <1>3. ASSUME UNCHANGED vars PROVE IInv'
    BY <1>3 DEF vars, db, world, IInv, TypeOK, RowInv, OneCreator, CreatorInv, DeleterInv,
                SnapshotInv, DecisionIsAttributed, RevokedIsDeleted, LinkedHasKcUser, Enrolled
  <1> QED
    BY <1>1, <1>2, <1>3, FailureInv DEF Next

(* The inductive invariant holds in every reachable state of the handlers. *)
THEOREM Invariance == Spec => []IInv
  BY InitInv, NextInv, PTL DEF Spec

(* Every table, file and local variable has the type it is declared with:  *)
(* in particular certificates, Keycloak users and deletions only exist for *)
(* rows of the users table.                                                *)
THEOREM TypeCorrect == Spec => []TypeOK
  <1>1. IInv => TypeOK
    BY DEF IInv
  <1> QED
    BY <1>1, Invariance, PTL

(* The CA is asked for at most one certificate per callsign, however many  *)
(* approvals race, fail or are retried (Person.create_with_cert).          *)
THEOREM CertificateOnce == Spec => []SignedOnce
  <1>1. IInv => SignedOnce
    BY DEF IInv, RowInv, SignedOnce
  <1> QED
    BY <1>1, Invariance, PTL

(* An approved enrollment refers to a person with a signed certificate on  *)
(* disk (Enrollment.approve).                                              *)
THEOREM ApprovalIsBacked == Spec => []ApprovedHasCertificate
  <1>1. IInv => ApprovedHasCertificate
    BY DEF IInv, TypeOK, RowInv, ApprovedHasCertificate
  <1> QED
    BY <1>1, Invariance, PTL

(* Whatever stale copies approve and reject write, a decision and its      *)
(* decider are stored together.                                            *)
THEOREM DecisionAttributed == Spec => []DecisionIsAttributed
  <1>1. IInv => DecisionIsAttributed
    BY DEF IInv
  <1> QED
    BY <1>1, Invariance, PTL

(* Only the certificate of a deleted person is ever revoked (revoke).      *)
THEOREM RevocationFollowsDeletion == Spec => []RevokedIsDeleted
  <1>1. IInv => RevokedIsDeleted
    BY DEF IInv
  <1> QED
    BY <1>1, Invariance, PTL

(* A live person with a stored kc_uuid has its Keycloak user.              *)
THEOREM LinkIsBacked == Spec => []LinkedHasKcUser
  <1>1. IInv => LinkedHasKcUser
    BY DEF IInv
  <1> QED
    BY <1>1, Invariance, PTL

-------------------------------------------------------------------------------
(* The workers are finitely many, and so are those that enroll a spelling. *)
LEMMA ServingFinite ==
  ASSUME TypeOK, NEW S \in SUBSET Serving
  PROVE  IsFiniteSet(S) /\ Cardinality(S) \in Nat /\ Cardinality(S) <= Cardinality(Serving)
  <1>1. Serving \subseteq Workers
    BY DEF TypeOK, Serving
  <1>2. IsFiniteSet(Serving)
    BY <1>1, FS_Subset
  <1> QED
    BY <1>2, FS_Subset, FS_CardinalityType

(* Enrolling names serving workers only.                                   *)
LEMMA EnrollingServes == ASSUME NEW c PROVE Enrolling(c) \subseteq Serving
  BY DEF Enrolling, Inserting, Serving

(* A step that enrolls nobody and checks no new callsign keeps spellings   *)
(* counted.                                                                *)
LEMMA SameSpellings ==
  ASSUME TypeOK, SpellingInv, home' = home, Enrolled' = Enrolled,
         \A q \in Requests : pc'[q] = "init_insert" => pc[q] = "init_insert" /\ job'[q].cs = job[q].cs
  PROVE  SpellingInv'
  <1>1. /\ Inserting' \subseteq Inserting /\ Serving' = Serving
        /\ \A q \in Inserting' : q \in Inserting /\ job'[q].cs = job[q].cs
    BY DEF Inserting, Serving
  <1>2. \A r, q \in Inserting' : home'[r] = home'[q] => r = q
    BY <1>1 DEF SpellingInv
  <1>3. ASSUME NEW c \in Callsigns
        PROVE  (/\ IsFiniteSet(Matches(Enrolled, c))
                /\ Cardinality(Matches(Enrolled, c)) + Cardinality(Enrolling(c))
                     <= Cardinality(Serving))'
    <2>1. Matches(Enrolled, c)' = Matches(Enrolled, c)
      BY DEF Matches
    <2>2. Enrolling(c)' \subseteq Enrolling(c)
      BY <1>1 DEF Enrolling
    <2>3. IsFiniteSet(Enrolling(c)) /\ IsFiniteSet(Matches(Enrolled, c))
      BY EnrollingServes, ServingFinite DEF SpellingInv
    <2>4. IsFiniteSet(Enrolling(c)') /\ Cardinality(Enrolling(c)') <= Cardinality(Enrolling(c))
      BY <2>2, <2>3, FS_Subset
    <2>5. /\ Cardinality(Enrolling(c)') \in Nat /\ Cardinality(Enrolling(c)) \in Nat
          /\ Cardinality(Matches(Enrolled, c)) \in Nat /\ Cardinality(Serving) \in Nat
      BY <2>3, <2>4, FS_CardinalityType, ServingFinite
    <2>6. Cardinality(Matches(Enrolled, c)) + Cardinality(Enrolling(c)) <= Cardinality(Serving)
      BY DEF SpellingInv
    <2> QED
      BY <1>1, <2>1, <2>3, <2>4, <2>5, <2>6
  <1> QED
    BY <1>2, <1>3 DEF SpellingInv

(* What approve and reject write is a decided row.                         *)
LEMMA WritesKeepRows ==
  \A row, seen \in EnrollmentRow, a \in Admins :
    Approved(row, seen, a).state \in States /\ Rejected(row, seen, a).state \in States
  BY WriteTypes DEF EnrollmentRow

(* The handlers that write an enrollment back enroll nobody.               *)
LEMMA CommitSpellings ==
  ASSUME IInv, SpellingInv, home' = home, NEW r \in Requests, AcceptCommit(r) \/ LockCommit(r)
  PROVE  SpellingInv'
  <1> DEFINE c == job[r].cs
  <1>1. /\ c \in Enrolled /\ enrollment[c] \in EnrollmentRow
        /\ job[r].seen \in EnrollmentRow /\ job[r].by \in Admins
    BY SMTT(30) DEF IInv, TypeOK, SnapshotInv, AcceptCommit, LockCommit, At, Accepting, Creating,
                    Enrolled, NoRow
  <1>2. \E row \in EnrollmentRow :
          row.state \in States /\ enrollment' = [enrollment EXCEPT ![c] = row]
    BY <1>1, WriteTypes, WritesKeepRows DEF AcceptCommit, LockCommit
  <1>3. Enrolled' = Enrolled
    BY <1>1, <1>2, SMTT(30) DEF IInv, TypeOK, Enrolled, States
  <1>4. \A q \in Requests : pc'[q] = "init_insert" => pc[q] = "init_insert" /\ job'[q].cs = job[q].cs
    BY SMTT(30) DEF IInv, TypeOK, AcceptCommit, LockCommit, Finish, Leave, Goto
  <1> QED
    BY <1>3, <1>4, SameSpellings DEF IInv

(* The check of a new callsign finds no spelling of it enrolled.           *)
LEMMA CheckSpellings ==
  ASSUME IInv, SpellingInv, home' = home, NEW r \in Requests, NEW c \in Callsigns,
         NEW extra \in Extras, CreateCheck(r, c, extra)
  PROVE  SpellingInv'
  <1> DEFINE j == Job(c, Nobody, NewRow(extra))
  <1>1. j.cs = c
    BY JobType, NewRowType
  <1>2. /\ pc' = [pc EXCEPT ![r] = "init_insert"] /\ job' = [job EXCEPT ![r] = j]
        /\ enrollment' = enrollment /\ Matches(Enrolled, c) = {}
    BY DEF CreateCheck, Begin, Goto, db
  <1> HIDE DEF j
  <1>3. Enrolled' = Enrolled
    BY <1>2 DEF Enrolled
  <1>4. /\ Inserting' = Inserting \cup {r} /\ job'[r].cs = c
        /\ \A q \in Inserting : q # r /\ job'[q] = job[q] /\ home[q] # home[r]
    BY <1>1, <1>2, SMTT(30) DEF IInv, TypeOK, Inserting, CreateCheck, Begin, At, MayRun, LoopIsFree,
       AwaitPoints
  <1>5. \A p, q \in Inserting' : home'[p] = home'[q] => p = q
    BY <1>4 DEF SpellingInv
  <1>6. Serving' = Serving
    BY DEF Serving
  <1>7. ASSUME NEW d \in Callsigns
        PROVE  (/\ IsFiniteSet(Matches(Enrolled, d))
                /\ Cardinality(Matches(Enrolled, d)) + Cardinality(Enrolling(d))
                     <= Cardinality(Serving))'
    <2>1. Matches(Enrolled, d)' = Matches(Enrolled, d)
      BY <1>3 DEF Matches
    <2>2. CASE Fold[d] = Fold[c]
      <3>1. Matches(Enrolled, d) = {} /\ Cardinality({}) = 0 /\ IsFiniteSet({})
        BY <1>2, <2>2, FS_EmptySet DEF Matches
      <3>2. Enrolling(d)' \subseteq Serving
        BY EnrollingServes, <1>6 DEF Enrolling, Inserting, Serving
      <3>3. Cardinality(Enrolling(d)') \in Nat /\ Cardinality(Enrolling(d)') <= Cardinality(Serving)
        BY <3>2, ServingFinite DEF IInv
      <3> QED
        BY <1>6, <2>1, <3>1, <3>3
    <2>3. CASE Fold[d] # Fold[c]
      <3>1. Enrolling(d)' = Enrolling(d)
        BY <1>4, <2>3 DEF Enrolling
      <3> QED
        BY <1>6, <2>1, <3>1 DEF SpellingInv
    <2> QED
      BY <2>2, <2>3
  <1> QED
    BY <1>5, <1>7 DEF SpellingInv

(* The INSERT enrolls a spelling, and its worker is not about to any more. *)
LEMMA InsertSpellings ==
  ASSUME IInv, SpellingInv, home' = home, NEW r \in Requests, CreateInsert(r)
  PROVE  SpellingInv'
  <1>0. PICK c \in Callsigns : c = job[r].cs
    BY DEF CreateInsert, At, IInv, TypeOK
  <1>1. /\ pc[r] = "init_insert"
        /\ pc' = [pc EXCEPT ![r] = "idle"] /\ job' = [job EXCEPT ![r] = NoJob]
    BY DEF CreateInsert, At, Finish, Leave, Goto
  <1>2. \A q \in Requests : pc'[q] = "init_insert" => q # r /\ pc[q] = "init_insert" /\ job'[q] = job[q]
    BY <1>1, SMTT(30) DEF IInv, TypeOK
  <1>3. CASE enrollment' = enrollment
    BY <1>2, <1>3, SameSpellings DEF Enrolled, IInv
  <1>4. CASE enrollment' # enrollment
    <2>1. Enrolled' \subseteq Enrolled \cup {c} /\ Enrolled \subseteq Enrolled'
      BY <1>0, <1>1, <1>4, SMTT(30) DEF CreateInsert, Enrolled, IInv, TypeOK, SnapshotInv, EnrollmentRow, States
    <2>2. r \in Inserting /\ Inserting' \subseteq Inserting /\ Serving' = Serving
      BY <1>1, <1>2 DEF Inserting, Serving
    <2>3. \A q \in Inserting' : q \in Inserting /\ job'[q].cs = job[q].cs /\ home'[q] # home[r]
      BY <1>2, <2>2 DEF Inserting, SpellingInv
    <2>4. \A p, q \in Inserting' : home'[p] = home'[q] => p = q
      BY <2>2 DEF SpellingInv
    <2>5. ASSUME NEW d \in Callsigns
          PROVE  (/\ IsFiniteSet(Matches(Enrolled, d))
                  /\ Cardinality(Matches(Enrolled, d)) + Cardinality(Enrolling(d))
                       <= Cardinality(Serving))'
      <3>1. /\ IsFiniteSet(Matches(Enrolled, d)) /\ IsFiniteSet(Enrolling(d))
            /\ Cardinality(Matches(Enrolled, d)) + Cardinality(Enrolling(d)) <= Cardinality(Serving)
        BY EnrollingServes, ServingFinite DEF SpellingInv, IInv
      <3>2. /\ Cardinality(Matches(Enrolled, d)) \in Nat /\ Cardinality(Enrolling(d)) \in Nat
            /\ Cardinality(Serving) \in Nat
        BY <3>1, FS_CardinalityType, ServingFinite DEF IInv
      <3>3. Enrolling(d)' \subseteq Enrolling(d)
        BY <2>3 DEF Enrolling
      <3>4. CASE Fold[d] = Fold[c]
        <4>1. home[r] \in Enrolling(d) /\ Enrolling(d)' \subseteq Enrolling(d) \ {home[r]}
          BY <1>0, <2>2, <2>3, <3>3, <3>4 DEF Enrolling
        <4>2. /\ IsFiniteSet(Enrolling(d) \ {home[r]})
              /\ Cardinality(Enrolling(d) \ {home[r]}) = Cardinality(Enrolling(d)) - 1
          BY <3>1, <4>1, FS_RemoveElement
        <4>3. /\ Cardinality(Enrolling(d)') <= Cardinality(Enrolling(d)) - 1
              /\ Cardinality(Enrolling(d)') \in Nat
          BY <4>1, <4>2, FS_Subset, FS_CardinalityType
        <4>4. Matches(Enrolled, d)' \subseteq Matches(Enrolled, d) \cup {c}
          BY <2>1 DEF Matches
        <4>5. /\ IsFiniteSet(Matches(Enrolled, d) \cup {c})
              /\ Cardinality(Matches(Enrolled, d) \cup {c}) <= Cardinality(Matches(Enrolled, d)) + 1
          <5>1. CASE c \in Matches(Enrolled, d)
            <6>1. Matches(Enrolled, d) \cup {c} = Matches(Enrolled, d)
              BY <5>1
            <6> QED
              BY <3>1, <3>2, <6>1
          <5>2. CASE c \notin Matches(Enrolled, d)
            <6>1. /\ IsFiniteSet(Matches(Enrolled, d) \cup {c})
                  /\ Cardinality(Matches(Enrolled, d) \cup {c})
                       = Cardinality(Matches(Enrolled, d)) + 1
              BY <3>1, <5>2, FS_AddElement, Zenon
            <6> QED
              BY <3>2, <6>1
          <5> QED
            BY <5>1, <5>2
        <4>6. /\ IsFiniteSet(Matches(Enrolled, d)')
              /\ Cardinality(Matches(Enrolled, d)') <= Cardinality(Matches(Enrolled, d) \cup {c})
          BY <4>4, <4>5, FS_Subset
        <4>7. /\ Cardinality(Matches(Enrolled, d)') \in Nat
              /\ Cardinality(Matches(Enrolled, d) \cup {c}) \in Nat
          BY <4>5, <4>6, FS_CardinalityType
        <4> QED
          BY <2>2, <3>1, <3>2, <4>3, <4>5, <4>6, <4>7
      <3>5. CASE Fold[d] # Fold[c]
        <4>1. Matches(Enrolled, d)' = Matches(Enrolled, d)
          BY <2>1, <3>5 DEF Matches
        <4>2. IsFiniteSet(Enrolling(d)') /\ Cardinality(Enrolling(d)') <= Cardinality(Enrolling(d))
          BY <3>1, <3>3, FS_Subset
        <4>3. Cardinality(Enrolling(d)') \in Nat
          BY <4>2, FS_CardinalityType
        <4> QED
          BY <2>2, <3>1, <3>2, <4>1, <4>2, <4>3
      <3> QED
        BY <3>4, <3>5
    <2> QED
      BY <2>4, <2>5 DEF SpellingInv
  <1> QED
    BY <1>3, <1>4

(* Every step keeps the spellings counted.                                 *)
LEMMA SpellingStep == IInv /\ SpellingInv /\ [Next]_vars => SpellingInv'
  <1> SUFFICES ASSUME IInv, SpellingInv, [Next]_vars PROVE SpellingInv'
    OBVIOUS
  <1>0. home' = home
    BY DEF Next, Arrive, Advance, ResetApprovecode, WorkerCrash, Dies, CallFails, vars
  <1>1. ASSUME NEW r \in Requests, Arrive(r) PROVE SpellingInv'
    <2>1. ASSUME NEW c \in Callsigns, NEW extra \in Extras, CreateCheck(r, c, extra)
           PROVE  SpellingInv'
      BY <1>0, <2>1, CheckSpellings
    <2>2. ASSUME NEW c \in Callsigns, NEW a \in Admins,
                 \/ \E code \in Codes : AcceptLoad(r, c, a, code)
                 \/ LockLoad(r, c, a)
                 \/ DeleteLoad(r, c, a)
           PROVE  SpellingInv'
      <3>1. /\ enrollment' = enrollment
            /\ \E label \in {"acc_check", "lock_commit", "del_check"} : pc' = [pc EXCEPT ![r] = label]
            /\ \E j : job' = [job EXCEPT ![r] = j]
        BY <2>2 DEF AcceptLoad, LockLoad, DeleteLoad, Begin, Goto, db
      <3>2. \A q \in Requests :
              pc'[q] = "init_insert" => pc[q] = "init_insert" /\ job'[q].cs = job[q].cs
        BY <3>1, SMTT(30) DEF IInv, TypeOK
      <3> QED
        BY <1>0, <3>1, <3>2, SameSpellings DEF Enrolled, IInv
    <2> QED
      BY <1>1, <2>1, <2>2 DEF Arrive
  <1>2. ASSUME NEW r \in Requests, Advance(r) \/ CallFails(r) PROVE SpellingInv'
    <2>1. CASE CreateInsert(r)
      BY <1>0, <2>1, InsertSpellings
    <2>2. CASE AcceptCommit(r) \/ LockCommit(r)
      BY <1>0, <2>2, CommitSpellings
    <2>3. CASE ~CreateInsert(r) /\ ~AcceptCommit(r) /\ ~LockCommit(r)
      <3>1. /\ enrollment' = enrollment
            /\ pc[r] # "init_insert"
            /\ \E label \in Busy \cup {"idle"} :
                 label # "init_insert" /\ pc' = [pc EXCEPT ![r] = label]
            /\ \/ job' = job
               \/ \E j : job' = [job EXCEPT ![r] = j]
        BY <1>2, <2>3, SMTT(30)
           DEF Advance, CallFails, AcceptCheck, AcceptInsert, CaSign, AcceptCert, KcCreate,
               AcceptKcReply, AcceptLink, DeleteCheck, DeleteBase, DeleteMark, CaRevoke,
               DeleteRevoked, KcDelete, At, Goto, Finish, Leave, db, AwaitPoints, Busy, Creating, Deleting
      <3>2. \A q \in Requests :
              pc'[q] = "init_insert" => pc[q] = "init_insert" /\ job'[q].cs = job[q].cs
        BY <3>1, SMTT(30) DEF IInv, TypeOK
      <3> QED
        BY <1>0, <3>1, <3>2, SameSpellings DEF Enrolled, IInv
    <2> QED
      BY <2>1, <2>2, <2>3
  <1>3. ASSUME NEW c \in Callsigns, ResetApprovecode(c) PROVE SpellingInv'
    <2>1. Enrolled' = Enrolled
      BY <1>3, SMTT(30) DEF ResetApprovecode, Enrolled, IInv, TypeOK, EnrollmentRow, NoRow
    <2> QED
      BY <1>0, <1>3, <2>1, SameSpellings DEF ResetApprovecode, IInv
  <1>4. ASSUME NEW w \in Workers, WorkerCrash(w) PROVE SpellingInv'
    <2>1. \A q \in Requests :
            pc'[q] = "init_insert" => pc[q] = "init_insert" /\ job'[q].cs = job[q].cs
      BY <1>4, SMTT(30) DEF WorkerCrash, Dies
    <2> QED
      BY <1>0, <1>4, <2>1, SameSpellings DEF WorkerCrash, Dies, db, Enrolled, IInv
  <1>5. ASSUME UNCHANGED vars PROVE SpellingInv'
    BY <1>0, <1>5, SameSpellings DEF vars, db, Enrolled, IInv
  <1> QED
    BY <1>1, <1>2, <1>3, <1>4, <1>5 DEF Next

(* Nobody with the callsign of a product becomes a person.                 *)
LEMMA ReservedStep == IInv /\ ReservedInv /\ [Next]_vars => ReservedInv'
  <1> SUFFICES ASSUME IInv, ReservedInv, [Next]_vars PROVE ReservedInv'
    OBVIOUS
  <1> DEFINE Free(c) == c \notin ProductCNs \cup {ServiceCN}
  <1>1. ASSUME NEW r \in Requests, AcceptCheck(r) PROVE ReservedInv'
    BY <1>1, SMTT(30) DEF ReservedInv, AcceptCheck, At, Goto, Finish, Leave, db, IInv, TypeOK
  <1>2. ASSUME NEW r \in Requests, AcceptInsert(r) PROVE ReservedInv'
    BY <1>2, SMTT(30) DEF ReservedInv, AcceptInsert, At, Goto, Finish, Leave, IInv, TypeOK
  <1>3. ASSUME users' = users,
               \A q \in Requests :
                 pc'[q] = "acc_insert" => pc[q] = "acc_insert" /\ job'[q].cs = job[q].cs
        PROVE  ReservedInv'
    BY <1>3, SMTT(30) DEF ReservedInv
  <1>4. ASSUME NEW r \in Requests, ~AcceptCheck(r), ~AcceptInsert(r),
               Arrive(r) \/ Advance(r) \/ CallFails(r)
        PROVE  ReservedInv'
    <2>1. /\ users' = users
          /\ pc[r] # "acc_insert"
          /\ \E label \in Busy \cup {"idle"} :
               label # "acc_insert" /\ pc' = [pc EXCEPT ![r] = label]
          /\ \/ job' = job
             \/ \E j : job' = [job EXCEPT ![r] = j]
      <3>1. CASE Arrive(r)
        BY <3>1, SMTT(30) DEF Arrive, CreateCheck, AcceptLoad, LockLoad, DeleteLoad, Begin, At, Goto, db,
                              Busy, Creating, Deleting
      <3>2. CASE Advance(r) \/ CallFails(r)
        BY <1>4, <3>2, SMTT(30)
           DEF Advance, CallFails, CreateInsert, CaSign, AcceptCert, KcCreate, LockCommit,
               AcceptKcReply, AcceptLink, AcceptCommit, DeleteCheck, DeleteBase, DeleteMark, CaRevoke,
               DeleteRevoked, KcDelete, At, Goto, Finish, Leave, db, AwaitPoints, Busy, Creating, Deleting
      <3> QED
        BY <1>4, <3>1, <3>2
    <2>2. \A q \in Requests :
            pc'[q] = "acc_insert" => pc[q] = "acc_insert" /\ job'[q].cs = job[q].cs
      BY <2>1, SMTT(30) DEF IInv, TypeOK
    <2> QED
      BY <1>3, <2>1, <2>2
  <1>5. ASSUME NEW c \in Callsigns, ResetApprovecode(c) PROVE ReservedInv'
    BY <1>3, <1>5 DEF ResetApprovecode
  <1>6. ASSUME NEW w \in Workers, WorkerCrash(w) PROVE ReservedInv'
    BY <1>3, <1>6, SMTT(30) DEF WorkerCrash, Dies, db
  <1>7. ASSUME UNCHANGED vars PROVE ReservedInv'
    BY <1>3, <1>7 DEF vars, db
  <1> QED
    BY <1>1, <1>2, <1>4, <1>5, <1>6, <1>7 DEF Next, Advance

(* Both hold in every reachable state.                                     *)
LEMMA NamesInvariance == Spec => [](IInv /\ SpellingInv /\ ReservedInv)
  <1>1. ASSUME Init PROVE SpellingInv
    <2>1. \A c \in Callsigns : Matches(Enrolled, c) = {} /\ Enrolling(c) = {}
      BY <1>1 DEF Init, NoRequests, Matches, Enrolled, NoRow, Enrolling, Inserting
    <2>2. Cardinality({}) = 0 /\ IsFiniteSet({}) /\ Cardinality(Serving) \in Nat
      BY <1>1, InitInv, ServingFinite, FS_EmptySet DEF IInv
    <2>3. Inserting = {}
      BY <1>1 DEF Init, NoRequests, Inserting
    <2> QED
      BY <2>1, <2>2, <2>3 DEF SpellingInv
  <1>2. Init => ReservedInv
    BY DEF Init, NoRequests, ReservedInv
  <1> QED
    BY <1>1, <1>2, InitInv, NextInv, SpellingStep, ReservedStep, PTL DEF Spec

(* However many workers race to enroll it, a callsign has no more          *)
(* spellings than they are (Enrollment.create_for_callsign).               *)
THEOREM OneSpelling == Spec => []SpellingsPerWorker
  <1>1. IInv /\ SpellingInv => SpellingsPerWorker
    <2> SUFFICES ASSUME IInv, SpellingInv, NEW c \in Callsigns
                 PROVE  Cardinality(Matches(Enrolled, c)) <= Cardinality(Serving)
      BY DEF SpellingsPerWorker
    <2>1. /\ Cardinality(Matches(Enrolled, c)) \in Nat /\ Cardinality(Enrolling(c)) \in Nat
          /\ Cardinality(Serving) \in Nat
      BY EnrollingServes, ServingFinite, FS_CardinalityType DEF SpellingInv, IInv
    <2> QED
      BY <2>1 DEF SpellingInv
  <1> QED
    BY <1>1, NamesInvariance, PTL

(* The proxy is told the truth about a person, or about one of its fewer   *)
(* than Cardinality(Serving) doubles (_is_valid).                          *)
THEOREM ValidityIsTruth == Spec => []ValidIsLive
  <1>1. IInv /\ SpellingInv /\ ReservedInv /\ SpellingsPerWorker => ValidIsLive
    <2> SUFFICES ASSUME IInv, SpellingInv, ReservedInv, SpellingsPerWorker, NEW c \in users
                 PROVE  /\ Cardinality(Matches(users, c) \ {c}) < Cardinality(Serving)
                        /\ \A valid \in BOOLEAN :
                             IsValid(c, valid) <=>
                               \/ valid = (c \notin deleted)
                               \/ \E d \in Matches(users, c) \ {c} : valid = (d \notin deleted)
      BY DEF ValidIsLive
    <2>1. c \notin ProductCNs \cup {ServiceCN}
      BY DEF ReservedInv
    <2>2. c \in Matches(users, c)
      BY DEF Matches
    <2>3. Matches(users, c) \subseteq Matches(Enrolled, c) /\ c \in Callsigns
      BY DEF IInv, TypeOK, RowInv, Matches
    <2>4. Cardinality(Matches(users, c) \ {c}) < Cardinality(Serving)
      <3>1. IsFiniteSet(Matches(Enrolled, c))
        BY <2>3 DEF SpellingInv
      <3>2. /\ IsFiniteSet(Matches(users, c))
            /\ Cardinality(Matches(users, c)) <= Cardinality(Matches(Enrolled, c))
        BY <2>3, <3>1, FS_Subset
      <3>3. Cardinality(Matches(users, c) \ {c}) = Cardinality(Matches(users, c)) - 1
        BY <2>2, <3>2, FS_RemoveElement
      <3>4. Cardinality(Matches(Enrolled, c)) <= Cardinality(Serving)
        BY <2>3 DEF SpellingsPerWorker
      <3>5. /\ Cardinality(Matches(users, c)) \in Nat /\ Cardinality(Matches(Enrolled, c)) \in Nat
            /\ Cardinality(Serving) \in Nat
        BY <3>1, <3>2, FS_CardinalityType, ServingFinite DEF IInv
      <3> QED
        BY <3>2, <3>3, <3>4, <3>5
    <2>5. ASSUME NEW valid \in BOOLEAN
          PROVE  IsValid(c, valid) <=>
                   \/ valid = (c \notin deleted)
                   \/ \E d \in Matches(users, c) \ {c} : valid = (d \notin deleted)
      <3>1. Matches(users, c) # {}
        BY <2>2
      <3>2. IsValid(c, valid) <=> \E p \in Matches(users, c) : valid = (p \notin deleted)
        BY <2>1, <3>1, ZenonT(30) DEF IsValid
      <3> QED
        BY <2>2, <3>2, ZenonT(30)
    <2> QED
      BY <2>4, <2>5
  <1> QED
    BY <1>1, OneSpelling, NamesInvariance, PTL

-------------------------------------------------------------------------------
(* Those whose Keycloak user is still to be created have none.             *)
CreatorsAreNew ==
  \A r \in Requests : pc[r] \in {"acc_sign", "acc_signed", "acc_kc"} => job[r].cs \notin kcusers

(* Whoever was in hand stays so, if its accept goes on, or ends with the   *)
(* reference to the person or because of another spelling of it.           *)
LEMMA InHandFrame ==
  ASSUME InsertedIsInHand, UNCHANGED failures, users \subseteq users',
         \A c \in users' \ users : \E r \in Requests : pc'[r] \in Creating /\ job'[r].cs = c,
         \A c \in users : enrollment[c].person => enrollment'[c].person,
         \A r \in Requests : pc[r] \in Creating /\ job[r].cs \in users =>
           \/ pc'[r] \in Creating /\ job'[r].cs = job[r].cs
           \/ enrollment'[job[r].cs].person
           \/ Matches(users, job[r].cs) # {job[r].cs}
  PROVE  InsertedIsInHand'
  <1> SUFFICES ASSUME failures = 0, NEW c \in users', ~enrollment'[c].person,
                      Matches(users', c) = {c}
               PROVE  \E r \in Requests : pc'[r] \in Creating /\ job'[r].cs = c
    BY DEF InsertedIsInHand
  <1>1. CASE c \in users
    <2>1. Matches(users, c) = {c}
      BY <1>1 DEF Matches
    <2>2. PICK r \in Requests : pc[r] \in Creating /\ job[r].cs = c
      BY <1>1, <2>1 DEF InsertedIsInHand
    <2> QED
      BY <1>1, <2>1, <2>2
  <1>2. CASE c \notin users
    BY <1>2
  <1> QED
    BY <1>1, <1>2

(* No step removes the reference to a person.                              *)
LEMMA ReferenceStays ==
  ASSUME IInv, [Next]_vars, NEW c \in users, enrollment[c].person
  PROVE  enrollment'[c].person
  <1> USE DEF IInv, TypeOK, RowInv
  <1>1. c \in Callsigns /\ c \in Enrolled
    OBVIOUS
  <1>2. ASSUME NEW r \in Requests, CreateInsert(r) PROVE enrollment'[c].person
    BY <1>1, <1>2, SMTT(30) DEF CreateInsert
  <1>3. ASSUME NEW r \in Requests, AcceptCommit(r) \/ LockCommit(r) PROVE enrollment'[c].person
    <2> DEFINE d == job[r].cs
    <2>1. d \in Callsigns /\ pc[r] \in {"acc_commit", "lock_commit"}
      BY <1>3, SMTT(30) DEF AcceptCommit, LockCommit, At
    <2>2. enrollment[d] \in EnrollmentRow
      BY <2>1, SMTT(30) DEF SnapshotInv, Accepting, Creating, Enrolled, NoRow
    <2>3. \A row \in EnrollmentRow : \A seen, a :
            row.person => Approved(row, seen, a).person /\ Rejected(row, seen, a).person
      BY DEF Approved, Rejected, EnrollmentRow
    <2>4. \/ enrollment' = [enrollment EXCEPT ![d] = Approved(@, job[r].seen, job[r].by)]
          \/ enrollment' = [enrollment EXCEPT ![d] = Rejected(@, job[r].seen, job[r].by)]
      BY <1>3 DEF AcceptCommit, LockCommit
    <2> HIDE DEF d
    <2> QED
      BY <1>1, <2>1, <2>2, <2>3, <2>4
  <1>4. ASSUME NEW d \in Callsigns, ResetApprovecode(d) PROVE enrollment'[c].person
    BY <1>1, <1>4, SMTT(30) DEF ResetApprovecode, EnrollmentRow, NoRow
  <1>5. ASSUME NEW r \in Requests, ~CreateInsert(r), ~AcceptCommit(r), ~LockCommit(r),
               Arrive(r) \/ Advance(r) \/ CallFails(r)
        PROVE  enrollment' = enrollment
    BY <1>5, SMTT(30)
       DEF Arrive, Advance, CallFails, CreateCheck, AcceptLoad, LockLoad, DeleteLoad, AcceptCheck,
           AcceptInsert, CaSign, AcceptCert, KcCreate, AcceptKcReply, AcceptLink, DeleteCheck,
           DeleteBase, DeleteMark, CaRevoke, DeleteRevoked, KcDelete, db
  <1>6. ASSUME NEW w \in Workers, WorkerCrash(w) PROVE enrollment' = enrollment
    BY <1>6 DEF WorkerCrash, db
  <1> QED
    BY <1>2, <1>3, <1>4, <1>5, <1>6 DEF Next, Advance, vars, db

(* A step that ends no accept, and has no user of Keycloak created.        *)
LEMMA OthersCreate ==
  ASSUME IInv, [Next]_vars, CreatorsAreNew, InsertedIsInHand, UNCHANGED <<users, failures>>,
         kcusers' \subseteq kcusers,
         NEW r \in Requests, pc[r] \notin Creating, pc'[r] \notin Creating,
         \A q \in Requests \ {r} : pc'[q] = pc[q] /\ job'[q] = job[q]
  PROVE  CreatorsAreNew' /\ InsertedIsInHand'
  <1>1. CreatorsAreNew'
    BY DEF CreatorsAreNew, Creating
  <1>2. InsertedIsInHand'
    BY ReferenceStays, InHandFrame
  <1> QED
    BY <1>1, <1>2

(* Every step keeps the accept that has inserted a person at it.           *)
LEMMA InHandStep ==
  ASSUME IInv, [Next]_vars, CreatorsAreNew, InsertedIsInHand
  PROVE  CreatorsAreNew' /\ InsertedIsInHand'
  <1>0. /\ pc \in [Requests -> Busy \cup {"idle"}] /\ job \in [Requests -> Jobs]
        /\ kcusers \subseteq users
    BY DEF IInv, TypeOK
  <1> USE <1>0 DEF Goto
  <1>1. ASSUME NEW r \in Requests, Arrive(r) PROVE CreatorsAreNew' /\ InsertedIsInHand'
    <2>1. /\ UNCHANGED <<users, failures, kcusers>> /\ pc[r] = "idle"
          /\ \E label \in {"init_insert", "acc_check", "lock_commit", "del_check"} :
               pc' = [pc EXCEPT ![r] = label]
          /\ \E j : job' = [job EXCEPT ![r] = j]
      BY <1>1 DEF Arrive, CreateCheck, AcceptLoad, LockLoad, DeleteLoad, Begin, At, db, world
    <2> QED
      BY <2>1, OthersCreate DEF Creating
  <1>2. ASSUME NEW r \in Requests,
               \/ CreateInsert(r) \/ AcceptCheck(r) \/ LockCommit(r)
               \/ DeleteCheck(r) \/ DeleteBase(r) \/ DeleteMark(r)
               \/ CaRevoke(r) \/ DeleteRevoked(r) \/ KcDelete(r)
        PROVE  CreatorsAreNew' /\ InsertedIsInHand'
    <2>1. UNCHANGED <<users, failures>> /\ kcusers' \subseteq kcusers
      BY <1>2 DEF CreateInsert, AcceptCheck, LockCommit, DeleteCheck, DeleteBase, DeleteMark, CaRevoke,
                  DeleteRevoked, KcDelete, db, world
    <2>2. /\ pc[r] \in {"init_insert", "acc_check", "lock_commit"} \cup Deleting
          /\ \E label \in {"idle", "acc_insert"} \cup Deleting : pc' = [pc EXCEPT ![r] = label]
      BY <1>2, SMTT(30)
         DEF CreateInsert, AcceptCheck, LockCommit, DeleteCheck, DeleteBase, DeleteMark, CaRevoke,
             DeleteRevoked, KcDelete, At, Finish, Leave, Deleting
    <2>3. job' = job \/ \E j : job' = [job EXCEPT ![r] = j]
      BY <1>2 DEF CreateInsert, AcceptCheck, LockCommit, DeleteCheck, DeleteBase, DeleteMark, CaRevoke,
                  DeleteRevoked, KcDelete, Finish, Leave
    <2> QED
      BY <2>1, <2>2, <2>3, OthersCreate DEF Creating, Deleting
  <1>3. ASSUME NEW r \in Requests, AcceptInsert(r) PROVE CreatorsAreNew' /\ InsertedIsInHand'
    <2>1. CASE job[r].cs \in users
      <3>1. /\ UNCHANGED <<users, failures, kcusers>> /\ pc[r] = "acc_insert"
            /\ pc' = [pc EXCEPT ![r] = "idle"] /\ job' = [job EXCEPT ![r] = NoJob]
        BY <1>3, <2>1 DEF AcceptInsert, At, Finish, Leave, world
      <3> QED
        BY <3>1, OthersCreate DEF Creating
    <2>2. CASE job[r].cs \notin users
      <3>1. /\ UNCHANGED <<failures, kcusers, job>> /\ pc[r] = "acc_insert"
            /\ users' = users \cup {job[r].cs} /\ pc' = [pc EXCEPT ![r] = "acc_sign"]
        BY <1>3, <2>2 DEF AcceptInsert, At, world
      <3>2. CreatorsAreNew'
        BY <2>2, <3>1 DEF CreatorsAreNew
      <3>3. InsertedIsInHand'
        BY <3>1, ReferenceStays, InHandFrame DEF Creating
      <3> QED
        BY <3>2, <3>3
    <2> QED
      BY <2>1, <2>2
  <1>4. ASSUME NEW r \in Requests, CaSign(r) \/ AcceptCert(r) \/ AcceptKcReply(r) \/ AcceptLink(r)
        PROVE  CreatorsAreNew' /\ InsertedIsInHand'
    <2>1. UNCHANGED <<users, failures, kcusers, job>>
      BY <1>4 DEF CaSign, AcceptCert, AcceptKcReply, AcceptLink, db, world
    <2>2. \/ pc[r] \in {"acc_sign", "acc_signed"}
          \/ pc'[r] \in {"acc_link", "acc_commit"}
      BY <1>4 DEF CaSign, AcceptCert, AcceptKcReply, AcceptLink, At
    <2>3. pc'[r] \in Creating /\ \A q \in Requests \ {r} : pc'[q] = pc[q]
      BY <1>4 DEF CaSign, AcceptCert, AcceptKcReply, AcceptLink, Creating
    <2>4. CreatorsAreNew'
      BY <2>1, <2>2, <2>3 DEF CreatorsAreNew
    <2>5. InsertedIsInHand'
      BY <2>1, <2>3, ReferenceStays, InHandFrame
    <2> QED
      BY <2>4, <2>5
  <1>5. ASSUME NEW r \in Requests, KcCreate(r) PROVE CreatorsAreNew' /\ InsertedIsInHand'
    <2> DEFINE c == job[r].cs
    <2>1. /\ UNCHANGED <<users, failures>> /\ pc[r] = "acc_kc"
          /\ \A q \in Requests \ {r} : pc'[q] = pc[q] /\ job'[q] = job[q]
      BY <1>5 DEF KcCreate, Finish, Leave, db
    <2>2. pc[r] \in Creating /\ c \in users /\ c \notin kcusers
      BY <2>1 DEF IInv, CreatorInv, CreatorsAreNew, Creating
    <2>3. CASE Matches(kcusers, c) = {}
      <3>1. kcusers' = kcusers \cup {c} /\ pc'[r] = "acc_kcdone" /\ job' = job
        BY <1>5, <2>3 DEF KcCreate
      <3>2. ASSUME NEW q \in Requests \ {r}, pc[q] \in Creating PROVE job[q].cs # c
        BY <2>2, <3>2 DEF IInv, OneCreator
      <3>3. CreatorsAreNew'
        BY <2>1, <3>1, <3>2 DEF CreatorsAreNew, Creating
      <3>4. InsertedIsInHand'
        BY <2>1, <3>1, ReferenceStays, InHandFrame DEF Creating
      <3> QED
        BY <3>3, <3>4
    <2>4. CASE Matches(kcusers, c) # {}
      <3>1. kcusers' = kcusers /\ pc'[r] = "idle"
        BY <1>5, <2>4 DEF KcCreate, Finish, Leave
      <3>2. Matches(users, c) # {c}
        BY <2>2, <2>4 DEF Matches
      <3>3. CreatorsAreNew'
        BY <2>1, <3>1 DEF CreatorsAreNew
      <3>4. InsertedIsInHand'
        BY <2>1, <3>2, ReferenceStays, InHandFrame
      <3> QED
        BY <3>3, <3>4
    <2> QED
      BY <2>3, <2>4
  <1>6. ASSUME NEW r \in Requests, AcceptCommit(r) PROVE CreatorsAreNew' /\ InsertedIsInHand'
    <2>1. /\ UNCHANGED <<users, failures, kcusers>> /\ pc[r] = "acc_commit" /\ pc'[r] = "idle"
          /\ \A q \in Requests \ {r} : pc'[q] = pc[q] /\ job'[q] = job[q]
      BY <1>6 DEF AcceptCommit, At, Finish, Leave, world
    <2>2. job[r].cs \in Callsigns /\ enrollment[job[r].cs] \in EnrollmentRow
      BY <2>1, SMTT(30) DEF IInv, TypeOK, SnapshotInv, Accepting, Creating, Enrolled, NoRow
    <2>3. enrollment'[job[r].cs].person
      BY <1>6, <2>2, SMTT(30) DEF AcceptCommit, Approved, EnrollmentRow, IInv, TypeOK
    <2>4. CreatorsAreNew'
      BY <2>1 DEF CreatorsAreNew
    <2>5. InsertedIsInHand'
      BY <2>1, <2>3, ReferenceStays, InHandFrame
    <2> QED
      BY <2>4, <2>5
  <1>7. ASSUME NEW c \in Callsigns, ResetApprovecode(c) PROVE CreatorsAreNew' /\ InsertedIsInHand'
    <2>1. UNCHANGED <<users, failures, kcusers, pc, job>>
      BY <1>7 DEF ResetApprovecode, world
    <2> QED
      BY <2>1, ReferenceStays, InHandFrame DEF CreatorsAreNew
  <1>8. ASSUME NEW r \in Requests, CallFails(r) PROVE CreatorsAreNew' /\ InsertedIsInHand'
    <2>1. kcusers' = kcusers /\ pc' = [pc EXCEPT ![r] = "idle"] /\ job' = [job EXCEPT ![r] = NoJob]
      BY <1>8 DEF CallFails, Finish, Leave, world
    <2>2. failures' # 0
      BY <1>8 DEF CallFails, IInv, TypeOK
    <2> QED
      BY <2>1, <2>2 DEF CreatorsAreNew, InsertedIsInHand
  <1>9. ASSUME NEW w \in Workers, WorkerCrash(w) PROVE CreatorsAreNew' /\ InsertedIsInHand'
    <2>1. /\ kcusers' = kcusers
          /\ \A q \in Requests : pc'[q] # "idle" => (pc'[q] = pc[q] /\ job'[q] = job[q])
      BY <1>9 DEF WorkerCrash, Dies, world
    <2>2. failures' # 0
      BY <1>9 DEF WorkerCrash, Dies, IInv, TypeOK
    <2> QED
      BY <2>1, <2>2 DEF CreatorsAreNew, InsertedIsInHand
  <1>10. ASSUME UNCHANGED vars PROVE CreatorsAreNew' /\ InsertedIsInHand'
    <2>1. UNCHANGED <<users, failures, kcusers, pc, job>>
      BY <1>10 DEF vars, db, world
    <2> QED
      BY <2>1, ReferenceStays, InHandFrame DEF CreatorsAreNew
  <1> QED
    BY <1>1, <1>2, <1>3, <1>4, <1>5, <1>6, <1>7, <1>8, <1>9, <1>10 DEF Next, Advance

(* The safety half of InsertedIsReferenced: until something fails, a person*)
(* the enrollment does not refer to has the accept at it that inserted it, *)
(* unless another spelling of the callsign has a person too                *)
(* (Enrollment.approve, create_with_cert).                                 *)
THEOREM NoAcceptForgotten == Spec => []InsertedIsInHand
  <1>1. Init => CreatorsAreNew /\ InsertedIsInHand
    BY DEF Init, NoRequests, CreatorsAreNew, InsertedIsInHand
  <1>2. IInv /\ CreatorsAreNew /\ InsertedIsInHand /\ [Next]_vars
          => CreatorsAreNew' /\ InsertedIsInHand'
    BY InHandStep
  <1> QED
    BY <1>1, <1>2, Invariance, PTL DEF Spec

-------------------------------------------------------------------------------
(* A step of Enrollment is a step of Account or leaves what it sees alone. *)
LEMMA AccountStep == IInv /\ [Next]_vars => [A!Next]_(A!vars)
  <1> SUFFICES ASSUME IInv, [Next]_vars PROVE [A!Next]_(A!vars)
    OBVIOUS
  <1> USE DEF A!Next, A!vars, A!Enroll, A!Reject, A!Approve, A!Open, A!Close, A!Issue, A!Revoke,
              decisionOf, accountOf, certificateOf, IInv, TypeOK,
              At, Goto, Finish, Leave, Begin, db, world, Enrolled
  <1>1. ASSUME NEW r \in Requests, Arrive(r) PROVE UNCHANGED A!vars
    BY <1>1 DEF Arrive, CreateCheck, AcceptLoad, LockLoad, DeleteLoad
  <1>2. ASSUME NEW r \in Requests, CreateInsert(r) PROVE [A!Next]_(A!vars)
    <2> DEFINE c == job[r].cs
    <2>1. c \in Callsigns
      BY <1>2 DEF CreateInsert, SnapshotInv, Busy, RowInv
    <2>2. CASE c \in Enrolled
      <3> UNCHANGED <<decisionOf, accountOf, certificateOf>>
        BY <1>2, <2>1, <2>2 DEF CreateInsert, SnapshotInv, Busy, RowInv
      <3> QED
        OBVIOUS
    <2>3. CASE ~(c \in Enrolled)
      <3>1. decisionOf' = [decisionOf EXCEPT ![c] = "PENDING"]
        BY ZenonT(60), <1>2, <2>1, <2>3 DEF CreateInsert, SnapshotInv, Busy, RowInv
      <3>2. UNCHANGED <<accountOf, certificateOf>>
        BY <1>2, <2>1, <2>3 DEF CreateInsert, SnapshotInv, Busy, RowInv
      <3>3. decisionOf[c] = "NONE"
        BY <1>2, <2>1, <2>3 DEF CreateInsert, SnapshotInv, Busy, RowInv
      <3> QED
        BY <2>1, <3>1, <3>2, <3>3
    <2> QED
      BY <2>2, <2>3
  <1>3. ASSUME NEW r \in Requests, AcceptInsert(r) PROVE [A!Next]_(A!vars)
    <2> DEFINE c == job[r].cs
    <2>1. c \in Callsigns
      BY <1>3 DEF AcceptInsert, SnapshotInv, Accepting, Busy, RowInv
    <2>2. CASE c \in users
      <3> UNCHANGED <<decisionOf, accountOf, certificateOf>>
        BY <1>3, <2>1, <2>2 DEF AcceptInsert, SnapshotInv, Accepting, Busy, RowInv
      <3> QED
        OBVIOUS
    <2>3. CASE ~(c \in users)
      <3>1. accountOf' = [accountOf EXCEPT ![c] = "open"]
        <4>1. users' = users \cup {c} /\ deleted' = deleted /\ c \notin deleted
          BY <1>3, <2>1, <2>3 DEF AcceptInsert, TypeOK
        <4> HIDE DEF c
        <4> QED
          BY <2>1, <4>1 DEF accountOf
      <3>2. UNCHANGED <<decisionOf, certificateOf>>
        BY <1>3, <2>1, <2>3 DEF AcceptInsert, SnapshotInv, Accepting, Busy, RowInv
      <3>3. decisionOf[c] # "NONE" /\ accountOf[c] = "none"
        BY <1>3, <2>1, <2>3 DEF AcceptInsert, SnapshotInv, Accepting, Busy, RowInv
      <3> QED
        BY <2>1, <3>1, <3>2, <3>3
    <2> QED
      BY <2>2, <2>3
  <1>4. ASSUME NEW r \in Requests, CaSign(r) PROVE [A!Next]_(A!vars)
    <2> DEFINE c == job[r].cs
    <2>1. c \in Callsigns
      BY <1>4 DEF CaSign, CreatorInv, Creating, RevokedIsDeleted, RowInv
    <2>2. A!Issue(c)
      <3>1. certificateOf' = [certificateOf EXCEPT ![c] = "issued"]
        <4>1. signed'[c] = 1 /\ c \notin revoked'
          BY <1>4, <2>1 DEF CaSign, CreatorInv, Creating, RevokedIsDeleted, RowInv
        <4>2. \A d \in Callsigns \ {c} : signed'[d] = signed[d] /\ (d \in revoked' <=> d \in revoked)
          BY <1>4, <2>1 DEF CaSign
        <4>3. certificateOf'[c] = "issued"
          BY <2>1, <4>1
        <4>4. \A d \in Callsigns \ {c} : certificateOf'[d] = certificateOf[d]
          BY <4>2
        <4>5. /\ certificateOf' = [d \in Callsigns |-> certificateOf'[d]]
              /\ certificateOf = [d \in Callsigns |-> certificateOf[d]]
          BY DEF certificateOf
        <4> HIDE DEF certificateOf
        <4> QED
          BY <2>1, <4>3, <4>4, <4>5
      <3>2. UNCHANGED <<decisionOf, accountOf>>
        BY <1>4, <2>1 DEF CaSign, CreatorInv, Creating, RevokedIsDeleted, RowInv
      <3>3. accountOf[c] # "none" /\ certificateOf[c] = "none"
        BY <1>4, <2>1 DEF CaSign, CreatorInv, Creating, RevokedIsDeleted, RowInv
      <3> QED
        BY <2>1, <3>1, <3>2, <3>3
    <2> QED
      BY ZenonT(30), <2>1, <2>2
  <1>5. ASSUME NEW r \in Requests, AcceptCommit(r) PROVE [A!Next]_(A!vars)
    <2> DEFINE c == job[r].cs
    <2>1. c \in Callsigns
      BY <1>5 DEF AcceptCommit, CreatorInv, SnapshotInv, Creating, Accepting, RowInv, Approved, Dirty, EnrollmentRow, NoRow
    <2>2. A!Approve(c)
      <3>1. decisionOf' = [decisionOf EXCEPT ![c] = "APPROVED"]
        <4>1. enrollment[c] \in EnrollmentRow /\ job[r].seen.state # "APPROVED"
          BY <1>5, <2>1 DEF AcceptCommit, CreatorInv, SnapshotInv, Creating, Accepting, NoRow
        <4>2. enrollment'[c].state = "APPROVED"
          BY <1>5, <2>1, <4>1 DEF AcceptCommit, Approved, Dirty, EnrollmentRow
        <4>3. \A d \in Callsigns \ {c} : enrollment'[d] = enrollment[d]
          BY <1>5, <2>1 DEF AcceptCommit
        <4> QED
          BY <2>1, <4>1, <4>2, <4>3
      <3>2. UNCHANGED <<accountOf, certificateOf>>
        BY <1>5, <2>1 DEF AcceptCommit, CreatorInv, SnapshotInv, Creating, Accepting, RowInv, Approved, Dirty, EnrollmentRow, NoRow
      <3>3. decisionOf[c] # "NONE" /\ certificateOf[c] # "none"
        BY <1>5, <2>1 DEF AcceptCommit, CreatorInv, SnapshotInv, Creating, Accepting, RowInv, Approved, Dirty, EnrollmentRow, NoRow
      <3> QED
        BY <2>1, <3>1, <3>2, <3>3
    <2> QED
      BY <2>1, <2>2
  <1>6. ASSUME NEW r \in Requests, LockCommit(r) PROVE [A!Next]_(A!vars)
    <2> DEFINE c == job[r].cs
    <2>1. c \in Callsigns
      BY <1>6 DEF LockCommit, SnapshotInv, Rejected, Dirty, EnrollmentRow, NoRow
    <2>2. CASE job[r].seen.state = "REJECTED"
      <3> UNCHANGED <<decisionOf, accountOf, certificateOf>>
        BY <1>6, <2>1, <2>2 DEF LockCommit, SnapshotInv, Rejected, Dirty, EnrollmentRow, NoRow
      <3> QED
        OBVIOUS
    <2>3. CASE ~(job[r].seen.state = "REJECTED")
      <3>1. decisionOf' = [decisionOf EXCEPT ![c] = "REJECTED"]
        <4>1. enrollment[c] \in EnrollmentRow
          BY <1>6, <2>1 DEF LockCommit, SnapshotInv, NoRow
        <4>2. enrollment'[c].state = "REJECTED"
          BY <1>6, <2>1, <2>3, <4>1 DEF LockCommit, Rejected, Dirty, EnrollmentRow
        <4>3. \A d \in Callsigns \ {c} : enrollment'[d] = enrollment[d]
          BY <1>6, <2>1 DEF LockCommit
        <4> QED
          BY <2>1, <4>1, <4>2, <4>3
      <3>2. UNCHANGED <<accountOf, certificateOf>>
        BY <1>6, <2>1, <2>3 DEF LockCommit, SnapshotInv, Rejected, Dirty, EnrollmentRow, NoRow
      <3>3. decisionOf[c] # "NONE"
        BY <1>6, <2>1, <2>3 DEF LockCommit, SnapshotInv, Rejected, Dirty, EnrollmentRow, NoRow
      <3> QED
        BY <2>1, <3>1, <3>2, <3>3
    <2> QED
      BY <2>2, <2>3
  <1>7. ASSUME NEW r \in Requests, DeleteBase(r) \/ DeleteMark(r) PROVE [A!Next]_(A!vars)
    <2> DEFINE c == job[r].cs
    <2>1. c \in Callsigns
      BY <1>7 DEF DeleteBase, DeleteMark, DeleterInv, Deleting
    <2>2. CASE c \in deleted
      <3> UNCHANGED <<decisionOf, accountOf, certificateOf>>
        BY <1>7, <2>1, <2>2 DEF DeleteBase, DeleteMark, DeleterInv, Deleting
      <3> QED
        OBVIOUS
    <2>3. CASE ~(c \in deleted)
      <3>1. accountOf' = [accountOf EXCEPT ![c] = "closed"]
        BY ZenonT(60), <1>7, <2>1, <2>3 DEF DeleteBase, DeleteMark, DeleterInv, Deleting
      <3>2. UNCHANGED <<decisionOf, certificateOf>>
        BY <1>7, <2>1, <2>3 DEF DeleteBase, DeleteMark, DeleterInv, Deleting
      <3>3. accountOf[c] = "open"
        BY <1>7, <2>1, <2>3 DEF DeleteBase, DeleteMark, DeleterInv, Deleting
      <3> QED
        BY <2>1, <3>1, <3>2, <3>3
    <2> QED
      BY <2>2, <2>3
  <1>8. ASSUME NEW r \in Requests, CaRevoke(r) PROVE [A!Next]_(A!vars)
    <2> DEFINE c == job[r].cs
    <2>1. c \in Callsigns
      BY <1>8 DEF CaRevoke, DeleterInv, Deleting, Revoking, RowInv
    <2>2. CASE c \in revoked
      <3> UNCHANGED <<decisionOf, accountOf, certificateOf>>
        BY <1>8, <2>1, <2>2 DEF CaRevoke, DeleterInv, Deleting, Revoking, RowInv
      <3> QED
        OBVIOUS
    <2>3. CASE ~(c \in revoked)
      <3>1. certificateOf' = [certificateOf EXCEPT ![c] = "revoked"]
        <4>1. signed'[c] = 1 /\ c \in revoked'
          BY <1>8, <2>1 DEF CaRevoke, DeleterInv, Deleting, Revoking, RowInv
        <4>2. \A d \in Callsigns \ {c} : signed'[d] = signed[d] /\ (d \in revoked' <=> d \in revoked)
          BY <1>8, <2>1 DEF CaRevoke
        <4>3. certificateOf'[c] = "revoked"
          BY <2>1, <4>1
        <4>4. \A d \in Callsigns \ {c} : certificateOf'[d] = certificateOf[d]
          BY <4>2
        <4>5. /\ certificateOf' = [d \in Callsigns |-> certificateOf'[d]]
              /\ certificateOf = [d \in Callsigns |-> certificateOf[d]]
          BY DEF certificateOf
        <4> HIDE DEF certificateOf
        <4> QED
          BY <2>1, <4>3, <4>4, <4>5
      <3>2. UNCHANGED <<decisionOf, accountOf>>
        BY <1>8, <2>1, <2>3 DEF CaRevoke, DeleterInv, Deleting, Revoking, RowInv
      <3>3. accountOf[c] = "closed" /\ certificateOf[c] = "issued"
        BY <1>8, <2>1, <2>3 DEF CaRevoke, DeleterInv, Deleting, Revoking, RowInv
      <3> QED
        BY <2>1, <3>1, <3>2, <3>3
    <2> QED
      BY <2>2, <2>3
  <1>9. ASSUME NEW r \in Requests,
               \/ AcceptCheck(r) \/ AcceptCert(r) \/ KcCreate(r) \/ AcceptKcReply(r)
               \/ AcceptLink(r) \/ DeleteCheck(r) \/ DeleteRevoked(r) \/ KcDelete(r)
               \/ CallFails(r)
        PROVE  UNCHANGED A!vars
    BY <1>9 DEF AcceptCheck, AcceptCert, KcCreate, AcceptKcReply, AcceptLink,
                DeleteCheck, DeleteRevoked, KcDelete, CallFails
  <1>10. ASSUME NEW c \in Callsigns, ResetApprovecode(c) PROVE UNCHANGED A!vars
    BY <1>10 DEF ResetApprovecode, EnrollmentRow, NoRow
  <1>11. ASSUME NEW w \in Workers, WorkerCrash(w) PROVE UNCHANGED A!vars
    BY <1>11 DEF WorkerCrash, Dies
  <1>12. ASSUME UNCHANGED vars PROVE UNCHANGED A!vars
    BY <1>12 DEF vars
  <1> QED
    BY <1>1, <1>2, <1>3, <1>4, <1>5, <1>6, <1>7, <1>8, <1>9, <1>10, <1>11, <1>12
       DEF Next, Advance

(* Every behaviour of the handlers, with any interleaving, failure and     *)
(* crash, follows the life cycle of Account for every callsign.            *)
THEOREM Implements == Spec => AccountSpec
  <1>1. Init => A!Init
    BY DEF Init, NoRequests, A!Init, decisionOf, accountOf, certificateOf, NoRow
  <1> QED
    BY <1>1, AccountStep, Invariance, PTL DEF Spec, AccountSpec, A!Spec
===============================================================================
