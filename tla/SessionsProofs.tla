---------------------------- MODULE SessionsProofs ----------------------------
(***************************************************************************)
(* Proofs about Sessions for any number of persons, handlers, connections  *)
(* and failures.                                                           *)
(***************************************************************************)
EXTENDS Sessions, FiniteSetTheorems, TLAPS

USE ConstantsAssumption DEF ConstantsAssumption

(* The places in full.                                                     *)
LEMMA AwaitFacts ==
  /\ AwaitPoints = {"cre_sign", "cre_kc", "del_revoke", "del_kc",
                    "cre_signed", "cre_kcdone", "del_revoked", "del_kcdone"}
  /\ Answered["cre_sign"] = "cre_signed" /\ Answered["cre_kc"] = "cre_kcdone"
  /\ Answered["del_revoke"] = "del_revoked" /\ Answered["del_kc"] = "del_kcdone"
  <1>1. /\ Answered["cre_sign"] = "cre_signed" /\ Answered["cre_kc"] = "cre_kcdone"
        /\ Answered["del_revoke"] = "del_revoked" /\ Answered["del_kc"] = "del_kcdone"
    BY DEF Answered
  <1>2. {Answered[c] : c \in CallPoints} = {"cre_signed", "cre_kcdone", "del_revoked", "del_kcdone"}
    BY <1>1 DEF CallPoints
  <1> QED
    BY <1>1, <1>2 DEF AwaitPoints, CallPoints

(* The connections in use can be counted.                                  *)
LEMMA Counted ==
  ASSUME NEW S \in SUBSET Requests
  PROVE  IsFiniteSet(S) /\ Cardinality(S) \in Nat /\ Cardinality(S) <= Cardinality(Requests)
  BY FS_Subset, FS_CardinalityType

(* What most steps do to the places: one handler that may run moves.       *)
Moves(r) == /\ MayRun(r)
            /\ \E l \in Places : pc' = [pc EXCEPT ![r] = l]
            /\ blocked' = blocked

-------------------------------------------------------------------------------
(* The invariant holds initially.                                          *)
LEMMA InitInv == Init => IInv
  <1> SUFFICES ASSUME Init PROVE IInv
    OBVIOUS
  <1>1. Cardinality({}) = 0
    BY FS_EmptySet
  <1>2. TypeOK
    BY DEF Init, TypeOK, Places
  <1>3. ConnectionsReturned
    BY <1>1 DEF Init, ConnectionsReturned, InUse, Holding
  <1>4. CommittedReachesCa
    BY DEF Init, CommittedReachesCa
  <1>5. AloneInv /\ StretchInv /\ BlockedInv
    BY DEF Init, AloneInv, StretchInv, BlockedInv, Looks, Stretches
  <1> QED
    BY <1>2, <1>3, <1>4, <1>5 DEF IInv

(* Every step keeps the variables in their types.                          *)
LEMMA TypeNext == TypeOK /\ [Next]_vars => TypeOK'
  <1> SUFFICES ASSUME TypeOK, [Next]_vars PROVE TypeOK'
    OBVIOUS
  <1> USE DEF TypeOK
  <1>0. CASE UNCHANGED vars
    BY <1>0 DEF vars, rows, ca
  <1>1. CASE TimeOut
    BY <1>1 DEF TimeOut, Return, Finish, Goto, Places, rows, ca
  <1>2. CASE WorkerCrash
    BY <1>2 DEF WorkerCrash, Places, rows, ca
  <1>3. ASSUME NEW r \in Requests, Arrive(r) PROVE TypeOK'
    BY <1>3 DEF Arrive, At, Goto, Places, rows, ca
  <1>4. ASSUME NEW r \in Requests, Answer(r) PROVE TypeOK'
    <2>1. CASE CaSigns(r)
      BY <2>1, AwaitFacts DEF CaSigns, Goto, Places, rows, ca
    <2>2. CASE CaRevokes(r)
      BY <2>2, AwaitFacts DEF CaRevokes, Goto, Places, rows, ca
    <2>3. CASE KcAnswers(r)
      BY <2>3, AwaitFacts DEF KcAnswers, Goto, Places, rows, ca
    <2> QED
      BY <1>4, <2>1, <2>2, <2>3 DEF Answer
  <1>5. ASSUME NEW r \in Requests, CallFails(r) PROVE TypeOK'
    BY <1>5 DEF CallFails, Return, Finish, Goto, Places, rows, ca
  <1>6. ASSUME NEW r \in Requests, Step(r) PROVE TypeOK'
    <2> USE AwaitFacts DEF At, Goto, Finish, Return, Places, Stretches, rows, ca
    <2>1. CASE CreateLook(r)
      BY <2>1 DEF CreateLook
    <2>2. CASE CreateInsert(r)
      BY <2>2 DEF CreateInsert
    <2>3. CASE CreateReload(r)
      BY <2>3 DEF CreateReload
    <2>4. CASE CreateSigned(r)
      BY <2>4 DEF CreateSigned
    <2>5. CASE CreateKcData(r)
      BY <2>5 DEF CreateKcData
    <2>6. CASE CreateLink(r)
      BY <2>6 DEF CreateLink
    <2>7. CASE DeleteLook(r)
      BY <2>7 DEF DeleteLook
    <2>8. CASE DeleteBase(r)
      BY <2>8 DEF DeleteBase
    <2>9. CASE DeleteMark(r)
      BY <2>9 DEF DeleteMark
    <2>10. CASE DeleteReload(r)
      BY <2>10 DEF DeleteReload
    <2>11. CASE DeleteRevoked(r)
      BY <2>11 DEF DeleteRevoked
    <2>12. CASE DeleteEnd(r)
      BY <2>12 DEF DeleteEnd
    <2>13. CASE List(r)
      BY <2>13 DEF List
    <2>14. CASE Block(r)
      BY <2>14 DEF Block
    <2> QED
      BY <1>6, <2>1, <2>2, <2>3, <2>4, <2>5, <2>6, <2>7, <2>8, <2>9, <2>10, <2>11, <2>12, <2>13, <2>14
         DEF Step
  <1> QED
    BY <1>0, <1>1, <1>2, <1>3, <1>4, <1>5, <1>6 DEF Next

-------------------------------------------------------------------------------
(* What a handler does when it has a connection, or a call fails, moves    *)
(* that handler alone.                                                     *)
LEMMA StepMoves ==
  ASSUME TypeOK, NEW r \in Requests, Arrive(r) \/ CallFails(r) \/ Step(r), ~Block(r)
  PROVE  Moves(r)
  <1> USE AwaitFacts DEF At, Goto, Finish, Places, Looks, Stretches, Moves
  <1>1. Arrive(r) => Moves(r)
    BY DEF Arrive
  <1>2. CallFails(r) => Moves(r)
    BY DEF CallFails
  <1>3. CreateLook(r) \/ CreateInsert(r) \/ CreateReload(r) \/ CreateSigned(r) => Moves(r)
    BY DEF CreateLook, CreateInsert, CreateReload, CreateSigned
  <1>4. CreateKcData(r) \/ CreateLink(r) \/ List(r) => Moves(r)
    BY DEF CreateKcData, CreateLink, List
  <1>5. DeleteLook(r) \/ DeleteBase(r) \/ DeleteMark(r) \/ DeleteReload(r) => Moves(r)
    BY DEF DeleteLook, DeleteBase, DeleteMark, DeleteReload
  <1>6. DeleteRevoked(r) \/ DeleteEnd(r) => Moves(r)
    BY DEF DeleteRevoked, DeleteEnd
  <1> QED
    BY <1>1, <1>2, <1>3, <1>4, <1>5, <1>6 DEF Step

(* A step is a failure of all, an answer to one handler, the end of a      *)
(* blocked one, a handler that blocks, or one that moves.                  *)
LEMMA Shapes ==
  ASSUME TypeOK, Next
  PROVE  \/ WorkerCrash \/ TimeOut
         \/ \E r \in Requests : Answer(r) \/ Block(r) \/ Moves(r)
  BY StepMoves DEF Next

(* The answer to a call is for a handler that waits for it.                *)
LEMMA AnswerFacts ==
  ASSUME TypeOK, NEW r \in Requests, Answer(r)
  PROVE  /\ pc[r] \in CallPoints
         /\ pc' = [pc EXCEPT ![r] = Answered[pc[r]]]
         /\ Answered[pc[r]] \in AwaitPoints \ CallPoints
         /\ pc[r] \in Holding <=> Answered[pc[r]] \in Holding
         /\ UNCHANGED <<limit, holders, blocked, rows, job, failures>>
  BY AwaitFacts DEF Answer, CaSigns, CaRevokes, KcAnswers, Goto, CallPoints, Holding

(* One handler at a time is in the middle of a stretch.                    *)
LEMMA AloneNext == TypeOK /\ AloneInv /\ [Next]_vars => AloneInv'
  <1> SUFFICES ASSUME TypeOK, AloneInv, [Next]_vars,
                      NEW r \in Requests, pc'[r] \in Looks \cup Stretches,
                      NEW q \in Requests \ {r}
               PROVE  pc'[q] \in AwaitPoints \cup {"idle"}
    BY DEF AloneInv, Elsewhere
  <1> USE AwaitFacts DEF Looks, Stretches
  <1>1. CASE UNCHANGED pc
    BY <1>1 DEF AloneInv, Elsewhere
  <1>2. CASE WorkerCrash
    BY <1>2 DEF WorkerCrash
  <1>3. CASE TimeOut
    BY <1>3 DEF TimeOut, Finish, Goto, TypeOK, AloneInv, Elsewhere
  <1>4. ASSUME NEW x \in Requests, Answer(x) PROVE pc'[q] \in AwaitPoints \cup {"idle"}
    BY <1>4, AnswerFacts DEF TypeOK, AloneInv, Elsewhere
  <1>5. ASSUME NEW x \in Requests, Moves(x) PROVE pc'[q] \in AwaitPoints \cup {"idle"}
    BY <1>5 DEF Moves, MayRun, Elsewhere, TypeOK
  <1> QED
    BY <1>1, <1>2, <1>3, <1>4, <1>5, Shapes DEF Block, vars

(* Who blocks the event loop has nothing half done.                        *)
LEMMA BlockedNext == TypeOK /\ StretchInv /\ BlockedInv /\ [Next]_vars => BlockedInv'
  <1> SUFFICES ASSUME TypeOK, StretchInv, BlockedInv, [Next]_vars, blocked' # Nobody
               PROVE  /\ pc'[blocked'] \in Looks \cup {"cre_kcdone", "del_revoked"}
                      /\ ~Available(blocked)'
                      /\ \A q \in Requests \ {blocked'} : pc'[q] \in AwaitPoints \cup {"idle"}
    BY DEF BlockedInv, Elsewhere
  <1> USE DEF Available, InUse
  <1>1. CASE UNCHANGED vars
    BY <1>1 DEF vars, BlockedInv, Elsewhere
  <1>2. ~WorkerCrash /\ ~TimeOut
    BY DEF WorkerCrash, TimeOut
  <1>3. ASSUME NEW x \in Requests, Moves(x) PROVE FALSE
    BY <1>3 DEF Moves, MayRun
  <1>4. ASSUME NEW x \in Requests, Block(x)
        PROVE  /\ pc'[blocked'] \in Looks \cup {"cre_kcdone", "del_revoked"}
               /\ ~Available(blocked)'
               /\ \A q \in Requests \ {blocked'} : pc'[q] \in AwaitPoints \cup {"idle"}
    <2>1. pc[x] \notin Stretches
      <3>1. InUse \in Nat /\ limit \in Nat
        BY Counted DEF TypeOK
      <3>2. pc[x] \in Stretches => Needs(pc[x]) = 1
        BY DEF Needs, Stretches
      <3> QED
        BY <1>4, <3>1, <3>2 DEF Block, StretchInv
    <2> QED
      BY <1>4, <2>1 DEF Block, Connecting, MayRun, Elsewhere
  <1>5. ASSUME NEW x \in Requests, Answer(x)
        PROVE  /\ pc'[blocked'] \in Looks \cup {"cre_kcdone", "del_revoked"}
               /\ ~Available(blocked)'
               /\ \A q \in Requests \ {blocked'} : pc'[q] \in AwaitPoints \cup {"idle"}
    <2>1. blocked' = blocked /\ blocked \in Requests /\ limit' = limit /\ holders' = holders
      BY <1>5, AnswerFacts DEF TypeOK
    <2>2. x # blocked
      BY <1>5, <2>1, AnswerFacts DEF BlockedInv, Looks, CallPoints
    <2>3. pc'[blocked] = pc[blocked]
      BY <1>5, <2>1, <2>2, AnswerFacts DEF TypeOK
    <2>4. ~Available(blocked)'
      BY <2>1, <2>3 DEF BlockedInv
    <2>5. \A q \in Requests \ {blocked} : pc'[q] \in AwaitPoints \cup {"idle"}
      BY <1>5, <2>1, AnswerFacts DEF TypeOK, BlockedInv, Elsewhere
    <2> QED
      BY <2>1, <2>3, <2>4, <2>5 DEF BlockedInv
  <1> QED
    BY <1>1, <1>2, <1>3, <1>4, <1>5, Shapes

-------------------------------------------------------------------------------
(* A handler that moves between places of the same kind as regards its     *)
(* connection leaves the pool as it is.                                    *)
LEMMA HeldAsBefore ==
  ASSUME TypeOK, ConnectionsReturned, NEW r \in Requests, NEW l \in Places,
         pc' = [pc EXCEPT ![r] = l], l \in Holding <=> pc[r] \in Holding,
         UNCHANGED <<limit, holders>>
  PROVE  ConnectionsReturned'
  BY DEF TypeOK, ConnectionsReturned, InUse

(* A handler that closes its session leaves the pool in order.             *)
LEMMA HeldNoMore ==
  ASSUME TypeOK, ConnectionsReturned, NEW r \in Requests, NEW l \in Places,
         pc' = [pc EXCEPT ![r] = l], l \notin Holding, Return(r), UNCHANGED limit
  PROVE  ConnectionsReturned'
  <1>1. InUse' <= InUse /\ InUse \in Nat /\ InUse' \in Nat /\ limit \in Nat
    BY Counted, FS_RemoveElement DEF TypeOK, InUse, Return
  <1>2. InUse' <= limit'
    BY <1>1 DEF ConnectionsReturned
  <1>3. \A q \in Requests : q \in holders' <=> pc'[q] \in Holding
    BY DEF TypeOK, ConnectionsReturned, Return
  <1> QED
    BY <1>2, <1>3 DEF ConnectionsReturned

(* A handler that takes a connection finds one.                            *)
LEMMA HeldFromNow ==
  ASSUME TypeOK, ConnectionsReturned, NEW r \in Requests, NEW l \in Places,
         pc' = [pc EXCEPT ![r] = l], l \in Holding, holders' = holders \cup {r},
         pc[r] \in Stretches, Available(r), UNCHANGED limit
  PROVE  ConnectionsReturned'
  <1>1. InUse' <= InUse + 1 /\ InUse \in Nat /\ InUse' \in Nat /\ limit \in Nat
    BY Counted, FS_AddElement DEF TypeOK, InUse
  <1>2. InUse + 1 <= limit
    BY DEF Available, Needs, Stretches
  <1>3. InUse' <= limit'
    BY <1>1, <1>2
  <1>4. \A q \in Requests : q \in holders' <=> pc'[q] \in Holding
    BY DEF TypeOK, ConnectionsReturned
  <1> QED
    BY <1>3, <1>4 DEF ConnectionsReturned

(* Connections are taken from what is there, and given back.               *)
LEMMA ReturnedNext ==
  TypeOK /\ ConnectionsReturned /\ BlockedInv /\ [Next]_vars => ConnectionsReturned'
  <1> SUFFICES ASSUME TypeOK, ConnectionsReturned, BlockedInv, [Next]_vars
               PROVE  ConnectionsReturned'
    OBVIOUS
  <1>0. CASE UNCHANGED vars
    BY <1>0 DEF vars, ConnectionsReturned, InUse
  <1>1. CASE WorkerCrash
    <2>1. holders' = {} /\ InUse' = 0 /\ limit' \in Nat
      BY <1>1, FS_EmptySet DEF WorkerCrash, InUse, TypeOK
    <2>2. \A q \in Requests : pc'[q] \notin Holding
      BY <1>1 DEF WorkerCrash, Holding
    <2> QED
      BY <2>1, <2>2 DEF ConnectionsReturned
  <1>2. CASE TimeOut
    BY <1>2, HeldNoMore DEF TimeOut, Finish, Goto, Holding, Places, TypeOK
  <1>3. ASSUME NEW r \in Requests, Answer(r) PROVE ConnectionsReturned'
    <2>1. Answered[pc[r]] \in Places
      BY <1>3, AnswerFacts DEF Places
    <2> QED
      BY <1>3, <2>1, AnswerFacts, HeldAsBefore
  <1>4. ASSUME NEW r \in Requests, Arrive(r) \/ CallFails(r) PROVE ConnectionsReturned'
    <2>1. CASE Arrive(r)
      BY <2>1, HeldAsBefore DEF Arrive, At, Goto, Holding, Looks, Places
    <2>2. CASE CallFails(r)
      BY <2>2, HeldNoMore DEF CallFails, Finish, Goto, Holding, Places
    <2> QED
      BY <1>4, <2>1, <2>2
  <1>5. ASSUME NEW r \in Requests, Step(r) PROVE ConnectionsReturned'
    <2> USE AwaitFacts DEF At, Goto, Finish, Holding, Looks, Stretches, Places
    <2>1. CASE CreateLook(r)
      BY <2>1, HeldAsBefore DEF CreateLook
    <2>2. CASE CreateInsert(r)
      BY <2>2, HeldAsBefore DEF CreateInsert
    <2>3. CASE CreateReload(r)
      BY <2>3, HeldFromNow DEF CreateReload
    <2>4. CASE CreateSigned(r)
      BY <2>4, HeldNoMore DEF CreateSigned
    <2>5. CASE CreateKcData(r)
      BY <2>5, HeldAsBefore DEF CreateKcData
    <2>6. CASE CreateLink(r)
      BY <2>6, HeldAsBefore DEF CreateLink
    <2>7. CASE DeleteLook(r)
      BY <2>7, HeldAsBefore DEF DeleteLook
    <2>8. CASE DeleteBase(r)
      BY <2>8, HeldAsBefore DEF DeleteBase
    <2>9. CASE DeleteMark(r)
      BY <2>9, HeldAsBefore DEF DeleteMark
    <2>10. CASE DeleteReload(r)
      BY <2>10, HeldFromNow DEF DeleteReload
    <2>11. CASE DeleteRevoked(r)
      BY <2>11, HeldAsBefore DEF DeleteRevoked
    <2>12. CASE DeleteEnd(r)
      BY <2>12, HeldNoMore DEF DeleteEnd
    <2>13. CASE List(r)
      BY <2>13, HeldAsBefore DEF List
    <2>14. CASE Block(r)
      BY <2>14 DEF Block, ConnectionsReturned, InUse
    <2> QED
      BY <1>5, <2>1, <2>2, <2>3, <2>4, <2>5, <2>6, <2>7, <2>8, <2>9, <2>10, <2>11, <2>12, <2>13, <2>14
         DEF Step
  <1> QED
    BY <1>0, <1>1, <1>2, <1>3, <1>4, <1>5 DEF Next

(* A stretch has a connection from its beginning to its end.               *)
LEMMA StretchNext ==
  IInv /\ [Next]_vars => StretchInv'
  <1> SUFFICES ASSUME IInv, [Next]_vars, NEW q \in Requests, pc'[q] \in Stretches
               PROVE  InUse' < limit'
    BY DEF StretchInv
  <1> USE AwaitFacts DEF Stretches, Looks
  <1>t. TypeOK /\ ConnectionsReturned /\ StretchInv /\ BlockedInv /\ InUse \in Nat /\ limit \in Nat
    BY Counted DEF IInv, TypeOK, InUse
  <1>0. CASE UNCHANGED <<pc, holders, limit>>
    BY <1>0, <1>t DEF StretchInv, InUse
  <1>1. ~WorkerCrash
    BY DEF WorkerCrash
  <1>2. ~TimeOut
    <2> SUFFICES ASSUME TimeOut PROVE FALSE
      OBVIOUS
    <2>1. blocked \in Requests /\ blocked # Nobody /\ pc' = [pc EXCEPT ![blocked] = "idle"]
      BY <1>t DEF TimeOut, Finish, Goto, TypeOK
    <2>2. q # blocked /\ pc'[q] = pc[q]
      BY <1>t, <2>1 DEF TypeOK
    <2> QED
      BY <1>t, <2>1, <2>2 DEF BlockedInv, Elsewhere
  <1>3. ASSUME NEW r \in Requests, Answer(r) PROVE InUse' < limit'
    BY <1>3, <1>t, AnswerFacts DEF TypeOK, StretchInv, InUse
  <1>4. ASSUME NEW r \in Requests, Arrive(r) PROVE FALSE
    BY <1>4, <1>t DEF Arrive, At, Goto, MayRun, Elsewhere, TypeOK
  <1>5. ASSUME NEW r \in Requests, CallFails(r) PROVE FALSE
    BY <1>5, <1>t DEF CallFails, Finish, Goto, MayRun, Elsewhere, TypeOK
  <1>6. ASSUME NEW r \in Requests, Step(r), ~Block(r) PROVE InUse' < limit'
    <2>1. q = r
      <3>1. Moves(r)
        BY <1>6, <1>t, StepMoves
      <3> QED
        BY <3>1, <1>t DEF Moves, MayRun, Elsewhere, TypeOK
    <2> USE <1>t DEF At, Goto, Finish, TypeOK, Available, Needs, InUse
    <2>2. CASE CreateLook(r) \/ DeleteLook(r)
      BY <2>1, <2>2 DEF CreateLook, DeleteLook
    <2>3. CASE CreateInsert(r) \/ DeleteMark(r)
      BY <2>1, <2>3 DEF CreateInsert, DeleteMark
    <2>4. CASE CreateSigned(r)
      <3>1. r \in holders /\ holders' = holders \ {r} /\ limit' = limit
        BY <2>4 DEF CreateSigned, ConnectionsReturned, Holding, Return
      <3>2. InUse' = InUse - 1
        BY <3>1, Counted, FS_RemoveElement
      <3> QED
        BY <3>1, <3>2 DEF ConnectionsReturned
    <2>5. CASE CreateReload(r) \/ CreateKcData(r) \/ CreateLink(r) \/ DeleteBase(r) \/ DeleteReload(r)
      BY <2>1, <2>5 DEF CreateReload, CreateKcData, CreateLink, DeleteBase, DeleteReload
    <2>6. CASE DeleteRevoked(r) \/ DeleteEnd(r) \/ List(r)
      BY <2>1, <2>6 DEF DeleteRevoked, DeleteEnd, List
    <2> QED
      BY <1>6, <2>2, <2>3, <2>4, <2>5, <2>6 DEF Step
  <1> QED
    BY <1>0, <1>1, <1>2, <1>3, <1>4, <1>5, <1>6 DEF Next, Block, vars

-------------------------------------------------------------------------------
(* Steps of handlers that are not between a commit and the CA, and write   *)
(* nothing the CA is to hear of.                                           *)
LEMMA ReachesAsBefore ==
  ASSUME TypeOK, CommittedReachesCa, NEW r \in Requests,
         pc[r] \notin Signing \cup Revoking,
         \A q \in Requests \ {r} : pc'[q] = pc[q] /\ job'[q] = job[q],
         UNCHANGED <<users, marked, signed, revoked, failures>>
  PROVE  CommittedReachesCa'
  <1>1. \A p, q : q \in Requests /\ job[q] = p /\ pc[q] \in Signing
                    => job'[q] = p /\ pc'[q] \in Signing
    OBVIOUS
  <1>2. \A p, q : q \in Requests /\ job[q] = p /\ pc[q] \in Revoking
                    => job'[q] = p /\ pc'[q] \in Revoking
    OBVIOUS
  <1> QED
    BY <1>1, <1>2 DEF CommittedReachesCa

(* After a failure everything may be left behind.                          *)
LEMMA ReachesAfterFailure ==
  ASSUME TypeOK, failures' = failures + 1
  PROVE  CommittedReachesCa'
  BY DEF TypeOK, CommittedReachesCa

(* Handlers that commit, or go on from the commit to the CA.               *)
LEMMA ReachesOn ==
  ASSUME TypeOK, CommittedReachesCa, NEW r \in Requests,
         CreateInsert(r) \/ CreateReload(r) \/ DeleteMark(r) \/ DeleteReload(r)
  PROVE  CommittedReachesCa'
  <1> USE DEF At, Goto, TypeOK, CommittedReachesCa, Signing, Revoking, rows, ca
  <1>1. CASE CreateInsert(r)
    <2>1. CASE job[r] \notin users
      BY <1>1, <2>1 DEF CreateInsert
    <2>2. CASE job[r] \in users
      <3>1. UNCHANGED <<users, marked, signed, revoked, failures>>
        BY <1>1, <2>2 DEF CreateInsert
      <3>2. \A q \in Requests \ {r} : pc'[q] = pc[q] /\ job'[q] = job[q]
        BY <1>1, <2>2 DEF CreateInsert, Finish
      <3>3. pc[r] \notin Signing \cup Revoking
        BY <1>1 DEF CreateInsert
      <3> QED
        BY <3>1, <3>2, <3>3, ReachesAsBefore
    <2> QED
      BY <2>1, <2>2
  <1>2. CASE CreateReload(r)
    BY <1>2 DEF CreateReload
  <1>3. CASE DeleteMark(r)
    BY <1>3 DEF DeleteMark
  <1>4. CASE DeleteReload(r)
    BY <1>4 DEF DeleteReload
  <1> QED
    BY <1>1, <1>2, <1>3, <1>4

(* The handler the CA answers was the one it was waited for by.            *)
LEMMA ReachesAnswered ==
  ASSUME TypeOK, CommittedReachesCa, NEW r \in Requests, Answer(r)
  PROVE  CommittedReachesCa'
  <1>1. \A q \in Requests \ {r} : pc'[q] = pc[q] /\ job' = job
    BY AnswerFacts DEF TypeOK
  <1>2. UNCHANGED <<users, marked, failures>>
    BY AnswerFacts DEF rows
  <1>3. CASE CaSigns(r)
    BY <1>1, <1>2, <1>3 DEF CaSigns, TypeOK, CommittedReachesCa, Signing, Revoking
  <1>4. CASE CaRevokes(r)
    BY <1>1, <1>2, <1>4 DEF CaRevokes, TypeOK, CommittedReachesCa, Signing, Revoking
  <1>5. CASE KcAnswers(r)
    <2>1. UNCHANGED <<signed, revoked>> /\ pc[r] \notin Signing \cup Revoking
      BY <1>5 DEF KcAnswers, ca, Signing, Revoking
    <2> QED
      BY <1>1, <1>2, <2>1, ReachesAsBefore
  <1> QED
    BY <1>3, <1>4, <1>5 DEF Answer

(* What is committed reaches the CA.                                       *)
LEMMA ReachesNext ==
  TypeOK /\ CommittedReachesCa /\ BlockedInv /\ [Next]_vars => CommittedReachesCa'
  <1> SUFFICES ASSUME TypeOK, CommittedReachesCa, BlockedInv, [Next]_vars
               PROVE  CommittedReachesCa'
    OBVIOUS
  <1>0. CASE UNCHANGED <<rows, ca, pc, job, failures>>
    BY <1>0 DEF rows, ca, CommittedReachesCa
  <1>1. CASE WorkerCrash
    BY <1>1, ReachesAfterFailure DEF WorkerCrash
  <1>2. CASE TimeOut
    <2>1. blocked \in Requests /\ pc[blocked] \notin Signing \cup Revoking
      BY <1>2 DEF TimeOut, BlockedInv, TypeOK, Looks, Signing, Revoking
    <2>2. \A q \in Requests \ {blocked} : pc'[q] = pc[q] /\ job'[q] = job[q]
      BY <1>2 DEF TimeOut, Finish, Goto, TypeOK
    <2>3. UNCHANGED <<users, marked, signed, revoked, failures>>
      BY <1>2 DEF TimeOut, rows, ca
    <2> QED
      BY <2>1, <2>2, <2>3, ReachesAsBefore
  <1>3. ASSUME NEW r \in Requests, Answer(r) PROVE CommittedReachesCa'
    BY <1>3, ReachesAnswered
  <1>4. ASSUME NEW r \in Requests, CallFails(r) PROVE CommittedReachesCa'
    BY <1>4, ReachesAfterFailure DEF CallFails
  <1>5. ASSUME NEW r \in Requests, Arrive(r) \/ Step(r), ~Block(r) PROVE CommittedReachesCa'
    <2>1. CASE CreateInsert(r) \/ CreateReload(r) \/ DeleteMark(r) \/ DeleteReload(r)
      BY <2>1, ReachesOn
    <2>2. CASE ~(CreateInsert(r) \/ CreateReload(r) \/ DeleteMark(r) \/ DeleteReload(r))
      <3> USE DEF At, Goto, Finish, Signing, Revoking, rows, ca, TypeOK
      <3> DEFINE Quiet == /\ pc[r] \notin Signing \cup Revoking
                          /\ \A q \in Requests \ {r} : pc'[q] = pc[q] /\ job'[q] = job[q]
                          /\ UNCHANGED <<users, marked, signed, revoked, failures>>
      <3>1. Arrive(r) \/ List(r) => Quiet
        BY DEF Arrive, List
      <3>2. CreateLook(r) \/ CreateSigned(r) \/ CreateKcData(r) \/ CreateLink(r) => Quiet
        BY DEF CreateLook, CreateSigned, CreateKcData, CreateLink
      <3>3. DeleteLook(r) \/ DeleteBase(r) \/ DeleteRevoked(r) \/ DeleteEnd(r) => Quiet
        BY DEF DeleteLook, DeleteBase, DeleteRevoked, DeleteEnd
      <3>4. Quiet
        BY <1>5, <2>2, <3>1, <3>2, <3>3 DEF Step
      <3> QED
        BY <3>4, ReachesAsBefore
    <2> QED
      BY <2>1, <2>2
  <1>6. ASSUME NEW r \in Requests, Block(r) PROVE CommittedReachesCa'
    BY <1>0, <1>6 DEF Block
  <1> QED
    BY <1>0, <1>1, <1>2, <1>3, <1>4, <1>5, <1>6 DEF Next, vars

-------------------------------------------------------------------------------
(* The invariant is inductive.                                             *)
LEMMA NextInv == IInv /\ [Next]_vars => IInv'
  BY TypeNext, AloneNext, BlockedNext, ReturnedNext, StretchNext, ReachesNext DEF IInv

(* The inductive invariant holds in every reachable state.                 *)
THEOREM Invariance == Spec => []IInv
  BY InitInv, NextInv, PTL DEF Spec

(* However a handler of the pool ends, its connection is back              *)
(* (people.py:106-137, 171-186).                                           *)
THEOREM ConnectionsCorrect == Spec => []ConnectionsReturned
  BY Invariance, PTL DEF IInv

(* An exhausted pool never strikes between the commit of a person and the  *)
(* call to the CA (people.py:119-126, 179-183).                            *)
THEOREM CommittedCorrect == Spec => []CommittedReachesCa
  BY Invariance, PTL DEF IInv

(* As long as fewer handlers are at work than the pool has connections     *)
(* nobody finds it empty (engine.py:40-47).                                *)
THEOREM FewCorrect == Spec => []FewNeverStarve
  <1>1. IInv => FewNeverStarve
    <2> SUFFICES ASSUME IInv, Cardinality(Requests) < limit, blocked # Nobody
                 PROVE  FALSE
      BY DEF FewNeverStarve
    <2>1. blocked \in Requests /\ InUse \in Nat /\ limit \in Nat /\ Cardinality(Requests) \in Nat
      BY Counted, FS_CardinalityType DEF IInv, TypeOK, InUse
    <2>2. ~(InUse + Needs(pc[blocked]) <= limit)
      BY DEF IInv, BlockedInv, Available
    <2>3. CASE pc[blocked] = "del_revoked"
      <3>1. InUse <= Cardinality(Requests)
        BY Counted DEF IInv, TypeOK, InUse
      <3> QED
        BY <2>1, <2>2, <2>3, <3>1 DEF Needs
    <2>4. CASE pc[blocked] # "del_revoked"
      <3>1. blocked \notin holders
        BY <2>1, <2>4 DEF IInv, BlockedInv, ConnectionsReturned, Looks, Holding
      <3>2. holders \in SUBSET (Requests \ {blocked})
        BY <3>1 DEF IInv, TypeOK
      <3>3. InUse <= Cardinality(Requests) - 1
        <4>1. Cardinality(Requests \ {blocked}) = Cardinality(Requests) - 1
          BY <2>1, FS_RemoveElement
        <4>2. IsFiniteSet(Requests \ {blocked})
          BY FS_RemoveElement
        <4>3. Cardinality(holders) <= Cardinality(Requests \ {blocked})
          BY <3>2, <4>2, FS_Subset
        <4> QED
          BY <4>1, <4>3 DEF InUse
      <3> QED
        BY <2>1, <2>2, <3>3 DEF Needs
    <2> QED
      BY <2>3, <2>4
  <1> QED
    BY <1>1, Invariance, PTL
===============================================================================
