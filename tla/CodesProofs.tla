------------------------------ MODULE CodesProofs ------------------------------
(***************************************************************************)
(* Proofs about Tokens and about InviteCodes for every set of codes,       *)
(* nonces, callsigns, requests, workers and every bound.                   *)
(*                                                                         *)
(* Tokens: nonces are one-time tokens; login codes buy at most a session   *)
(* per worker, which makes them one-time tokens when there is one.         *)
(*                                                                         *)
(* InviteCodes: what is final is final; a closed pool takes at most one    *)
(* client per worker but the one that closed it.                           *)
(*                                                                         *)
(* The two specifications share the slots of Handlers and nothing else.    *)
(***************************************************************************)
EXTENDS Tokens, InviteCodes, FiniteSetTheorems, TLAPS

USE ConstantsAssumption, PoolsAssumption, HandlersAssumption
    DEF ConstantsAssumption, PoolsAssumption, HandlersAssumption

-------------------------------------------------------------------------------
(* Tokens                                                                  *)

(* The steps that touch no table, file or counter: they move one request.  *)
Quiet(r) ==
  \/ \E k \in LoginCodes : GenerateLook(r, k) \/ CodeLook(r, k)
  \/ \E n \in Nonces : ExchangeLook(r, n) \/ SignLook(r, n)
  \/ SignReply(r) \/ NonceLook(r)

-------------------------------------------------------------------------------
(* What a handler remembers is well typed and can be read back.            *)
LEMMA JobType ==
  /\ \A x \in Endpoints, t \in Tokens :
       Job(x, t) \in Jobs /\ Job(x, t).token = t /\ Job(x, t).endpoint = x
  /\ NoJob \in Jobs
  BY DEF Job, Jobs, NoJob

(* The invariant holds initially.                                          *)
LEMMA InitInv == Init => IInv
  <1> SUFFICES ASSUME Init PROVE IInv
    OBVIOUS
  <1>1. TypeOK
    BY JobType DEF Init, NoRequests, TypeOK
  <1>2. HolderInv
    BY DEF Init, NoRequests, HolderInv, AwaitPoints
  <1>3. SpendInv
    BY DEF Init, NoRequests, SpendInv, Granting
  <1>4. NonceInv /\ GrantedIsSpent
    BY DEF Init, NoRequests, NonceInv, NonceBuysOnce, GrantedIsSpent, Tokens
  <1> QED
    BY <1>1, <1>2, <1>3, <1>4 DEF IInv

(* A request that only reads keeps the invariant: it never becomes one     *)
(* that is about to grant something.                                       *)
LEMMA QuietInv == ASSUME IInv, NEW r \in Requests, Quiet(r), UNCHANGED home PROVE IInv'
  <1> USE DEF IInv, Begin, At, Goto, Finish, Leave, db
  <1>1. TypeOK'
    BY JobType DEF Quiet, GenerateLook, CodeLook, ExchangeLook, SignLook,
                   SignReply, NonceLook, TypeOK, Busy, AwaitPoints, Tokens, Endpoints
  <1>2. HolderInv'
    BY JobType DEF Quiet, GenerateLook, CodeLook, ExchangeLook, SignLook,
                   SignReply, NonceLook, TypeOK, HolderInv, AwaitPoints, Tokens, Endpoints
  <1>3. /\ \A q \in Requests : pc'[q] \in Granting => pc'[q] = pc[q] /\ job'[q] = job[q]
        /\ UNCHANGED <<used, seentokens, granted, signed>>
    BY DEF Quiet, GenerateLook, CodeLook, ExchangeLook, SignLook,
           SignReply, NonceLook, TypeOK, Granting
  <1>4. SpendInv' /\ GrantedIsSpent'
    BY <1>3 DEF SpendInv, GrantedIsSpent
  <1>5. NonceInv'
    BY <1>3 DEF NonceInv, NonceBuysOnce, Granting
  <1> QED
    BY <1>1, <1>2, <1>4, <1>5

(* Login codes: inserting, marking and granting keep the invariant.        *)
LEMMA CodeStepInv ==
  ASSUME IInv, NEW r \in Requests, GenerateInsert(r) \/ CodeMark(r) \/ CodeIssue(r),
         UNCHANGED home
  PROVE  IInv'
  <1> USE DEF IInv, At, Goto, Finish, Leave, db
  <1>1. CASE GenerateInsert(r)
    <2>1. TypeOK' /\ HolderInv'
      BY <1>1, JobType DEF GenerateInsert, TypeOK, HolderInv, Busy, AwaitPoints
    <2>2. SpendInv' /\ GrantedIsSpent'
      BY <1>1 DEF GenerateInsert, TypeOK, SpendInv, GrantedIsSpent, Granting
    <2>3. NonceInv'
      BY <1>1 DEF GenerateInsert, TypeOK, NonceInv, NonceBuysOnce
    <2> QED
      BY <2>1, <2>2, <2>3
  <1>2. CASE CodeMark(r)
    <2>1. job[r].token \in logincodes /\ job[r].token \in LoginCodes
      BY <1>2 DEF CodeMark, HolderInv
    <2>2. TypeOK' /\ HolderInv'
      BY <1>2, <2>1 DEF CodeMark, TypeOK, HolderInv, Busy, AwaitPoints, Granting
    <2>3. SpendInv' /\ GrantedIsSpent'
      BY <1>2, <2>1 DEF CodeMark, TypeOK, SpendInv, GrantedIsSpent, Granting
    <2>4. NonceInv'
      BY <1>2 DEF CodeMark, TypeOK, NonceInv, NonceBuysOnce
    <2> QED
      BY <2>2, <2>3, <2>4
  <1>3. CASE CodeIssue(r)
    <2> DEFINE k == job[r].token
    <2>1. k \in LoginCodes /\ k \in Tokens /\ k \notin Nonces
      BY <1>3 DEF CodeIssue, HolderInv, Tokens
    <2>2. k \in used \cup seentokens
      BY <1>3, <2>1 DEF CodeIssue, SpendInv, Granting
    <2>3. granted' = [granted EXCEPT ![k] = @ + 1]
      BY <1>3 DEF CodeIssue
    <2>4. TypeOK'
      BY <1>3, <2>1, <2>3, JobType DEF CodeIssue, TypeOK
    <2>5. HolderInv'
      BY <1>3 DEF CodeIssue, TypeOK, HolderInv, AwaitPoints
    <2>6. SpendInv' /\ GrantedIsSpent'
      BY <1>3, <2>1, <2>2, <2>3 DEF CodeIssue, TypeOK, SpendInv, GrantedIsSpent, Granting
    <2>7. NonceInv'
      BY <1>3, <2>1, <2>3 DEF CodeIssue, TypeOK, HolderInv, NonceInv, NonceBuysOnce, Tokens
    <2> QED
      BY <2>4, <2>5, <2>6, <2>7
  <1> QED
    BY <1>1, <1>2, <1>3

(* Nonces: a certificate is signed, the row inserted, the answer given.    *)
LEMMA NonceStepInv ==
  ASSUME IInv, NEW r \in Requests, CaSign(r) \/ NonceInsert(r) \/ NonceAnswer(r),
         UNCHANGED home
  PROVE  IInv'
  <1> DEFINE n == job[r].token
  <1> USE DEF IInv, At, Goto, Finish, Leave, db
  <1>1. CASE CaSign(r)
    <2>1. n \in Nonces
      BY <1>1 DEF CaSign, HolderInv, AwaitPoints
    <2>2. signed' = [signed EXCEPT ![n] = @ + 1]
      BY <1>1 DEF CaSign
    <2>3. TypeOK'
      BY <1>1, <2>1 DEF CaSign, TypeOK, Busy, AwaitPoints
    <2>4. HolderInv'
      BY <1>1, <2>1, <2>2 DEF CaSign, TypeOK, HolderInv, AwaitPoints
    <2>5. SpendInv' /\ GrantedIsSpent'
      BY <1>1, <2>1, <2>2 DEF CaSign, TypeOK, SpendInv, GrantedIsSpent, Granting
    <2>6. NonceInv'
      BY <1>1 DEF CaSign, TypeOK, NonceInv, NonceBuysOnce
    <2> QED
      BY <2>3, <2>4, <2>5, <2>6
  <1>2. CASE NonceInsert(r)
    <2>1. n \in Nonces /\ n \in Tokens /\ n \notin used
      BY <1>2 DEF NonceInsert, HolderInv, TypeOK, Tokens
    <2>2. TypeOK' /\ HolderInv'
      BY <1>2, <2>1, JobType DEF NonceInsert, TypeOK, HolderInv, Busy, AwaitPoints, Granting
    <2>3. SpendInv' /\ GrantedIsSpent'
      BY <1>2, <2>1 DEF NonceInsert, TypeOK, SpendInv, GrantedIsSpent, Granting
    <2>4. n \notin seentokens =>
            granted[n] = 0 /\ \A q \in Requests : pc[q] = "nonce_answer" => job[q].token # n
      BY <2>1 DEF SpendInv, Granting
    <2>5. NonceInv'
      BY <1>2, <2>4 DEF NonceInsert, TypeOK, NonceInv, NonceBuysOnce
    <2> QED
      BY <2>2, <2>3, <2>5
  <1>3. CASE NonceAnswer(r)
    <2>1. n \in Nonces /\ n \in Tokens
      BY <1>3 DEF NonceAnswer, HolderInv, Tokens
    <2>2. n \in used \cup seentokens
      BY <1>3, <2>1 DEF NonceAnswer, SpendInv, Granting
    <2>3. granted[n] = 0
      BY <1>3 DEF NonceAnswer, NonceInv
    <2>4. \/ granted' = granted
          \/ granted' = [granted EXCEPT ![n] = 1] /\ (n \in AdminNonces \/ signed[n] > 0)
      BY <1>3, <2>1, <2>3 DEF NonceAnswer, HolderInv, TypeOK
    <2>5. TypeOK' /\ HolderInv'
      BY <1>3, <2>1, <2>4, JobType DEF NonceAnswer, TypeOK, HolderInv, AwaitPoints
    <2>6. SpendInv' /\ GrantedIsSpent'
      BY <1>3, <2>1, <2>2, <2>4 DEF NonceAnswer, TypeOK, SpendInv, GrantedIsSpent, Granting
    <2>7. NonceInv'
      BY <1>3, <2>1, <2>4 DEF NonceAnswer, TypeOK, NonceInv, NonceBuysOnce, Tokens
    <2> QED
      BY <2>5, <2>6, <2>7
  <1> QED
    BY <1>1, <1>2, <1>3

(* Failing calls and dying workers drop requests and nothing else.         *)
LEMMA FailureInv ==
  ASSUME IInv, \/ \E r \in Requests : CallFails(r)
               \/ \E w \in Workers : WorkerCrash(w)
  PROVE  IInv'
  <1> USE DEF IInv, Finish, Leave, Goto, db
  <1>1. /\ \A q \in Requests : (pc'[q] = pc[q] /\ job'[q] = job[q]) \/ pc'[q] = "idle"
        /\ UNCHANGED <<logincodes, used, seentokens, granted, signed>>
    BY DEF CallFails, WorkerCrash, Dies, TypeOK
  <1>2. TypeOK'
    BY JobType DEF CallFails, WorkerCrash, Dies, TypeOK
  <1>3. HolderInv'
    BY <1>1 DEF HolderInv, AwaitPoints
  <1>4. SpendInv' /\ GrantedIsSpent'
    BY <1>1 DEF SpendInv, GrantedIsSpent, Granting
  <1>5. NonceInv'
    BY <1>1 DEF NonceInv, NonceBuysOnce
  <1> QED
    BY <1>2, <1>3, <1>4, <1>5

(* Every step preserves the invariant.                                     *)
LEMMA NextInv == IInv /\ [Next]_vars => IInv'
  <1> SUFFICES ASSUME IInv, [Next]_vars PROVE IInv'
    OBVIOUS
  <1>1. ASSUME NEW r \in Requests, Arrive(r) \/ Advance(r) PROVE IInv'
    BY <1>1, QuietInv, CodeStepInv, NonceStepInv DEF Arrive, Advance, Quiet
  <1>2. ASSUME UNCHANGED vars PROVE IInv'
    BY <1>2 DEF vars, db, IInv, TypeOK, HolderInv, SpendInv, NonceInv, NonceBuysOnce, GrantedIsSpent
  <1> QED
    BY <1>1, <1>2, FailureInv DEF Next

(* The inductive invariant holds in every reachable state.                 *)
THEOREM Invariance == Spec => []IInv
  BY InitInv, NextInv, PTL DEF Spec

(* A nonce buys one session or one certificate, whatever races, fails or   *)
(* is retried (SeenToken.use_token).                                       *)
THEOREM NonceOnce == Spec => []NonceBuysOnce
  <1>1. IInv => NonceBuysOnce
    BY DEF IInv, NonceInv
  <1> QED
    BY <1>1, Invariance, PTL

(* Whatever a token bought, it was committed as spent before.              *)
THEOREM SpentFirst == Spec => []GrantedIsSpent
  <1>1. IInv => GrantedIsSpent
    BY DEF IInv
  <1> QED
    BY <1>1, Invariance, PTL

-------------------------------------------------------------------------------
(* Nonces implement OneTime.  Only two steps show: the INSERT spends, the  *)
(* answer grants.                                                          *)

(* Every other step leaves what OneTime sees of the nonces alone.          *)
LEMMA NonceStutter ==
  ASSUME UNCHANGED seentokens, \A n \in Nonces : granted'[n] = granted[n]
  PROVE  UNCHANGED N!vars
  BY DEF N!vars, nonceState, nonceGrants

(* A step of Tokens is a step of OneTime on the nonces, or a stutter.      *)
LEMMA NonceStep == IInv /\ [Next]_vars => [N!Next]_(N!vars)
  <1> SUFFICES ASSUME IInv, [Next]_vars PROVE [N!Next]_(N!vars)
    OBVIOUS
  <1> USE DEF IInv, At, Goto, Finish, Leave, db
  <1>1. ASSUME NEW r \in Requests, Quiet(r) \/ GenerateInsert(r) \/ CodeMark(r) \/ CaSign(r)
        PROVE  UNCHANGED N!vars
    BY <1>1, NonceStutter DEF Begin, Quiet, GenerateLook, CodeLook, ExchangeLook,
       SignLook, SignReply, NonceLook, GenerateInsert, CodeMark, CaSign
  <1>2. ASSUME NEW r \in Requests, CodeIssue(r) PROVE UNCHANGED N!vars
    <2>1. job[r].token \notin Nonces
      BY <1>2 DEF CodeIssue, HolderInv
    <2> QED
      BY <1>2, <2>1, NonceStutter DEF CodeIssue, TypeOK, Tokens
  <1>3. ASSUME NEW r \in Requests, NonceInsert(r) PROVE [N!Next]_(N!vars)
    <2> DEFINE n == job[r].token
    <2>1. n \in Nonces
      BY <1>3 DEF NonceInsert, HolderInv
    <2>2. CASE n \in seentokens
      BY <1>3, <2>2, NonceStutter DEF NonceInsert
    <2>3. CASE n \notin seentokens
      <3>1. nonceState[n] = "fresh" /\ nonceState' = [nonceState EXCEPT ![n] = "spent"]
        BY <1>3, <2>1, <2>3 DEF NonceInsert, nonceState
      <3>2. UNCHANGED nonceGrants
        BY <1>3 DEF NonceInsert, nonceGrants
      <3> QED
        BY <2>1, <3>1, <3>2 DEF N!Next, N!Spend
    <2> QED
      BY <2>2, <2>3
  <1>4. ASSUME NEW r \in Requests, NonceAnswer(r) PROVE [N!Next]_(N!vars)
    <2> DEFINE n == job[r].token
    <2>1. n \in Nonces /\ n \in Tokens /\ n \in seentokens
      BY <1>4 DEF NonceAnswer, HolderInv, SpendInv, Granting, TypeOK, Tokens
    <2>2. granted[n] = 0
      BY <1>4 DEF NonceAnswer, NonceInv
    <2>3. CASE granted' = granted
      BY <1>4, <2>3, NonceStutter DEF NonceAnswer
    <2>4. CASE granted' = [granted EXCEPT ![n] = 1]
      <3>1. nonceState[n] = "spent" /\ UNCHANGED nonceState
        BY <1>4, <2>1 DEF NonceAnswer, nonceState
      <3>2. nonceGrants[n] < 1 /\ nonceGrants' = [nonceGrants EXCEPT ![n] = @ + 1]
        BY <2>1, <2>2, <2>4 DEF nonceGrants, TypeOK, Tokens
      <3> QED
        BY <2>1, <3>1, <3>2 DEF N!Next, N!Grant
    <2> QED
      BY <1>4, <2>1, <2>2, <2>3, <2>4 DEF NonceAnswer, TypeOK
  <1>5. ASSUME \/ \E r \in Requests : CallFails(r)
               \/ \E w \in Workers : WorkerCrash(w)
               \/ UNCHANGED vars
        PROVE  UNCHANGED N!vars
    BY <1>5, NonceStutter DEF CallFails, WorkerCrash, Dies, vars
  <1> QED
    BY <1>1, <1>2, <1>3, <1>4, <1>5 DEF Next, Arrive, Advance, Quiet

(* The nonces of db/nonces.py are one-time tokens on any number of workers.*)
THEOREM NoncesAreOneTime == Spec => NonceSpec
  <1>1. Init => N!Init
    BY DEF Init, NoRequests, N!Init, nonceState, nonceGrants, Tokens
  <1> QED
    BY <1>1, NonceStep, Invariance, PTL DEF Spec, NonceSpec, N!Spec

-------------------------------------------------------------------------------
(* Login codes: between the look and the update no other request of that   *)
(* worker is inside use_code.                                              *)

(* No step moves a slot to another worker.                                 *)
LEMMA HomeStays == [Next]_vars => home' = home
  BY DEF Next, Arrive, Advance, CallFails, WorkerCrash, Dies, vars

(* The workers are finitely many, and so are those that use a code.        *)
LEMMA ServingFinite ==
  ASSUME TypeOK, NEW S \in SUBSET Serving
  PROVE  IsFiniteSet(S) /\ Cardinality(S) \in Nat /\ Cardinality(S) <= Cardinality(Serving)
  <1>1. Serving \subseteq Workers
    BY DEF TypeOK, Serving
  <1>2. IsFiniteSet(Serving)
    BY <1>1, FS_Subset
  <1> QED
    BY <1>2, FS_Subset, FS_CardinalityType

(* Using names serving workers only.                                       *)
LEMMA UsingServes == ASSUME NEW k PROVE Using(k) \subseteq Serving
  BY DEF Using, Serving, InUseCode

(* A step that starts no use_code and sells no session keeps CodeInv.      *)
LEMMA CodeFrame ==
  ASSUME TypeOK, CodeInv, home' = home, InUseCode' \subseteq InUseCode,
         \A q \in InUseCode' : job'[q].token = job[q].token,
         \A k \in LoginCodes : granted'[k] = granted[k]
  PROVE  CodeInv'
  <1>1. \A k \in LoginCodes : Using(k)' \subseteq Using(k)
    BY DEF Using
  <1>2. ASSUME NEW k \in LoginCodes
        PROVE  (granted[k] + Cardinality(Using(k)) <= Cardinality(Serving))'
    <2>1. /\ Cardinality(Using(k)') <= Cardinality(Using(k))
          /\ Cardinality(Using(k)') \in Nat /\ Cardinality(Using(k)) \in Nat
      <3>1. Using(k) \subseteq Serving /\ Using(k)' \subseteq Serving
        BY <1>1, UsingServes
      <3>2. IsFiniteSet(Using(k)) /\ IsFiniteSet(Using(k)')
        BY <3>1, ServingFinite
      <3> QED
        BY <1>1, <3>2, FS_Subset, FS_CardinalityType
    <2>2. Serving' = Serving
      BY DEF Serving
    <2>3. granted[k] \in Nat /\ Cardinality(Serving) \in Nat
      BY ServingFinite DEF TypeOK, Tokens
    <2>4. granted[k] + Cardinality(Using(k)) <= Cardinality(Serving)
      BY DEF CodeInv
    <2> QED
      BY <2>1, <2>2, <2>3, <2>4
  <1> QED
    BY <1>2 DEF CodeInv

(* A look at a code: it has bought nothing, and the worker was not inside  *)
(* use_code.                                                               *)
LEMMA CodeLookKeeps ==
  ASSUME IInv, CodeInv, home' = home, NEW r \in Requests, NEW k \in LoginCodes, CodeLook(r, k)
  PROVE  CodeInv'
  <1> USE DEF IInv, CodeLook, Begin, At, Goto
  <1>1. /\ pc' = [pc EXCEPT ![r] = "code_mark"]
        /\ job' = [job EXCEPT ![r] = Job("code", k)]
        /\ granted' = granted
    OBVIOUS
  <1>2. InUseCode' = InUseCode \cup {r} /\ \A q \in InUseCode : home[q] # home[r]
    BY <1>1 DEF TypeOK, InUseCode, MayRun, LoopIsFree, AwaitPoints
  <1>3. Serving' = Serving
    BY DEF Serving
  <1>4. \A q \in InUseCode' : q \in Requests /\ (q = r \/ job'[q] = job[q])
    BY <1>1, <1>2 DEF TypeOK, InUseCode
  <1>5. ASSUME NEW j \in LoginCodes
        PROVE  (granted[j] + Cardinality(Using(j)) <= Cardinality(Serving))'
    <2>1. CASE j = k
      <3>1. granted[j] = 0
        BY <2>1 DEF SpendInv, TypeOK, Tokens
      <3>2. Using(j)' \subseteq Serving
        BY <1>2, <1>3 DEF Using, Serving, InUseCode
      <3>3. /\ Cardinality(Using(j)') \in Nat
            /\ Cardinality(Using(j)') <= Cardinality(Serving)
        BY <3>2, ServingFinite
      <3> QED
        BY <1>1, <1>3, <3>1, <3>3
    <2>2. CASE j # k
      <3>1. job'[r].token = k
        BY <1>1, JobType DEF TypeOK, Tokens, Endpoints
      <3>2. Using(j)' = Using(j)
        BY <1>2, <1>4, <2>2, <3>1 DEF Using
      <3> QED
        BY <1>1, <1>3, <3>2 DEF CodeInv
    <2> QED
      BY <2>1, <2>2
  <1> QED
    BY <1>2, <1>5 DEF CodeInv

(* A session is sold by the only request of its worker inside use_code.    *)
LEMMA CodeIssueKeeps ==
  ASSUME IInv, CodeInv, home' = home, NEW r \in Requests, CodeIssue(r)
  PROVE  /\ CodeInv'
         /\ granted[job[r].token] < Cardinality(Serving)
  <1> USE DEF IInv, CodeIssue, At, Goto, Finish, Leave
  <1>0. PICK k \in LoginCodes : k = job[r].token
    BY DEF HolderInv
  <1>1. k \in LoginCodes /\ k \in Tokens /\ granted[k] \in Nat
    BY DEF Tokens, TypeOK
  <1>2. /\ pc' = [pc EXCEPT ![r] = "idle"]
        /\ job' = [job EXCEPT ![r] = NoJob]
        /\ granted' = [granted EXCEPT ![k] = @ + 1]
    BY <1>0
  <1>3. r \in InUseCode /\ InUseCode' = InUseCode \ {r} /\ Serving' = Serving
    BY <1>2 DEF TypeOK, InUseCode, Serving
  <1>4. \A q \in InUseCode' : q \in InUseCode /\ q # r /\ job'[q] = job[q]
    BY <1>2, <1>3 DEF TypeOK, InUseCode
  <1>5. Using(k)' \subseteq Using(k) \ {home[r]} /\ home[r] \in Using(k)
    <2>1. \A q \in InUseCode' : q \in InUseCode /\ home'[q] # home[r]
      BY <1>3, <1>4 DEF CodeInv
    <2> QED
      BY <1>0, <1>3, <1>4, <2>1 DEF Using
  <1>6. \A j \in LoginCodes \ {k} : Using(j)' = Using(j) /\ granted'[j] = granted[j]
    BY <1>0, <1>1, <1>2, <1>3, <1>4 DEF Using, TypeOK, Tokens
  <1>7. /\ Cardinality(Using(k)') + 1 <= Cardinality(Using(k))
        /\ Cardinality(Using(k)') \in Nat /\ Cardinality(Using(k)) \in Nat
    <2>1. IsFiniteSet(Using(k))
      BY UsingServes, ServingFinite
    <2>2. /\ IsFiniteSet(Using(k) \ {home[r]})
          /\ Cardinality(Using(k) \ {home[r]}) = Cardinality(Using(k)) - 1
      BY <1>5, <2>1, FS_RemoveElement
    <2>3. /\ IsFiniteSet(Using(k)')
          /\ Cardinality(Using(k)') <= Cardinality(Using(k) \ {home[r]})
      BY <1>5, <2>2, FS_Subset
    <2> QED
      BY <2>1, <2>2, <2>3, FS_CardinalityType
  <1>8. Cardinality(Serving) \in Nat /\ granted'[k] = granted[k] + 1
    BY <1>1, <1>2, ServingFinite DEF TypeOK
  <1>9. granted[k] + Cardinality(Using(k)) <= Cardinality(Serving)
    BY <1>1 DEF CodeInv
  <1>10. (granted[k] + Cardinality(Using(k)) <= Cardinality(Serving))'
    BY <1>1, <1>3, <1>7, <1>8, <1>9
  <1>11. \A j \in LoginCodes : (granted[j] + Cardinality(Using(j)) <= Cardinality(Serving))'
    <2> TAKE j \in LoginCodes
    <2>1. CASE j = k
      BY <1>10, <2>1
    <2>2. CASE j # k
      BY <1>3, <1>6, <2>2 DEF CodeInv
    <2> QED
      BY <2>1, <2>2
  <1>12. \A q, p \in InUseCode' : home'[q] = home'[p] => q = p
    BY <1>4 DEF CodeInv
  <1>13. granted[k] < Cardinality(Serving)
    BY <1>1, <1>7, <1>8, <1>9
  <1> QED
    BY <1>0, <1>11, <1>12, <1>13 DEF CodeInv

(* Every step preserves CodeInv.                                           *)
LEMMA CodeNext == IInv /\ CodeInv /\ [Next]_vars => CodeInv'
  <1> SUFFICES ASSUME IInv, CodeInv, [Next]_vars PROVE CodeInv'
    OBVIOUS
  <1>0. home' = home /\ TypeOK
    BY HomeStays DEF IInv
  <1> USE DEF IInv, At, Goto, Finish, Leave, Begin, db
  <1>1. ASSUME NEW r \in Requests, NEW k \in LoginCodes, CodeLook(r, k) PROVE CodeInv'
    BY <1>0, <1>1, CodeLookKeeps
  <1>2. ASSUME NEW r \in Requests, CodeIssue(r) PROVE CodeInv'
    BY <1>0, <1>2, CodeIssueKeeps
  <1>3. ASSUME NEW r \in Requests, Quiet(r), ~\E k \in LoginCodes : CodeLook(r, k)
        PROVE  CodeInv'
    <2>1. /\ granted' = granted
          /\ InUseCode' \subseteq InUseCode
          /\ \A q \in InUseCode' : job'[q] = job[q]
      BY <1>3 DEF Quiet, GenerateLook, ExchangeLook, SignLook, SignReply, NonceLook,
         TypeOK, InUseCode
    <2> QED
      BY <1>0, <2>1, CodeFrame
  <1>4. ASSUME NEW r \in Requests,
               GenerateInsert(r) \/ CodeMark(r) \/ CaSign(r) \/ NonceInsert(r) \/ NonceAnswer(r)
        PROVE  CodeInv'
    <2>1. CaSign(r) \/ NonceInsert(r) \/ NonceAnswer(r) => job[r].token \in Nonces
      BY <1>4 DEF CaSign, NonceInsert, NonceAnswer, HolderInv, AwaitPoints
    <2>2. \A k \in LoginCodes : granted'[k] = granted[k]
      BY <1>4, <2>1 DEF GenerateInsert, CodeMark, CaSign, NonceInsert, NonceAnswer, TypeOK, Tokens
    <2>3. InUseCode' \subseteq InUseCode
      BY <1>4 DEF GenerateInsert, CodeMark, CaSign, NonceInsert, NonceAnswer, TypeOK, InUseCode
    <2>4. \A q \in InUseCode' : job'[q] = job[q]
      BY <1>4 DEF GenerateInsert, CodeMark, CaSign, NonceInsert, NonceAnswer, TypeOK, InUseCode
    <2> QED
      BY <1>0, <2>2, <2>3, <2>4, CodeFrame
  <1>5. ASSUME \/ \E r \in Requests : CallFails(r)
               \/ \E w \in Workers : WorkerCrash(w)
               \/ UNCHANGED vars
        PROVE  CodeInv'
    <2>1. /\ granted' = granted
          /\ InUseCode' \subseteq InUseCode
          /\ \A q \in InUseCode' : job'[q] = job[q]
      BY <1>5 DEF CallFails, WorkerCrash, Dies, vars, TypeOK, InUseCode
    <2> QED
      BY <1>0, <2>1, CodeFrame
  <1> QED
    BY <1>1, <1>2, <1>3, <1>4, <1>5 DEF Next, Arrive, Advance, Quiet

(* CodeInv holds initially: nothing is sold and nobody is inside use_code. *)
LEMMA CodeInit == Init => CodeInv
  <1> SUFFICES ASSUME Init PROVE CodeInv
    OBVIOUS
  <1>1. InUseCode = {} /\ \A k \in LoginCodes : granted[k] = 0 /\ Using(k) = {}
    BY DEF Init, NoRequests, InUseCode, Using, Tokens
  <1>2. Cardinality({}) = 0
    BY FS_EmptySet
  <1>3. Cardinality(Serving) \in Nat
    BY InitInv, ServingFinite DEF IInv
  <1> QED
    BY <1>1, <1>2, <1>3 DEF CodeInv

(* However many requests race for it on however many workers, a login code *)
(* buys no more sessions than workers serve (LoginCode.use_code).          *)
THEOREM CodeOnce == Spec => []CodeBuysOnePerWorker
  <1>1. IInv /\ CodeInv => CodeBuysOnePerWorker
    <2> SUFFICES ASSUME IInv, CodeInv, NEW k \in LoginCodes
                 PROVE  granted[k] <= Cardinality(Serving)
      BY DEF CodeBuysOnePerWorker
    <2>1. /\ granted[k] \in Nat /\ Cardinality(Using(k)) \in Nat
          /\ Cardinality(Serving) \in Nat
      BY UsingServes, ServingFinite DEF IInv, TypeOK, Tokens
    <2>2. granted[k] + Cardinality(Using(k)) <= Cardinality(Serving)
      BY DEF CodeInv
    <2> QED
      BY <2>1, <2>2
  <1> QED
    BY <1>1, CodeInit, CodeNext, Invariance, PTL DEF Spec

(* Every other step leaves what OneTime sees of the login codes alone.     *)
LEMMA CodeStutter ==
  ASSUME UNCHANGED <<logincodes, used, home>>, \A k \in LoginCodes : granted'[k] = granted[k]
  PROVE  UNCHANGED C!vars
  BY DEF C!vars, codeState, codeGrants, Serving

(* A step is a step of OneTime on the codes, or a stutter.                 *)
LEMMA CodeStep == IInv /\ CodeInv /\ [Next]_vars => [C!Next]_(C!vars)
  <1> SUFFICES ASSUME IInv, CodeInv, [Next]_vars PROVE [C!Next]_(C!vars)
    OBVIOUS
  <1>0. home' = home /\ Serving' = Serving
    BY HomeStays DEF Serving
  <1> USE DEF IInv, At, Goto, Finish, Leave, db
  <1>1. ASSUME NEW r \in Requests, Quiet(r) PROVE UNCHANGED C!vars
    BY <1>0, <1>1, CodeStutter DEF Begin, Quiet, GenerateLook, CodeLook, ExchangeLook,
       SignLook, SignReply, NonceLook
  <1>2. ASSUME NEW r \in Requests, CaSign(r) \/ NonceInsert(r) \/ NonceAnswer(r)
        PROVE  UNCHANGED C!vars
    <2>1. job[r].token \notin LoginCodes
      BY <1>2 DEF CaSign, NonceInsert, NonceAnswer, HolderInv, AwaitPoints
    <2> QED
      BY <1>0, <1>2, <2>1, CodeStutter DEF CaSign, NonceInsert, NonceAnswer, TypeOK, Tokens
  <1>3. ASSUME NEW r \in Requests, GenerateInsert(r) PROVE [C!Next]_(C!vars)
    <2> DEFINE k == job[r].token
    <2>1. k \in LoginCodes
      BY <1>3 DEF GenerateInsert, HolderInv
    <2>2. CASE k \in logincodes
      BY <1>0, <1>3, <2>2, CodeStutter DEF GenerateInsert
    <2>3. CASE k \notin logincodes
      <3>1. codeState[k] = "absent" /\ codeState' = [codeState EXCEPT ![k] = "fresh"]
        BY <1>3, <2>1, <2>3 DEF GenerateInsert, codeState, TypeOK
      <3>2. UNCHANGED codeGrants
        BY <1>3 DEF GenerateInsert, codeGrants
      <3> QED
        BY <1>0, <2>1, <3>1, <3>2 DEF C!Next, C!Issue
    <2> QED
      BY <2>2, <2>3
  <1>4. ASSUME NEW r \in Requests, CodeMark(r) PROVE [C!Next]_(C!vars)
    <2> DEFINE k == job[r].token
    <2>1. k \in LoginCodes /\ k \in logincodes
      BY <1>4 DEF CodeMark, HolderInv
    <2>2. UNCHANGED codeGrants
      BY <1>4 DEF CodeMark, codeGrants
    <2>3. CASE k \in used
      BY <1>0, <1>4, <2>3, CodeStutter DEF CodeMark
    <2>4. CASE k \notin used
      <3>1. codeState[k] = "fresh" /\ codeState' = [codeState EXCEPT ![k] = "spent"]
        BY <1>4, <2>1, <2>4 DEF CodeMark, codeState
      <3> QED
        BY <1>0, <2>1, <2>2, <3>1 DEF C!Next, C!Spend
    <2> QED
      BY <2>3, <2>4
  <1>5. ASSUME NEW r \in Requests, CodeIssue(r) PROVE [C!Next]_(C!vars)
    <2> DEFINE k == job[r].token
    <2>1. k \in LoginCodes /\ k \in Tokens /\ k \in used
      BY <1>5 DEF CodeIssue, HolderInv, SpendInv, Granting, TypeOK, Tokens
    <2>2. granted[k] < Cardinality(Serving)
      BY <1>0, <1>5, CodeIssueKeeps
    <2>3. codeState[k] = "spent" /\ UNCHANGED codeState
      BY <1>5, <2>1 DEF CodeIssue, codeState
    <2>4. /\ codeGrants[k] < Cardinality(Serving)
          /\ codeGrants' = [codeGrants EXCEPT ![k] = @ + 1]
      BY <1>5, <2>1, <2>2 DEF CodeIssue, codeGrants, TypeOK, Tokens
    <2> QED
      BY <1>0, <2>1, <2>3, <2>4 DEF C!Next, C!Grant
  <1>6. ASSUME \/ \E r \in Requests : CallFails(r)
               \/ \E w \in Workers : WorkerCrash(w)
               \/ UNCHANGED vars
        PROVE  UNCHANGED C!vars
    BY <1>0, <1>6, CodeStutter DEF CallFails, WorkerCrash, Dies, vars
  <1> QED
    BY <1>1, <1>2, <1>3, <1>4, <1>5, <1>6 DEF Next, Arrive, Advance, Quiet

(* The login codes of db/logincodes.py implement OneTime with a limit of   *)
(* one session per serving worker, in every deployment.                    *)
THEOREM CodesAreOneTime == Spec => CodeSpec
  <1>1. Init => C!Init
    <2> SUFFICES ASSUME Init PROVE C!Init
      OBVIOUS
    <2>1. Cardinality(Serving) \in Nat
      BY InitInv, ServingFinite DEF IInv
    <2> QED
      BY <2>1 DEF Init, NoRequests, C!Init, codeState, codeGrants, Tokens
  <1>2. IInv /\ CodeInv /\ [Next]_vars => [C!Next]_(C!vars)
    BY CodeStep
  <1> QED
    BY <1>1, <1>2, CodeInit, CodeNext, Invariance, PTL DEF Spec, CodeSpec, C!Spec

-------------------------------------------------------------------------------
(* What is spent is in hand.                                               *)

(* Unless something fails, only the request that hands out what a token    *)
(* buys stops being about to, and then the token has bought it.            *)
LEMMA SpentFrame ==
  ASSUME IInv, SpentIsInHand, failures' = failures, UNCHANGED <<used, seentokens>>,
         \A t \in Tokens : granted[t] > 0 => granted'[t] > 0,
         \A q \in Requests : pc[q] \in Granting =>
           \/ pc'[q] = pc[q] /\ job'[q] = job[q]
           \/ granted'[job[q].token] > 0
           \/ job[q].token \in Nonces \ AdminNonces
  PROVE  SpentIsInHand'
  <1> SUFFICES ASSUME failures = 0 PROVE SpentIsInHand'
    BY DEF SpentIsInHand
  <1>1. used \subseteq Tokens /\ seentokens \subseteq Tokens /\ used \cap Nonces = {}
    BY DEF IInv, TypeOK, Tokens
  <1>2. \A k \in used : \/ granted'[k] > 0
                        \/ \E r \in Requests : pc'[r] = "code_issue" /\ job'[r].token = k
    <2> TAKE k \in used
    <2>1. CASE granted[k] > 0
      BY <1>1, <2>1
    <2>2. CASE \E r \in Requests : pc[r] = "code_issue" /\ job[r].token = k
      BY <1>1, <2>2 DEF Granting
    <2> QED
      BY <2>1, <2>2 DEF SpentIsInHand
  <1>3. \A n \in seentokens \cap AdminNonces :
          \/ granted'[n] > 0
          \/ \E r \in Requests : pc'[r] = "nonce_answer" /\ job'[r].token = n
    <2> TAKE n \in seentokens \cap AdminNonces
    <2>1. CASE granted[n] > 0
      BY <1>1, <2>1
    <2>2. CASE \E r \in Requests : pc[r] = "nonce_answer" /\ job[r].token = n
      BY <1>1, <2>2 DEF Granting
    <2> QED
      BY <2>1, <2>2 DEF SpentIsInHand
  <1> QED
    BY <1>2, <1>3 DEF SpentIsInHand

(* Every step keeps it.                                                    *)
LEMMA SpentStep == ASSUME IInv, SpentIsInHand, [Next]_vars PROVE SpentIsInHand'
  <1> USE DEF IInv, At, Goto, Finish, Leave, db
  <1>1. ASSUME NEW r \in Requests, Quiet(r) \/ GenerateInsert(r) \/ CaSign(r) PROVE SpentIsInHand'
    <2>1. /\ UNCHANGED <<used, seentokens, granted, failures>>
          /\ \A q \in Requests : pc[q] \in Granting => pc'[q] = pc[q] /\ job'[q] = job[q]
      BY <1>1 DEF Begin, Quiet, GenerateLook, CodeLook, ExchangeLook, SignLook, SignReply,
                  NonceLook, GenerateInsert, CaSign, TypeOK, Granting
    <2> QED
      BY <2>1, SpentFrame
  <1>2. ASSUME NEW r \in Requests, CodeMark(r) PROVE SpentIsInHand'
    <2>1. /\ used' = used \cup {job[r].token} /\ UNCHANGED <<seentokens, granted, failures, job>>
          /\ pc[r] = "code_mark" /\ pc' = [pc EXCEPT ![r] = "code_issue"]
      BY <1>2 DEF CodeMark
    <2>2. pc'[r] = "code_issue" /\ \A q \in Requests \ {r} : pc'[q] = pc[q]
      BY <2>1 DEF TypeOK
    <2> QED
      BY <2>1, <2>2 DEF SpentIsInHand
  <1>3. ASSUME NEW r \in Requests, CodeIssue(r) \/ NonceAnswer(r) PROVE SpentIsInHand'
    <2> DEFINE t == job[r].token
    <2>1. t \in Tokens /\ granted[t] \in Nat /\ (pc[r] = "nonce_answer" => t \in Nonces)
      BY <1>3 DEF CodeIssue, NonceAnswer, HolderInv, TypeOK, Tokens
    <2>2. /\ pc[r] = "code_issue" \/ pc[r] = "nonce_answer"
          /\ UNCHANGED <<used, seentokens, failures>>
          /\ \A q \in Requests \ {r} : pc'[q] = pc[q] /\ job'[q] = job[q]
      BY <1>3 DEF CodeIssue, NonceAnswer, TypeOK
    <2>3. \/ granted' = [granted EXCEPT ![t] = @ + 1]
          \/ granted' = granted /\ pc[r] = "nonce_answer" /\ t \notin AdminNonces
      BY <1>3 DEF CodeIssue, NonceAnswer
    <2>4. /\ \A x \in Tokens : granted[x] > 0 => granted'[x] > 0
          /\ \/ granted'[t] > 0
             \/ t \in Nonces \ AdminNonces
      BY <2>1, <2>3 DEF TypeOK
    <2> QED
      BY <2>2, <2>4, SpentFrame
  <1>4. ASSUME NEW r \in Requests, NonceInsert(r) PROVE SpentIsInHand'
    <2> DEFINE n == job[r].token
    <2>1. pc[r] = "nonce_insert" /\ UNCHANGED <<used, granted, failures>>
      BY <1>4 DEF NonceInsert
    <2>2. CASE n \in seentokens
      <3>1. UNCHANGED seentokens
            /\ \A q \in Requests \ {r} : pc'[q] = pc[q] /\ job'[q] = job[q]
        BY <1>4, <2>2 DEF NonceInsert, TypeOK
      <3> QED
        BY <2>1, <3>1, SpentFrame DEF Granting
    <2>3. CASE n \notin seentokens
      <3>1. seentokens' = seentokens \cup {n} /\ job' = job
            /\ pc'[r] = "nonce_answer" /\ \A q \in Requests \ {r} : pc'[q] = pc[q]
        BY <1>4, <2>3 DEF NonceInsert, TypeOK
      <3> QED
        BY <2>1, <3>1 DEF SpentIsInHand
    <2> QED
      BY <2>2, <2>3
  <1>5. CASE UNCHANGED vars
    BY <1>5, SpentFrame DEF vars
  <1>6. CASE \/ \E r \in Requests : CallFails(r)
             \/ \E w \in Workers : WorkerCrash(w)
    BY <1>6 DEF CallFails, WorkerCrash, Dies, TypeOK, SpentIsInHand
  <1> QED
    BY <1>1, <1>2, <1>3, <1>4, <1>5, <1>6 DEF Next, Arrive, Advance, Quiet

(* The safety half of SpentIsGranted: until something fails, a code or a   *)
(* nonce that is spent and has bought nothing yet is held by the request   *)
(* that spent it, which has nothing left to do but to hand it out          *)
(* (LoginCode.use_code, SeenToken.use_token).                              *)
THEOREM NothingSpentInVain == Spec => []SpentIsInHand
  <1>1. Init => SpentIsInHand
    BY DEF Init, SpentIsInHand
  <1>2. IInv /\ SpentIsInHand /\ [Next]_vars => SpentIsInHand'
    BY SpentStep
  <1> QED
    BY <1>1, <1>2, Invariance, PTL DEF Spec

-------------------------------------------------------------------------------
(* Invite codes                                                            *)

(* What a pool a request works on must look like, wherever requests run.   *)
TargetInv ==
  \A r \in Requests :
    /\ pc[r] # "idle" => job[r].code \in InviteCodes
    /\ pc[r] \in {"set_commit", "set_refresh", "del_commit"} \cup Enrolling => pools[job[r].code].row
    /\ pc[r] \in Enrolling => job[r].cs \in Callsigns

(* The invariant for any number of workers.                                *)
PoolInv == PoolTypeOK /\ TargetInv

-------------------------------------------------------------------------------
(* What a handler remembers of the pool it loaded is well typed.           *)
LEMMA PoolJobType ==
  /\ \A k \in InviteCodes, c \in Callsigns \cup {NoPool}, row \in PoolRow \cup {NoRow}, w \in BOOLEAN :
       [code |-> k, cs |-> c, seen |-> row, want |-> w] \in PoolJobs
  /\ NoPoolJob \in PoolJobs
  BY DEF PoolJobs, NoPoolJob

(* The values written to a row are rows.                                   *)
LEMMA RowType ==
  /\ NewPool \in PoolRow
  /\ \A row \in PoolRow, w \in BOOLEAN :
       /\ [row EXCEPT !.active = w] \in PoolRow
       /\ [row EXCEPT !.deleted = TRUE] \in PoolRow
  /\ \A row \in PoolRow : row.row
  /\ ~NoRow.row
  BY DEF NewPool, PoolRow, NoRow

(* The invariant holds initially.                                          *)
LEMMA PoolInitInv == PoolInit => PoolInv
  BY PoolJobType DEF PoolInit, NoRequests, PoolInv, PoolTypeOK, TargetInv, Enrolling

(* An arriving request has found the pool it will work on; an enrollment   *)
(* has found an active one.                                                *)
LEMMA PoolArriveShape ==
  ASSUME NEW r \in Requests, PoolArrive(r)
  PROVE  \E k \in InviteCodes, c \in Callsigns \cup {NoPool}, w \in BOOLEAN,
            label \in {"new_insert", "set_commit", "del_commit", "enr_look"} :
           /\ PoolBegin(r, label, k, c, w)
           /\ label # "new_insert" => Found(k)
           /\ label = "enr_look" => c \in Callsigns /\ Usable(k)
  BY DEF PoolArrive, CreateLook, SetActiveLoad, DeleteLoad, EnrollLoad, Usable

(* What a step counts is a number again.                                   *)
LEMMA LateType == PoolTypeOK /\ CountLate => late' \in [InviteCodes -> Nat]
  BY DEF PoolTypeOK, CountLate

(* A request that arrives preserves the invariant.                         *)
LEMMA PoolArriveInv ==
  ASSUME PoolInv, NEW r \in Requests, PoolArrive(r), late' \in [InviteCodes -> Nat]
  PROVE  PoolInv'
  <1>0. UNCHANGED home
    BY DEF PoolArrive
  <1>1. PICK k \in InviteCodes, c \in Callsigns \cup {NoPool}, w \in BOOLEAN,
             label \in {"new_insert", "set_commit", "del_commit", "enr_look"} :
          /\ PoolBegin(r, label, k, c, w)
          /\ label # "new_insert" => Found(k)
          /\ label = "enr_look" => c \in Callsigns /\ Usable(k)
    BY PoolArriveShape
  <1>2. [code |-> k, cs |-> c, seen |-> pools[k], want |-> w] \in PoolJobs
    BY PoolJobType DEF PoolInv, PoolTypeOK
  <1>3. PoolTypeOK'
    BY <1>0, <1>1, <1>2 DEF PoolInv, PoolBegin, Goto, PoolTypeOK, PoolPlaces, Enrolling
  <1>4. TargetInv'
    BY <1>1, <1>2 DEF PoolInv, PoolBegin, Goto, PoolTypeOK, TargetInv, Enrolling, Found, Usable
  <1> QED
    BY <1>3, <1>4 DEF PoolInv

(* Every step of a handler preserves the invariant.                        *)
LEMMA PoolAdvanceInv ==
  ASSUME PoolInv, NEW r \in Requests, PoolAdvance(r), late' \in [InviteCodes -> Nat]
  PROVE  PoolInv'
  <1> DEFINE k == job[r].code
  <1> USE DEF PoolInv, PoolTypeOK, TargetInv, PoolAt, Goto, PoolEnd, Leave, PoolPlaces, Enrolling
  <1>0. UNCHANGED home
    BY DEF PoolAdvance
  <1>1. CASE CreateInsert(r)
    <2>1. pools' = pools \/ (k \in InviteCodes /\ pools' = [pools EXCEPT ![k] = NewPool])
      BY <1>1 DEF CreateInsert
    <2>2. /\ pools' \in [InviteCodes -> PoolRow \cup {NoRow}]
          /\ \A j \in InviteCodes : pools[j].row => pools'[j].row
      BY <2>1, RowType
    <2>3. /\ UNCHANGED <<enrolled, poolOf, failures>>
          /\ pc' = [pc EXCEPT ![r] = "idle"]
          /\ job' = [job EXCEPT ![r] = NoPoolJob]
      BY <1>1 DEF CreateInsert
    <2>4. PoolTypeOK'
      BY <1>0, <2>2, <2>3, PoolJobType
    <2>5. TargetInv'
      BY <2>2, <2>3
    <2> QED
      BY <2>4, <2>5
  <1>2. CASE SetActiveCommit(r)
    <2>1. k \in InviteCodes /\ pools[k] \in PoolRow /\ job[r].want \in BOOLEAN
      BY <1>2, RowType DEF SetActiveCommit, PoolJobs
    <2>2. pools' = pools \/ pools' = [pools EXCEPT ![k] = [pools[k] EXCEPT !.active = job[r].want]]
      BY <1>2 DEF SetActiveCommit
    <2> QED
      BY <1>0, <1>2, <2>1, <2>2, RowType DEF SetActiveCommit
  <1>3. CASE DeleteCommit(r)
    <2>1. k \in InviteCodes /\ pools[k] \in PoolRow
      BY <1>3, RowType DEF DeleteCommit
    <2>2. pools' = [pools EXCEPT ![k] = [pools[k] EXCEPT !.deleted = TRUE]]
      BY <1>3 DEF DeleteCommit
    <2>3. pools' \in [InviteCodes -> PoolRow \cup {NoRow}] /\ \A j \in InviteCodes : pools[j].row => pools'[j].row
      BY <2>1, <2>2, RowType
    <2>4. /\ UNCHANGED <<enrolled, poolOf, failures>>
          /\ pc' = [pc EXCEPT ![r] = "idle"]
          /\ job' = [job EXCEPT ![r] = NoPoolJob]
      BY <1>3 DEF DeleteCommit
    <2>5. PoolTypeOK'
      BY <1>0, <2>3, <2>4, PoolJobType
    <2>6. TargetInv'
      BY <2>3, <2>4
    <2> QED
      BY <2>5, <2>6
  <1>4. CASE SetActiveAnswer(r) \/ EnrollLook(r) \/ EnrollCreate(r)
    BY <1>0, <1>4, PoolJobType DEF SetActiveAnswer, EnrollLook, EnrollCreate
  <1>5. CASE EnrollInsert(r)
    <2>1. k \in InviteCodes /\ pools[k].row /\ job[r].cs \in Callsigns
      BY <1>5 DEF EnrollInsert
    <2> QED
      BY <1>0, <1>5, <2>1, PoolJobType DEF EnrollInsert
  <1> QED
    BY <1>1, <1>2, <1>3, <1>4, <1>5 DEF PoolAdvance

(* Every step preserves the invariant.                                     *)
LEMMA PoolNextInv == PoolInv /\ [PoolNext]_poolVars => PoolInv'
  <1> SUFFICES ASSUME PoolInv, [PoolNext]_poolVars PROVE PoolInv'
    OBVIOUS
  <1>0. CASE PoolMove /\ CountLate
    <2>0. late' \in [InviteCodes -> Nat]
      BY <1>0, LateType DEF PoolInv
    <2>1. ASSUME NEW c \in Callsigns, EnrollElsewhere(c) PROVE PoolInv'
      BY <2>0, <2>1 DEF EnrollElsewhere, PoolInv, PoolTypeOK, TargetInv
    <2>2. ASSUME NEW w \in Workers, PoolCrash(w) PROVE PoolInv'
      BY <2>0, <2>2, PoolJobType DEF PoolCrash, Dies, PoolInv, PoolTypeOK, TargetInv, Enrolling
    <2> QED
      BY <1>0, <2>0, <2>1, <2>2, PoolArriveInv, PoolAdvanceInv DEF PoolMove
  <1>1. CASE UNCHANGED poolVars
    BY <1>1 DEF poolVars, PoolInv, PoolTypeOK, TargetInv
  <1> QED
    BY <1>0, <1>1 DEF PoolNext

(* The tables keep their types and every enrollment names an existing pool.*)
THEOREM PoolsCorrect == PoolSpec => []PoolTypeOK
  <1>1. PoolInv => PoolTypeOK
    BY DEF PoolInv
  <1> QED
    BY <1>1, PoolInitInv, PoolNextInv, PTL DEF PoolSpec

(* A deleted pool stays deleted, whatever stale copy of it is written, and *)
(* an enrollment keeps its pool (EnrollmentPool.set_active, delete).       *)
THEOREM FinalPools == PoolSpec => PoolsAreFinal
  <1> DEFINE Final == /\ \A k \in InviteCodes : pools[k].deleted => pools'[k].deleted
                      /\ \A c \in enrolled : c \in enrolled' /\ poolOf'[c] = poolOf[c]
  <1>1. ASSUME PoolInv, [PoolNext]_poolVars PROVE [Final]_poolVars
    <2>1. ASSUME NEW r \in Requests, PoolArrive(r) PROVE Final
      BY <2>1 DEF PoolArrive, CreateLook, SetActiveLoad, DeleteLoad, EnrollLoad, PoolBegin
    <2>2. ASSUME NEW r \in Requests, CreateInsert(r) PROVE Final
      <3>1. UNCHANGED <<enrolled, poolOf>>
        BY <2>2 DEF CreateInsert
      <3>2. \A k \in InviteCodes : ~pools[k].row => ~pools[k].deleted
        BY <1>1, RowType DEF PoolInv, PoolTypeOK, NoRow
      <3>3. pools' = pools \/ \E j : ~pools[j].row /\ pools' = [pools EXCEPT ![j] = NewPool]
        BY <2>2 DEF CreateInsert
      <3> QED
        BY <1>1, <3>1, <3>2, <3>3 DEF PoolInv, PoolTypeOK
    <2>3. ASSUME NEW r \in Requests, SetActiveCommit(r) PROVE Final
      BY <2>3 DEF SetActiveCommit, PoolAt, PoolInv, PoolTypeOK, TargetInv, PoolRow, NoRow
    <2>4. ASSUME NEW r \in Requests, DeleteCommit(r) PROVE Final
      BY <2>4 DEF DeleteCommit, PoolAt, PoolInv, PoolTypeOK, TargetInv, PoolRow, NoRow
    <2>5. ASSUME NEW r \in Requests, SetActiveAnswer(r) \/ EnrollLook(r) \/ EnrollCreate(r) PROVE Final
      BY <2>5 DEF SetActiveAnswer, EnrollLook, EnrollCreate
    <2>6. ASSUME NEW r \in Requests, EnrollInsert(r) PROVE Final
      <3>1. \/ UNCHANGED <<pools, enrolled, poolOf>>
            \/ \E c : /\ c \notin enrolled
                      /\ UNCHANGED pools
                      /\ enrolled' = enrolled \cup {c}
                      /\ poolOf' = [poolOf EXCEPT ![c] = job[r].code]
        BY <2>6 DEF EnrollInsert
      <3> QED
        BY <1>1, <3>1 DEF PoolInv, PoolTypeOK
    <2>7. ASSUME NEW c \in Callsigns, EnrollElsewhere(c) PROVE Final
      BY <2>7 DEF EnrollElsewhere
    <2>8. ASSUME NEW w \in Workers, PoolCrash(w) PROVE Final
      BY <2>8 DEF PoolCrash, Dies
    <2> QED
      BY <1>1, <2>1, <2>2, <2>3, <2>4, <2>5, <2>6, <2>7, <2>8 DEF PoolNext, PoolMove, PoolAdvance
  <1> QED
    BY <1>1, PoolInitInv, PoolNextInv, PTL DEF PoolSpec, PoolsAreFinal

-------------------------------------------------------------------------------
(* Pools that are closed while clients are enrolling.                      *)

(* No step moves a slot to another worker.                                 *)
LEMMA PoolHomeStays == [PoolNext]_poolVars => home' = home /\ Serving' = Serving
  BY DEF PoolNext, PoolMove, PoolArrive, PoolAdvance, EnrollElsewhere, PoolCrash, Dies, poolVars,
         Serving

(* The workers are finitely many, and so are those that enroll for a pool. *)
LEMMA PoolServingFinite ==
  ASSUME PoolTypeOK, NEW S \in SUBSET Serving
  PROVE  IsFiniteSet(S) /\ Cardinality(S) \in Nat /\ Cardinality(S) <= Cardinality(Serving)
  <1>1. Serving \subseteq Workers
    BY DEF PoolTypeOK, Serving
  <1>2. IsFiniteSet(Serving)
    BY <1>1, FS_Subset
  <1> QED
    BY <1>2, FS_Subset, FS_CardinalityType

(* Inside names serving workers only.                                      *)
LEMMA InsideServes == ASSUME NEW k PROVE Inside(k) \subseteq Serving
  BY DEF Inside, Serving

(* Sets of serving workers of which one lacks a member of the other.       *)
LEMMA OneLess ==
  ASSUME PoolTypeOK, NEW T \in SUBSET Serving, NEW w \in T, NEW S \in SUBSET (T \ {w})
  PROVE  /\ Cardinality(S) \in Nat /\ Cardinality(T) \in Nat
         /\ Cardinality(S) < Cardinality(T)
  <1>1. IsFiniteSet(T)
    BY PoolServingFinite
  <1>2. IsFiniteSet(T \ {w}) /\ Cardinality(T \ {w}) = Cardinality(T) - 1
    BY <1>1, FS_RemoveElement
  <1>3. IsFiniteSet(S) /\ Cardinality(S) <= Cardinality(T \ {w})
    BY <1>2, FS_Subset
  <1> QED
    BY <1>1, <1>2, <1>3, FS_CardinalityType

(* A step that starts no handler of the pool and lets nobody in keeps the  *)
(* pool's part of LateInv, closed or not, unless it closes it.             *)
LEMMA LateFrame ==
  ASSUME PoolTypeOK, LateInv, CountLate, Serving' = Serving, NEW k \in InviteCodes,
         Inside(k)' \subseteq Inside(k), ~Takes(k),
         Usable(k)' \/ ~Usable(k)
  PROVE  (IF Usable(k) THEN late[k] = 0
          ELSE late[k] + Cardinality(Inside(k)) < Cardinality(Serving))'
  <1>1. CASE Usable(k)'
    BY <1>1 DEF CountLate
  <1>2. CASE ~Usable(k)'
    <2>1. ~Usable(k) /\ late'[k] = late[k]
      BY <1>2 DEF CountLate
    <2>2. IsFiniteSet(Inside(k)) /\ IsFiniteSet(Inside(k)')
      BY InsideServes, PoolServingFinite
    <2>3. /\ Cardinality(Inside(k)') <= Cardinality(Inside(k))
          /\ Cardinality(Inside(k)') \in Nat /\ Cardinality(Inside(k)) \in Nat
      BY <2>2, FS_Subset, FS_CardinalityType
    <2>4. late[k] \in Nat /\ Cardinality(Serving) \in Nat
      BY PoolServingFinite DEF PoolTypeOK
    <2>5. late[k] + Cardinality(Inside(k)) < Cardinality(Serving)
      BY <2>1 DEF LateInv
    <2> QED
      BY <1>2, <2>1, <2>3, <2>4, <2>5
  <1> QED
    BY <1>1, <1>2

(* A step that closes the pool: its request was usable and enrolls nobody. *)
LEMMA LateClosed ==
  ASSUME PoolTypeOK, LateInv, CountLate, Serving' = Serving, NEW k \in InviteCodes,
         ~Takes(k), Usable(k), NEW r \in Requests, home[r] \notin Inside(k)',
         Inside(k)' \subseteq Serving
  PROVE  (IF Usable(k) THEN late[k] = 0
          ELSE late[k] + Cardinality(Inside(k)) < Cardinality(Serving))'
  <1>1. CASE Usable(k)'
    BY <1>1 DEF CountLate
  <1>2. CASE ~Usable(k)'
    <2>1. late'[k] = 0
      BY <1>2 DEF CountLate, LateInv
    <2>2. home[r] \in Serving /\ Inside(k)' \subseteq Serving \ {home[r]}
      BY DEF Serving
    <2>3. /\ Cardinality(Inside(k)') \in Nat /\ Cardinality(Serving) \in Nat
          /\ Cardinality(Inside(k)') < Cardinality(Serving)
      BY <2>2, OneLess
    <2> QED
      BY <1>2, <2>1, <2>3
  <1> QED
    BY <1>1, <1>2

(* Nobody is inside a handler on the worker of a request that arrives; an  *)
(* enrollment finds its pool usable.                                       *)
LEMMA LateArrive ==
  ASSUME PoolInv, LateInv, CountLate, Serving' = Serving, NEW r \in Requests, PoolArrive(r)
  PROVE  LateInv'
  <1>0. home' = home
    BY DEF PoolArrive
  <1>1. PICK k \in InviteCodes, c \in Callsigns \cup {NoPool}, w \in BOOLEAN,
             label \in {"new_insert", "set_commit", "del_commit", "enr_look"} :
          /\ PoolBegin(r, label, k, c, w)
          /\ label # "new_insert" => Found(k)
          /\ label = "enr_look" => c \in Callsigns /\ Usable(k)
    BY PoolArriveShape
  <1>2. /\ pc[r] = "idle" /\ \A q \in Requests \ {r} : home[q] = home[r] => pc[q] = "idle"
        /\ pc' = [pc EXCEPT ![r] = label]
        /\ job' = [job EXCEPT ![r] = [code |-> k, cs |-> c, seen |-> pools[k], want |-> w]]
        /\ UNCHANGED <<pools, poolOf>>
    BY <1>1 DEF PoolBegin, PoolAt, PoolMayRun, LoopIsFree, Goto
  <1>3. \A q \in Requests : q # r => pc'[q] = pc[q] /\ job'[q] = job[q]
    BY <1>2 DEF PoolInv, PoolTypeOK
  <1>4. pc'[r] = label /\ job'[r].code = k
    BY <1>2 DEF PoolInv, PoolTypeOK
  <1>5. \A q, p \in Requests : pc'[q] # "idle" /\ pc'[p] # "idle" /\ home'[q] = home'[p] => q = p
    BY <1>0, <1>2, <1>3 DEF LateInv
  <1>6. ASSUME NEW j \in InviteCodes
        PROVE  (IF Usable(j) THEN late[j] = 0
                ELSE late[j] + Cardinality(Inside(j)) < Cardinality(Serving))'
    <2>1. ~Takes(j) /\ Usable(j)' = Usable(j)
      BY <1>2 DEF Takes, Usable, Found
    <2>2. CASE Usable(j)
      BY <2>1, <2>2 DEF CountLate
    <2>3. CASE ~Usable(j)
      <3>1. Inside(j)' \subseteq Inside(j)
        BY <1>0, <1>1, <1>3, <1>4, <2>3 DEF Inside, Enrolling
      <3> QED
        BY <2>1, <2>3, <3>1, LateFrame DEF PoolInv
    <2> QED
      BY <2>2, <2>3
  <1> QED
    BY <1>5, <1>6 DEF LateInv

(* A handler that goes on: the two that close a pool, and the INSERT that  *)
(* lets a client in, are the steps that matter.                            *)
LEMMA LateAdvance ==
  ASSUME PoolInv, LateInv, CountLate, Serving' = Serving, NEW r \in Requests, PoolAdvance(r)
  PROVE  LateInv'
  <1> DEFINE k == job[r].code
  <1> USE DEF PoolAt, Goto, PoolEnd, Leave
  <1>0. home' = home /\ PoolTypeOK
    BY DEF PoolAdvance, PoolInv
  <1>1. /\ pc[r] # "idle"
        /\ \A q \in Requests : q # r => pc'[q] = pc[q] /\ job'[q] = job[q]
    BY DEF PoolAdvance, CreateInsert, SetActiveCommit, SetActiveAnswer, DeleteCommit,
       EnrollLook, EnrollCreate, EnrollInsert, PoolInv, PoolTypeOK
  <1>2. pc'[r] \in Enrolling => pc[r] \in Enrolling /\ job'[r] = job[r]
    BY DEF PoolAdvance, CreateInsert, SetActiveCommit, SetActiveAnswer, DeleteCommit,
       EnrollLook, EnrollCreate, EnrollInsert, PoolInv, PoolTypeOK, Enrolling
  <1>3. \A q, p \in Requests : pc'[q] # "idle" /\ pc'[p] # "idle" /\ home'[q] = home'[p] => q = p
    BY <1>0, <1>1 DEF LateInv
  <1>4. \A j \in InviteCodes : Inside(j)' \subseteq Inside(j)
    BY <1>0, <1>1, <1>2 DEF Inside
  <1>5. \A q \in Requests : q # r /\ home[q] = home[r] => pc[q] = "idle"
    BY <1>1 DEF LateInv
  <1>6. ASSUME NEW j \in InviteCodes
        PROVE  (IF Usable(j) THEN late[j] = 0
                ELSE late[j] + Cardinality(Inside(j)) < Cardinality(Serving))'
    <2>1. CASE SetActiveCommit(r) \/ DeleteCommit(r)
      <3>1. ~Takes(j)
        BY <2>1 DEF SetActiveCommit, DeleteCommit, Takes
      <3>2. pc'[r] \notin Enrolling
        BY <2>1 DEF SetActiveCommit, DeleteCommit, PoolInv, PoolTypeOK, Enrolling
      <3>3. home[r] \notin Inside(j)' /\ Inside(j)' \subseteq Serving
        BY <1>0, <1>1, <1>5, <3>2 DEF Inside, Enrolling, Serving
      <3>4. CASE Usable(j)
        BY <1>0, <3>1, <3>3, <3>4, LateClosed
      <3>5. CASE ~Usable(j)
        BY <1>0, <1>4, <3>1, <3>5, LateFrame
      <3> QED
        BY <3>4, <3>5
    <2>2. CASE EnrollInsert(r)
      <3>1. pools' = pools /\ Usable(j)' = Usable(j)
        BY <2>2 DEF EnrollInsert, Usable, Found
      <3>2. CASE ~Takes(j)
        BY <1>0, <1>4, <3>1, <3>2, LateFrame
      <3>3. CASE Takes(j) /\ Usable(j)
        BY <3>1, <3>3 DEF CountLate
      <3>4. CASE Takes(j) /\ ~Usable(j)
        <4>1. j = k
          BY <2>2, <3>4 DEF EnrollInsert, Takes, PoolInv, PoolTypeOK
        <4>2. pc[r] \in Enrolling /\ pc'[r] = "idle"
          BY <2>2 DEF EnrollInsert, PoolInv, PoolTypeOK, Enrolling
        <4>3. home[r] \in Inside(j)
          BY <4>1, <4>2 DEF Inside
        <4>4. Inside(j)' \subseteq Inside(j) \ {home[r]}
          BY <1>0, <1>1, <1>4, <1>5, <4>2 DEF Inside, Enrolling
        <4>5. /\ Cardinality(Inside(j)') \in Nat /\ Cardinality(Inside(j)) \in Nat
              /\ Cardinality(Inside(j)') < Cardinality(Inside(j))
          BY <1>0, <4>3, <4>4, OneLess, InsideServes
        <4>6. late'[j] = late[j] + 1 /\ late[j] \in Nat /\ Cardinality(Serving) \in Nat
          BY <1>0, <3>1, <3>4, PoolServingFinite DEF CountLate, PoolTypeOK
        <4>7. late[j] + Cardinality(Inside(j)) < Cardinality(Serving)
          BY <3>4 DEF LateInv
        <4> QED
          BY <3>1, <3>4, <4>5, <4>6, <4>7
      <3> QED
        BY <3>2, <3>3, <3>4
    <2>3. CASE CreateInsert(r) \/ SetActiveAnswer(r) \/ EnrollLook(r) \/ EnrollCreate(r)
      <3>1. ~Takes(j)
        BY <2>3 DEF CreateInsert, SetActiveAnswer, EnrollLook, EnrollCreate, Takes
      <3>2. Usable(j)' \/ ~Usable(j)
        BY <2>3 DEF CreateInsert, SetActiveAnswer, EnrollLook, EnrollCreate, Usable, Found,
           PoolInv, PoolTypeOK
      <3> QED
        BY <1>0, <1>4, <3>1, <3>2, LateFrame
    <2> QED
      BY <2>1, <2>2, <2>3 DEF PoolAdvance
  <1> QED
    BY <1>3, <1>6 DEF LateInv

(* Every step preserves LateInv.                                           *)
LEMMA LateNext == PoolInv /\ LateInv /\ [PoolNext]_poolVars => LateInv'
  <1> SUFFICES ASSUME PoolInv, LateInv, [PoolNext]_poolVars PROVE LateInv'
    OBVIOUS
  <1>0. home' = home /\ Serving' = Serving
    BY PoolHomeStays
  <1>1. ASSUME CountLate, UNCHANGED <<pools, poolOf>>,
               \A q \in Requests : pc'[q] = "idle" \/ (pc'[q] = pc[q] /\ job'[q] = job[q])
        PROVE  LateInv'
    <2>1. \A j \in InviteCodes : /\ Inside(j)' \subseteq Inside(j)
                                 /\ ~Takes(j) /\ Usable(j)' = Usable(j)
      BY <1>0, <1>1 DEF Inside, Enrolling, Takes, Usable, Found
    <2>2. \A q, p \in Requests : pc'[q] # "idle" /\ pc'[p] # "idle" /\ home'[q] = home'[p] => q = p
      BY <1>0, <1>1 DEF LateInv
    <2>3. ASSUME NEW j \in InviteCodes
          PROVE  (IF Usable(j) THEN late[j] = 0
                  ELSE late[j] + Cardinality(Inside(j)) < Cardinality(Serving))'
      BY <1>0, <1>1, <2>1, LateFrame DEF PoolInv
    <2> QED
      BY <2>2, <2>3 DEF LateInv
  <1>2. ASSUME NEW c \in Callsigns, EnrollElsewhere(c), CountLate PROVE LateInv'
    BY <1>1, <1>2 DEF EnrollElsewhere
  <1>3. ASSUME NEW w \in Workers, PoolCrash(w), CountLate PROVE LateInv'
    BY <1>1, <1>3 DEF PoolCrash, Dies, PoolInv, PoolTypeOK
  <1>4. CASE UNCHANGED poolVars
    BY <1>4 DEF poolVars, LateInv, Inside, Serving, Usable, Found
  <1> QED
    BY <1>0, <1>2, <1>3, <1>4, LateArrive, LateAdvance DEF PoolNext, PoolMove

(* LateInv holds initially: there is a request, and nobody is let in.      *)
LEMMA LateInit == PoolInit => LateInv
  <1> SUFFICES ASSUME PoolInit PROVE LateInv
    OBVIOUS
  <1>1. \A r \in Requests : pc[r] = "idle"
    BY DEF PoolInit, NoRequests
  <1>2. \A k \in InviteCodes : ~Usable(k) /\ late[k] = 0 /\ Inside(k) = {}
    BY <1>1 DEF PoolInit, Usable, Found, NoRow, Inside, Enrolling
  <1>3. \E w : w \in Serving
    BY DEF Serving
  <1>4. Cardinality({}) < Cardinality(Serving) /\ Cardinality({}) = 0
    BY <1>3, OneLess, PoolInitInv, FS_EmptySet DEF PoolInv
  <1>5. ASSUME NEW k \in InviteCodes
        PROVE  IF Usable(k) THEN late[k] = 0
               ELSE late[k] + Cardinality(Inside(k)) < Cardinality(Serving)
    <2>1. late[k] + Cardinality(Inside(k)) = 0
      BY <1>2, <1>4
    <2> QED
      BY <1>2, <1>4, <2>1
  <1> QED
    BY <1>1, <1>5 DEF LateInv

(* A deactivated or deleted pool takes at most one client per worker other *)
(* than the one that closed it (EnrollmentPool.create_enrollment,          *)
(* post_enroll_invite_code).                                               *)
THEOREM ClosedPools == PoolSpec => []LateOnePerWorker
  <1>1. PoolInv /\ LateInv => LateOnePerWorker
    <2> SUFFICES ASSUME PoolInv, LateInv, NEW k \in InviteCodes
                 PROVE  late[k] < Cardinality(Serving)
      BY DEF LateOnePerWorker
    <2>1. \E w : w \in Serving
      BY DEF Serving
    <2>2. 0 < Cardinality(Serving)
      BY <2>1, OneLess, FS_EmptySet DEF PoolInv
    <2>3. /\ late[k] \in Nat /\ Cardinality(Inside(k)) \in Nat
          /\ Cardinality(Serving) \in Nat
      BY InsideServes, PoolServingFinite DEF PoolInv, PoolTypeOK
    <2> QED
      BY <2>2, <2>3 DEF LateInv
  <1> QED
    BY <1>1, LateInit, LateNext, PoolInitInv, PoolNextInv, PTL DEF PoolSpec
===============================================================================
