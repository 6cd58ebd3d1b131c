----------------------------- MODULE BackendProofs -----------------------------
(***************************************************************************)
(* Proofs about Backend, and so about Cfssl and CertRequests, for any      *)
(* people, products, names, keys and bounds.                               *)
(***************************************************************************)
EXTENDS Backend, TLAPS

USE ConstantsAssumption DEF ConstantsAssumption

(* What the CA has signed is what holders have and what OCSP calls good.   *)
CountInv == RetrySignsOnce /\ \A x \in certfile \cup ocspGood : issued[x] = 1

CfsslParts == CfsslTypeOK /\ CountInv /\ HandlerInv /\ TaskInv /\ KnownBeforeTold

-------------------------------------------------------------------------------
(* The invariant of CFSSL in the parts the steps disturb separately.       *)
LEMMA Parts == CfsslTypeOK /\ CfsslInv <=> CfsslParts
  BY DEF CfsslInv, CfsslParts, CountInv

(* A handler is of one kind and about one holder.                          *)
LEMMA WorkFacts ==
  /\ \A x \in Holders :
       /\ Creation(x) \in Work /\ Creation(x).of = x /\ Creation(x).does = "create"
       /\ Deletion(x) \in Work /\ Deletion(x).of = x /\ Deletion(x).does = "delete"
       /\ Revocation(x) \in Work /\ Revocation(x).of = x /\ Revocation(x).does = "revoke_cert"
  /\ \A h \in Work : /\ h.of \in Holders
                      /\ h \in {Creation(h.of), Deletion(h.of), Revocation(h.of)}
  BY DEF Work, Creation, Deletion, Revocation

(* Where a handler is tells which kind it may be.                          *)
LEMMA WhoIsThere ==
  ASSUME CfsslTypeOK, NEW h \in Work
  PROVE  /\ at[h] \in {"sign", "sign_locked", "signed", "post_create", "bundle"} => h = Creation(h.of)
         /\ at[h] \in {"revoke_done", "tell"} => h = Deletion(h.of)
         /\ at[h] \in {"revoke", "revoke_locked"} => h \in {Deletion(h.of), Revocation(h.of)}
  BY WorkFacts DEF CfsslTypeOK, CreatePlaces, RevokePlaces, DeletePlaces

(* A handler that goes to a place of its kind keeps the places typed.      *)
LEMMA Goes ==
  ASSUME CfsslTypeOK, NEW h \in Work, NEW place, Go(h, place),
         h.does = "create" => place \in CreatePlaces,
         h.does = "delete" => place \in DeletePlaces,
         h.does = "revoke_cert" => place \in RevokePlaces
  PROVE  /\ at' \in [Work -> CreatePlaces \cup DeletePlaces]
         /\ \A x \in Holders : /\ at'[Creation(x)] \in CreatePlaces
                               /\ at'[Deletion(x)] \in DeletePlaces
                               /\ at'[Revocation(x)] \in RevokePlaces
  <1>1. /\ at \in [Work -> CreatePlaces \cup DeletePlaces] /\ at' = [at EXCEPT ![h] = place]
        /\ \A x \in Holders : /\ at[Creation(x)] \in CreatePlaces
                              /\ at[Deletion(x)] \in DeletePlaces
                              /\ at[Revocation(x)] \in RevokePlaces
    BY DEF CfsslTypeOK, Go
  <1>2. h.does \in {"create", "delete", "revoke_cert"} /\ RevokePlaces \subseteq DeletePlaces
    BY DEF Work, DeletePlaces
  <1>3. at' \in [Work -> CreatePlaces \cup DeletePlaces]
    BY <1>1, <1>2
  <1>4. /\ at'[h] = place
        /\ \A g \in Work : g # h => at'[g] = at[g]
    BY <1>1
  <1>5. ASSUME NEW x \in Holders
        PROVE  /\ at'[Creation(x)] \in CreatePlaces
               /\ at'[Deletion(x)] \in DeletePlaces
               /\ at'[Revocation(x)] \in RevokePlaces
    <2>1. at'[Creation(x)] \in CreatePlaces
      BY <1>1, <1>4, WorkFacts
    <2>2. at'[Deletion(x)] \in DeletePlaces
      BY <1>1, <1>4, WorkFacts
    <2>3. at'[Revocation(x)] \in RevokePlaces
      BY <1>1, <1>4, WorkFacts
    <2> QED
      BY <2>1, <2>2, <2>3
  <1> QED
    BY <1>3, <1>5

(* It holds initially.                                                     *)
LEMMA CfsslInitInv == CfsslInit => CfsslParts
  <1> SUFFICES ASSUME CfsslInit PROVE CfsslParts
    OBVIOUS
  <1>1. CfsslTypeOK
    BY WorkFacts DEF CfsslInit, CfsslTypeOK, CreatePlaces, RevokePlaces, DeletePlaces
  <1>2. CountInv /\ HandlerInv /\ TaskInv /\ KnownBeforeTold
    BY WorkFacts DEF CfsslInit, CountInv, RetrySignsOnce, HandlerInv, TaskInv, KnownBeforeTold, Holders
  <1> QED
    BY <1>1, <1>2 DEF CfsslParts

(* A task is one of a kind, about a holder, for a product or for all.      *)
LEMMA TaskFacts ==
  /\ \A kind \in Kinds, x \in Holders, q \in Products \cup {"all"} :
       /\ Task(kind, x, q) \in Tasks
       /\ Task(kind, x, q).kind = kind /\ Task(kind, x, q).of = x /\ Task(kind, x, q).to = q
  /\ \A t \in Tasks : t.kind \in Kinds /\ t.of \in Holders /\ t.to \in Products \cup {"all"}
  /\ Kinds = {"refresh", "refresh2", "created", "revoked"}
  BY DEF Task, Tasks, Kinds

(* A refresh forgets nothing and learns what the CA has signed.            *)
LEMMA RefreshLearns ==
  ASSUME CfsslTypeOK, CountInv, Refreshed, UNCHANGED <<issued, revoked>>
  PROVE  /\ ocspRevoked \subseteq ocspRevoked' /\ revoked \subseteq ocspRevoked'
         /\ ocspRevoked' = revoked' /\ ocspGood' \subseteq Holders
         /\ \A x \in ocspGood' : issued[x] = 1
         /\ \A x \in Holders : issued[x] = 1 => x \in ocspGood' \cup ocspRevoked'
         /\ \A x \in Holders : x \in ocspGood \cup ocspRevoked => x \in ocspGood' \cup ocspRevoked'
  <1>1. \A x \in Holders : issued[x] \in Nat /\ issued[x] <= 1
    BY DEF CfsslTypeOK, CountInv, RetrySignsOnce
  <1>2. ocspRevoked \subseteq revoked /\ revoked \subseteq certfile
    BY DEF CfsslTypeOK
  <1>3. ocspGood' = {x \in Holders : issued[x] > 0} \ revoked /\ ocspRevoked' = revoked
    BY DEF Refreshed
  <1>4. \A x \in ocspGood \cup ocspRevoked : issued[x] = 1
    BY <1>2 DEF CountInv
  <1> QED
    BY <1>1, <1>2, <1>3, <1>4

-------------------------------------------------------------------------------
(* Every step of CFSSL, the handlers and the tasks preserves it.           *)
LEMMA CfsslStep == ASSUME CfsslParts, CfsslNext PROVE CfsslParts'
  <1> USE TaskFacts, WorkFacts, WhoIsThere DEF CfsslParts, CfsslTypeOK, CountInv, RetrySignsOnce,
          HandlerInv, Go, Answered, CreatePlaces, RevokePlaces, DeletePlaces, Holders, ca, ocsp
  <1>1. ASSUME NEW x \in Holders, Sign(x) PROVE CfsslParts'
    <2>1. CfsslTypeOK'
      <3>1. Go(Creation(x), "sign") /\ Creation(x) \in Work
        BY <1>1 DEF Sign
      <3>2. UNCHANGED <<ca, ocsp, certfile, deleted, heard, tasks, locked, failed, lost>>
        BY <1>1 DEF Sign
      <3>3. CfsslTypeOK
        OBVIOUS
      <3>4. /\ at' \in [Work -> CreatePlaces \cup DeletePlaces]
            /\ \A y \in Holders : /\ at'[Creation(y)] \in CreatePlaces
                                  /\ at'[Deletion(y)] \in DeletePlaces
                                  /\ at'[Revocation(y)] \in RevokePlaces
        <4>1. Creation(x).does = "create" /\ "sign" \in CreatePlaces
          OBVIOUS
        <4> HIDE DEF Go, CfsslTypeOK, CreatePlaces, DeletePlaces, RevokePlaces
        <4> QED
          BY <3>1, <3>3, <4>1, Goes
      <3> HIDE DEF Go
      <3> QED
        BY <3>2, <3>4
    <2>2. CountInv'
      BY <1>1 DEF Sign
    <2>3. HandlerInv'
      BY <1>1 DEF Sign
    <2>4. TaskInv'
      BY <1>1 DEF Sign, TaskInv, Known
    <2>5. KnownBeforeTold'
      BY <1>1 DEF Sign, KnownBeforeTold, Known, TaskInv
    <2> QED
      BY <2>1, <2>2, <2>3, <2>4, <2>5
  <1>2. ASSUME NEW x \in Holders, CaSigns(Creation(x)) PROVE CfsslParts'
    <2>1. CfsslTypeOK'
      BY <1>2 DEF CaSigns
    <2>2. CountInv'
      BY <1>2 DEF CaSigns
    <2>3. HandlerInv'
      BY <1>2 DEF CaSigns
    <2>4. TaskInv'
      BY <1>2 DEF CaSigns, TaskInv, Known
    <2>5. KnownBeforeTold'
      BY <1>2 DEF CaSigns, KnownBeforeTold, Known, TaskInv
    <2> QED
      BY <2>1, <2>2, <2>3, <2>4, <2>5
  <1>3. ASSUME NEW h \in Work, CaLocked(h) PROVE CfsslParts'
    <2>1. CfsslTypeOK'
      <3>1. \/ Go(h, "sign_locked") /\ h = Creation(h.of)
            \/ Go(h, "revoke_locked") /\ h # Creation(h.of)
        BY <1>3 DEF CaLocked
      <3>2. /\ at' \in [Work -> CreatePlaces \cup DeletePlaces]
            /\ \A y \in Holders : /\ at'[Creation(y)] \in CreatePlaces
                                  /\ at'[Deletion(y)] \in DeletePlaces
                                  /\ at'[Revocation(y)] \in RevokePlaces
        <4> HIDE DEF Go, CfsslTypeOK
        <4> QED
          BY <3>1, Goes
      <3> QED
        BY <1>3, <3>2 DEF CaLocked
    <2>2. CountInv'
      BY <1>3 DEF CaLocked
    <2>3. HandlerInv'
      BY <1>3 DEF CaLocked
    <2>4. TaskInv'
      BY <1>3 DEF CaLocked, TaskInv, Known
    <2>5. KnownBeforeTold'
      BY <1>3 DEF CaLocked, KnownBeforeTold, Known, TaskInv
    <2> QED
      BY <2>1, <2>2, <2>3, <2>4, <2>5
  <1>4. ASSUME NEW h \in Work, TryAgain(h) PROVE CfsslParts'
    <2>1. CfsslTypeOK'
      <3>1. \/ Go(h, "sign") /\ h = Creation(h.of)
            \/ Go(h, "revoke") /\ h # Creation(h.of)
        BY <1>4 DEF TryAgain
      <3>2. /\ at' \in [Work -> CreatePlaces \cup DeletePlaces]
            /\ \A y \in Holders : /\ at'[Creation(y)] \in CreatePlaces
                                  /\ at'[Deletion(y)] \in DeletePlaces
                                  /\ at'[Revocation(y)] \in RevokePlaces
        <4> HIDE DEF Go, CfsslTypeOK
        <4> QED
          BY <3>1, Goes
      <3> QED
        BY <1>4, <3>2 DEF TryAgain
    <2>2. CountInv'
      BY <1>4 DEF TryAgain
    <2>3. HandlerInv'
      BY <1>4 DEF TryAgain
    <2>4. TaskInv'
      BY <1>4 DEF TryAgain, TaskInv, Known
    <2>5. KnownBeforeTold'
      BY <1>4 DEF TryAgain, KnownBeforeTold, Known, TaskInv
    <2> QED
      BY <2>1, <2>2, <2>3, <2>4, <2>5
  <1>5. ASSUME NEW x \in Holders, SignReply(Creation(x)) PROVE CfsslParts'
    <2>1. CfsslTypeOK'
      BY <1>5 DEF SignReply
    <2>2. CountInv'
      BY <1>5 DEF SignReply
    <2>3. HandlerInv'
      BY <1>5 DEF SignReply
    <2>4. TaskInv'
      BY <1>5 DEF SignReply, TaskInv, Known
    <2>5. KnownBeforeTold'
      BY <1>5 DEF SignReply, KnownBeforeTold, Known, TaskInv
    <2> QED
      BY <2>1, <2>2, <2>3, <2>4, <2>5
  <1>6. ASSUME NEW x \in Holders, PostCreate(Creation(x)) PROVE CfsslParts'
    <2>1. CfsslTypeOK'
      BY <1>6 DEF PostCreate
    <2>2. CountInv'
      BY <1>6 DEF PostCreate
    <2>3. HandlerInv'
      BY <1>6 DEF PostCreate
    <2>4. TaskInv'
      BY <1>6 DEF PostCreate, TaskInv, Known
    <2>5. KnownBeforeTold'
      BY <1>6 DEF PostCreate, KnownBeforeTold, Known, TaskInv
    <2> QED
      BY <2>1, <2>2, <2>3, <2>4, <2>5
  <1>7. ASSUME NEW x \in Holders, GetBundle(Creation(x)) PROVE CfsslParts'
    <2>0. /\ ocspRevoked \subseteq ocspRevoked' /\ revoked \subseteq ocspRevoked'
          /\ ocspRevoked' = revoked' /\ ocspGood' \subseteq Holders
          /\ \A y \in ocspGood' : issued[y] = 1
          /\ \A y \in Holders : issued[y] = 1 => y \in ocspGood' \cup ocspRevoked'
          /\ \A y \in Holders : y \in ocspGood \cup ocspRevoked => y \in ocspGood' \cup ocspRevoked'
      BY <1>7, RefreshLearns DEF GetBundle, ca
    <2>1. CfsslTypeOK'
      BY <1>7, <2>0 DEF GetBundle
    <2>2. CountInv'
      BY <1>7, <2>0 DEF GetBundle
    <2>3. HandlerInv'
      BY <1>7, <2>0 DEF GetBundle
    <2>4. TaskInv'
      BY <1>7, <2>0 DEF GetBundle, TaskInv, Known
    <2>5. KnownBeforeTold'
      BY <1>7, <2>0 DEF GetBundle, KnownBeforeTold, Known, TaskInv
    <2> QED
      BY <2>1, <2>2, <2>3, <2>4, <2>5
  <1>8. ASSUME NEW x \in Holders, Revoke(x) PROVE CfsslParts'
    <2>1. CfsslTypeOK'
      BY SMTT(30), <1>8 DEF Revoke
    <2>2. CountInv'
      BY <1>8 DEF Revoke
    <2>3. HandlerInv'
      BY <1>8 DEF Revoke
    <2>4. TaskInv'
      BY <1>8 DEF Revoke, TaskInv, Known
    <2>5. KnownBeforeTold'
      BY <1>8 DEF Revoke, KnownBeforeTold, Known, TaskInv
    <2> QED
      BY <2>1, <2>2, <2>3, <2>4, <2>5
  <1>9. ASSUME NEW x \in Holders, RevokeCert(x) PROVE CfsslParts'
    <2>1. CfsslTypeOK'
      BY <1>9 DEF RevokeCert
    <2>2. CountInv'
      BY <1>9 DEF RevokeCert
    <2>3. HandlerInv'
      BY <1>9 DEF RevokeCert
    <2>4. TaskInv'
      BY <1>9 DEF RevokeCert, TaskInv, Known
    <2>5. KnownBeforeTold'
      BY <1>9 DEF RevokeCert, KnownBeforeTold, Known, TaskInv
    <2> QED
      BY <2>1, <2>2, <2>3, <2>4, <2>5
  <1>10. ASSUME NEW h \in Work, CaRevokes(h) PROVE CfsslParts'
    <2>1. CfsslTypeOK'
      <3>1. \/ Go(h, "revoke_done") /\ h.does = "delete"
            \/ Go(h, "new") /\ h.does = "revoke_cert"
        <4>1. /\ at[h] = "revoke"
              /\ IF h.does = "delete" THEN Go(h, "revoke_done") ELSE Answered(h)
          BY <1>10 DEF CaRevokes
        <4>2. h.does = "delete" \/ h.does = "revoke_cert"
          BY <4>1
        <4> QED
          BY <4>1, <4>2
      <3>2. /\ at' \in [Work -> CreatePlaces \cup DeletePlaces]
            /\ \A y \in Holders : /\ at'[Creation(y)] \in CreatePlaces
                                  /\ at'[Deletion(y)] \in DeletePlaces
                                  /\ at'[Revocation(y)] \in RevokePlaces
        <4> HIDE DEF Go, CfsslTypeOK
        <4> QED
          BY <3>1, Goes
      <3> QED
        BY <1>10, <3>2 DEF CaRevokes
    <2>2. CountInv'
      BY <1>10 DEF CaRevokes
    <2>3. HandlerInv'
      BY <1>10 DEF CaRevokes
    <2>4. TaskInv'
      BY <1>10 DEF CaRevokes, TaskInv, Known
    <2>5. KnownBeforeTold'
      BY <1>10 DEF CaRevokes, KnownBeforeTold, Known, TaskInv
    <2> QED
      BY <2>1, <2>2, <2>3, <2>4, <2>5
  <1>11. ASSUME NEW x \in Holders, RevokedRefresh(Deletion(x)) PROVE CfsslParts'
    <2>0. /\ ocspRevoked \subseteq ocspRevoked' /\ revoked \subseteq ocspRevoked'
          /\ ocspRevoked' = revoked' /\ ocspGood' \subseteq Holders
          /\ \A y \in ocspGood' : issued[y] = 1
          /\ \A y \in Holders : issued[y] = 1 => y \in ocspGood' \cup ocspRevoked'
          /\ \A y \in Holders : y \in ocspGood \cup ocspRevoked => y \in ocspGood' \cup ocspRevoked'
      BY <1>11, RefreshLearns DEF RevokedRefresh, ca
    <2>1. CfsslTypeOK'
      BY <1>11, <2>0 DEF RevokedRefresh
    <2>2. CountInv'
      BY <1>11, <2>0 DEF RevokedRefresh
    <2>3. HandlerInv'
      BY <1>11, <2>0 DEF RevokedRefresh
    <2>4. TaskInv'
      BY <1>11, <2>0 DEF RevokedRefresh, TaskInv, Known
    <2>5. KnownBeforeTold'
      BY <1>11, <2>0 DEF RevokedRefresh, KnownBeforeTold, Known, TaskInv
    <2> QED
      BY <2>1, <2>2, <2>3, <2>4, <2>5
  <1>12. ASSUME NEW x \in Holders, RevokedTell(Deletion(x)) PROVE CfsslParts'
    <2>1. CfsslTypeOK'
      BY <1>12 DEF RevokedTell
    <2>2. CountInv'
      BY <1>12 DEF RevokedTell
    <2>3. HandlerInv'
      BY <1>12 DEF RevokedTell
    <2>4. TaskInv'
      BY <1>12 DEF RevokedTell, TaskInv, Known
    <2>5. KnownBeforeTold'
      BY <1>12 DEF RevokedTell, KnownBeforeTold, Known, TaskInv
    <2> QED
      BY <2>1, <2>2, <2>3, <2>4, <2>5
  <1>13. ASSUME NEW h \in Work, CallFails(h) PROVE CfsslParts'
    <2>1. CfsslTypeOK'
      BY <1>13 DEF CallFails
    <2>2. CountInv'
      BY <1>13 DEF CallFails
    <2>3. HandlerInv'
      BY <1>13 DEF CallFails
    <2>4. TaskInv'
      BY <1>13 DEF CallFails, TaskInv, Known
    <2>5. KnownBeforeTold'
      BY <1>13 DEF CallFails, KnownBeforeTold, Known, TaskInv
    <2> QED
      BY <2>1, <2>2, <2>3, <2>4, <2>5
  <1>14. ASSUME NEW t \in tasks, TaskRefresh(t) PROVE CfsslParts'
    <2>0. /\ ocspRevoked \subseteq ocspRevoked' /\ revoked \subseteq ocspRevoked'
          /\ ocspRevoked' = revoked' /\ ocspGood' \subseteq Holders
          /\ \A y \in ocspGood' : issued[y] = 1
          /\ \A y \in Holders : issued[y] = 1 => y \in ocspGood' \cup ocspRevoked'
          /\ \A y \in Holders : y \in ocspGood \cup ocspRevoked => y \in ocspGood' \cup ocspRevoked'
      BY <1>14, RefreshLearns DEF TaskRefresh, ca
    <2>1. CfsslTypeOK'
      <3>1. t \in Tasks /\ t.of \in Holders /\ t.kind \in Kinds
        BY <1>14 DEF Tasks
      <3>2. \A q \in Products : Task(t.kind, t.of, q) \in Tasks
        BY <3>1 DEF Task, Tasks
      <3>3. tasks' \subseteq Tasks
        BY <1>14, <3>2 DEF TaskRefresh
      <3>4. UNCHANGED <<issued, revoked, certfile, deleted, heard, at, locked, failed, lost>>
        BY <1>14 DEF TaskRefresh, ca
      <3> QED
        BY <2>0, <3>3, <3>4
    <2>2. CountInv'
      BY <1>14, <2>0 DEF TaskRefresh
    <2>3. HandlerInv'
      BY <1>14, <2>0 DEF TaskRefresh
    <2>4. TaskInv'
      BY SMTT(30), <1>14, <2>0 DEF TaskRefresh, TaskInv, Known
    <2>5. KnownBeforeTold'
      BY <1>14, <2>0 DEF TaskRefresh, KnownBeforeTold, Known, TaskInv
    <2> QED
      BY <2>1, <2>2, <2>3, <2>4, <2>5
  <1>15. ASSUME NEW t \in tasks, Post(t) PROVE CfsslParts'
    <2>1. CfsslTypeOK'
      BY <1>15 DEF Post
    <2>2. CountInv'
      BY <1>15 DEF Post
    <2>3. HandlerInv'
      BY <1>15 DEF Post
    <2>4. TaskInv'
      BY <1>15 DEF Post, TaskInv, Known
    <2>5. KnownBeforeTold'
      BY <1>15 DEF Post, KnownBeforeTold, Known, TaskInv
    <2> QED
      BY <2>1, <2>2, <2>3, <2>4, <2>5
  <1>16. ASSUME NEW t \in tasks, TaskFails(t) PROVE CfsslParts'
    <2>1. CfsslTypeOK'
      BY <1>16 DEF TaskFails
    <2>2. CountInv'
      BY <1>16 DEF TaskFails
    <2>3. HandlerInv'
      BY <1>16 DEF TaskFails
    <2>4. TaskInv'
      BY <1>16 DEF TaskFails, TaskInv, Known
    <2>5. KnownBeforeTold'
      BY <1>16 DEF TaskFails, KnownBeforeTold, Known, TaskInv
    <2> QED
      BY <2>1, <2>2, <2>3, <2>4, <2>5
  <1>17. ASSUME NEW h \in Work, Proceed(h) PROVE CfsslParts'
    <2>1. CASE CaSigns(h) \/ SignReply(h) \/ PostCreate(h) \/ GetBundle(h)
      <3>1. PICK x \in Holders : h = Creation(x)
        BY <2>1 DEF CaSigns, SignReply, PostCreate, GetBundle
      <3> QED
        BY <1>2, <1>5, <1>6, <1>7, <2>1, <3>1
    <2>2. CASE RevokedRefresh(h) \/ RevokedTell(h)
      <3>1. PICK x \in Holders : h = Deletion(x)
        BY <2>2 DEF RevokedRefresh, RevokedTell
      <3> QED
        BY <1>11, <1>12, <2>2, <3>1
    <2> QED
      BY <1>4, <1>10, <1>17, <2>1, <2>2 DEF Proceed
  <1> QED
    BY <1>1, <1>3, <1>8, <1>9, <1>13, <1>14, <1>15, <1>16, <1>17 DEF CfsslNext, RunTask

-------------------------------------------------------------------------------
(* The CNs of two requests with one name are the same.                     *)
LEMMA NamesTellApart ==
  ASSUME NEW c \in Csrs, NEW d \in Csrs, Name(c) = Name(d)
  PROVE  c.cn = d.cn /\ (d.cn = NoCN => c = d)
  BY DEF Name, Csrs

(* cert-manager's invariant holds initially.                               *)
LEMMA CrInitInv == CrInit => CrTypeOK /\ CrInv
  BY DEF CrInit, CrTypeOK, CrInv

(* Every step of a call and of cert-manager preserves it.                  *)
LEMMA CrStep == ASSUME CrTypeOK, CrInv, CrNext PROVE CrTypeOK' /\ CrInv'
  <1>1. ASSUME NEW s \in Signers, NEW c \in Csrs, SignCsr(s, c) PROVE CrTypeOK' /\ CrInv'
    <2>1. CrTypeOK'
      BY <1>1 DEF SignCsr, Leave, CrTypeOK, CrInv, Requested, Name
    <2>2. CrInv'
      BY <1>1 DEF SignCsr, Leave, CrTypeOK, CrInv, Requested, Name
    <2> QED
      BY <2>1, <2>2
  <1>2. ASSUME NEW s \in Signers, Create(s) PROVE CrTypeOK' /\ CrInv'
    <2> DEFINE c == csr[s]
               new == [name |-> Name(c), csr |-> c, status |-> "pending"]
    <2>1. c \in Csrs /\ new.name = Name(c) /\ new.csr = c
      BY <1>2 DEF Create, CrInv
    <2>2. CASE ~Requested(Name(c)) /\ crs' = crs \cup {new} /\ step' = [step EXCEPT ![s] = "wait"]
      <3>1. UNCHANGED <<wrapped, answers, csr, calls, denied>>
        BY <1>2, <2>2 DEF Create
      <3>2. crs' \subseteq [name : {Name(d) : d \in Csrs}, csr : Csrs,
                           status : {"pending", "issued", "denied"}]
            /\ \A cr \in crs' : cr.name = Name(cr.csr)
        BY <2>1, <2>2 DEF CrTypeOK
      <3>3. \A q \in Signers : step'[q] \in {"get", "wait"} =>
              \E cr \in crs' : cr.name = Name(csr[q])
        <4> SUFFICES ASSUME NEW q \in Signers, step'[q] \in {"get", "wait"}
                     PROVE  \E cr \in crs' : cr.name = Name(csr[q])
          OBVIOUS
        <4>1. CASE q = s
          BY <2>1, <2>2, <4>1
        <4>2. CASE q # s
          BY <2>2, <4>2 DEF CrTypeOK, Requested
        <4> QED
          BY <4>1, <4>2
      <3>4. CrTypeOK'
        <4>1. step' \in [Signers -> {"idle", "create", "get", "wait"}]
          BY <2>2 DEF CrTypeOK
        <4>2. \A q \in Signers : step'[q] \in {"get", "wait"} => Requested(Name(csr[q]))'
          BY <3>1, <3>3 DEF Requested, Name
        <4> QED
          BY <3>1, <3>2, <4>1, <4>2 DEF CrTypeOK, Name
      <3>5. CrInv'
        BY <1>2, <2>1, <2>2, <3>1 DEF CrInv, CrTypeOK, Requested, Name
      <3> QED
        BY <3>4, <3>5
    <2>3. CASE Requested(Name(c)) /\ crs' = crs
      <3>1. CrTypeOK'
        BY ZenonT(60), <1>2, <2>3 DEF Create, Leave, CrTypeOK, Requested, Name
      <3>2. CrInv'
        BY <1>2, <2>3 DEF Create, Leave, CrTypeOK, CrInv, Requested, Name
      <3> QED
        BY <3>1, <3>2
    <2> QED
      BY <1>2, <2>2, <2>3 DEF Create
  <1>3. ASSUME NEW s \in Signers, Get(s) PROVE CrTypeOK' /\ CrInv'
    <2>1. CrTypeOK'
      BY <1>3 DEF Get, Leave, CrTypeOK, CrInv, Requested, Name
    <2>2. CrInv'
      BY <1>3 DEF Get, Leave, CrTypeOK, CrInv, Requested, Name
    <2> QED
      BY <2>1, <2>2
  <1>4. ASSUME NEW cr \in crs, Issue(cr) PROVE CrTypeOK' /\ CrInv'
    <2> DEFINE new == [cr EXCEPT !.status = "issued"]
    <2>1. new \in [name : {Name(d) : d \in Csrs}, csr : Csrs,
                  status : {"pending", "issued", "denied"}]
          /\ new.name = cr.name /\ new.csr = cr.csr /\ cr.name = Name(cr.csr)
      BY <1>4 DEF CrTypeOK
    <2>2. crs' = (crs \ {cr}) \cup {new}
          /\ UNCHANGED <<wrapped, answers, step, csr, calls>> /\ denied' \in 0..MaxDenied
      BY <1>4 DEF Issue, CrTypeOK
    <2> HIDE DEF new
    <2>3. \A n, c : (\E e \in crs : e.name = n /\ e.csr = c) => \E e \in crs' : e.name = n /\ e.csr = c
      BY <2>1, <2>2
    <2>4. \A n : Requested(n) => \E e \in crs' : e.name = n
      BY SMTT(30), <2>3 DEF Requested
    <2>5. CrTypeOK'
      <3>1. \A q \in Signers : step'[q] \in {"get", "wait"} => Requested(Name(csr[q]))'
        BY <2>2, <2>4 DEF CrTypeOK, Requested, Name
      <3> QED
        BY <2>1, <2>2, <3>1 DEF CrTypeOK, Name
    <2>6. CrInv'
      <3>1. \A a \in answers' : \E e \in crs' : e.name = Name(a.asked) /\ e.csr = a.got
        BY <2>2, <2>3 DEF CrInv
      <3>2. \A e, f \in crs' : e.name = f.name => e = f
        BY <2>1, <2>2 DEF CrInv
      <3> QED
        BY <2>2, <3>1, <3>2 DEF CrInv, Name
    <2> QED
      BY <2>5, <2>6
  <1>5. ASSUME NEW cr \in crs, Deny(cr) PROVE CrTypeOK' /\ CrInv'
    <2> DEFINE new == [cr EXCEPT !.status = "denied"]
    <2>1. new \in [name : {Name(d) : d \in Csrs}, csr : Csrs,
                  status : {"pending", "issued", "denied"}]
          /\ new.name = cr.name /\ new.csr = cr.csr /\ cr.name = Name(cr.csr)
      BY <1>5 DEF CrTypeOK
    <2>2. crs' = (crs \ {cr}) \cup {new}
          /\ UNCHANGED <<wrapped, answers, step, csr, calls>> /\ denied' \in 0..MaxDenied
      BY <1>5 DEF Deny, CrTypeOK
    <2> HIDE DEF new
    <2>3. \A n, c : (\E e \in crs : e.name = n /\ e.csr = c) => \E e \in crs' : e.name = n /\ e.csr = c
      BY <2>1, <2>2
    <2>4. \A n : Requested(n) => \E e \in crs' : e.name = n
      BY SMTT(30), <2>3 DEF Requested
    <2>5. CrTypeOK'
      <3>1. \A q \in Signers : step'[q] \in {"get", "wait"} => Requested(Name(csr[q]))'
        BY <2>2, <2>4 DEF CrTypeOK, Requested, Name
      <3> QED
        BY <2>1, <2>2, <3>1 DEF CrTypeOK, Name
    <2>6. CrInv'
      <3>1. \A a \in answers' : \E e \in crs' : e.name = Name(a.asked) /\ e.csr = a.got
        BY <2>2, <2>3 DEF CrInv
      <3>2. \A e, f \in crs' : e.name = f.name => e = f
        BY <2>1, <2>2 DEF CrInv
      <3> QED
        BY <2>2, <3>1, <3>2 DEF CrInv, Name
    <2> QED
      BY <2>5, <2>6
  <1>6. ASSUME NEW s \in Signers, Answer(s) PROVE CrTypeOK' /\ CrInv'
    <2>1. CrTypeOK'
      BY <1>6 DEF Answer, Leave, CrTypeOK, CrInv, Requested, Name
    <2>2. CrInv'
      BY <1>6 DEF Answer, Leave, CrTypeOK, CrInv, Requested, Name
    <2> QED
      BY <2>1, <2>2
  <1>7. ASSUME NEW s \in Signers, TimesOut(s) PROVE CrTypeOK' /\ CrInv'
    <2>1. CrTypeOK'
      BY <1>7 DEF TimesOut, Leave, CrTypeOK, CrInv, Requested, Name
    <2>2. CrInv'
      BY <1>7 DEF TimesOut, Leave, CrTypeOK, CrInv, Requested, Name
    <2> QED
      BY <2>1, <2>2
  <1>8. ASSUME NEW s \in Signers, SignFails(s) PROVE CrTypeOK' /\ CrInv'
    <2>1. CrTypeOK'
      BY <1>8 DEF SignFails, Leave, CrTypeOK, CrInv, Requested, Name
    <2>2. CrInv'
      BY <1>8 DEF SignFails, Leave, CrTypeOK, CrInv, Requested, Name
    <2> QED
      BY <2>1, <2>2
  <1> QED
    BY <1>1, <1>2, <1>3, <1>4, <1>5, <1>6, <1>7, <1>8 DEF CrNext, SignerSteps, CertManager

-------------------------------------------------------------------------------
(* The steps of one backend leave the other alone.                         *)
LEMMA Step == ASSUME IInv, [Next]_backendVars PROVE IInv'
  <1>1. CASE UseCfssl
    <2>1. CfsslParts'
      BY <1>1, CfsslStep, Parts DEF UseCfssl, IInv, TypeOK
    <2>2. (CfsslTypeOK /\ CfsslInv)'
      BY <2>1 DEF CfsslParts, CfsslInv, CountInv
    <2>3. CrTypeOK' /\ CrInv'
      BY <1>1 DEF UseCfssl, InCfssl, crVars, IInv, TypeOK, CrTypeOK, CrInv, Requested, Name
    <2>4. backend' = "cfssl" /\ calls' = 0
      BY <1>1 DEF UseCfssl, InCfssl, crVars, IInv, TypeOK
    <2> QED
      BY <2>2, <2>3, <2>4 DEF IInv, TypeOK
  <1>2. CASE UseCertManager
    <2>1. CrTypeOK' /\ CrInv'
      BY <1>2, CrStep DEF UseCertManager, IInv, TypeOK
    <2>2. (CfsslTypeOK /\ CfsslInv)'
      BY <1>2 DEF UseCertManager, InCertManager, cfsslVars, ca, ocsp, IInv, TypeOK, CfsslTypeOK,
                  CfsslInv, RetrySignsOnce, KnownBeforeTold, HandlerInv, TaskInv, Known
    <2>3. backend' = "certmanager" /\ \A x \in Holders : issued'[x] = 0
      BY <1>2 DEF UseCertManager, InCertManager, cfsslVars, ca, IInv, TypeOK
    <2> QED
      BY <2>1, <2>2, <2>3 DEF IInv, TypeOK
  <1>3. CASE UNCHANGED backendVars
    BY <1>3 DEF backendVars, cfsslVars, crVars, ca, ocsp, IInv, TypeOK, CfsslTypeOK, CfsslInv,
                RetrySignsOnce, KnownBeforeTold, HandlerInv, TaskInv, Known,
                CrTypeOK, CrInv, Requested, Name
  <1> QED
    BY <1>1, <1>2, <1>3 DEF Next

(* The inductive invariant holds in every reachable state.                 *)
THEOREM Invariance == Spec => []IInv
  <1>1. Init => IInv
    BY CfsslInitInv, CrInitInv, Parts DEF Init, IInv, TypeOK, CfsslInit, CrInit
  <1> QED
    BY <1>1, Step, PTL DEF Spec

(* Each backend leaves the state of the other alone, and its own is well   *)
(* typed.                                                                  *)
THEOREM TypeCorrect == Spec => []TypeOK
  <1>1. IInv => TypeOK
    BY DEF IInv
  <1> QED
    BY <1>1, Invariance, PTL

(* sign_csr: trying again after a locked database never makes the CA sign  *)
(* twice.                                                                  *)
THEOREM SignsOnce == Spec => []RetrySignsOnce
  <1>1. IInv => RetrySignsOnce
    BY DEF IInv, CfsslInv
  <1> QED
    BY <1>1, Invariance, PTL

(* refresh_ocsp comes before every notification and bundle that relies on  *)
(* it, whatever is retried, fails or is lost.                              *)
THEOREM OcspFirst == Spec => []KnownBeforeTold
  <1>1. IInv => KnownBeforeTold
    BY DEF IInv, CfsslInv
  <1> QED
    BY <1>1, Invariance, PTL

(* cr_name: a CSR is answered with a certificate for its CN, and one       *)
(* without a CN with one for its own key.                                  *)
THEOREM AnswersAreForCN == Spec => []AnswerIsForCN
  <1>1. IInv => AnswerIsForCN
    <2> SUFFICES ASSUME IInv, NEW a \in answers
                 PROVE  a.got.cn = a.asked.cn /\ (a.asked.cn = NoCN => a.got = a.asked)
      BY DEF AnswerIsForCN
    <2>1. a.got \in Csrs /\ a.asked \in Csrs
      BY DEF IInv, TypeOK, CrTypeOK
    <2>2. Name(a.got) = Name(a.asked)
      BY DEF IInv, TypeOK, CrTypeOK, CrInv
    <2> QED
      BY <2>1, <2>2, NamesTellApart
  <1> QED
    BY <1>1, Invariance, PTL

(* _upsert_cr: all calls for a CN are answered with the same certificate.  *)
THEOREM OneAnswer == Spec => []AnswersAgree
  <1>1. IInv => AnswersAgree
    <2> SUFFICES ASSUME IInv, NEW a \in answers, NEW b \in answers,
                        a.asked.cn = b.asked.cn, a.asked.cn # NoCN
                 PROVE  a.got = b.got
      BY DEF AnswersAgree
    <2>1. Name(a.asked) = Name(b.asked)
      BY DEF Name
    <2>2. PICK cr \in crs : cr.name = Name(a.asked) /\ cr.csr = a.got
      BY DEF IInv, CrInv
    <2>3. PICK other \in crs : other.name = Name(b.asked) /\ other.csr = b.got
      BY DEF IInv, CrInv
    <2>4. cr = other
      BY <2>1, <2>2, <2>3 DEF IInv, CrInv
    <2> QED
      BY <2>2, <2>3, <2>4
  <1> QED
    BY <1>1, Invariance, PTL

-------------------------------------------------------------------------------
(* A step keeps a deleted person in hand that leaves its handler at it or  *)
(* ends that with a task for every product, forgets no revocation, and     *)
(* ends no task that tells of one but by telling.                          *)
LEMMA InHandFrame ==
  ASSUME CfsslParts, DeletedIsInHand, UNCHANGED <<deleted, failed, lost>>,
         ocspRevoked \subseteq ocspRevoked', heard \subseteq heard',
         \A x \in deleted :
           at[Deletion(x)] \in {"revoke", "revoke_locked", "revoke_done", "tell"} =>
             \/ at'[Deletion(x)] \in {"revoke", "revoke_locked", "revoke_done", "tell"}
             \/ at[Deletion(x)] = "tell" /\ \A q \in Products : Task("revoked", x, q) \in tasks',
         \A x \in deleted, q \in Products : Task("revoked", x, q) \in tasks =>
           \/ Task("revoked", x, q) \in tasks'
           \/ <<q, "revoked", x>> \in heard'
  PROVE  DeletedIsInHand'
  <1> SUFFICES ASSUME failed + lost = 0, NEW x \in deleted,
                      at'[Deletion(x)] \notin {"revoke", "revoke_locked", "revoke_done", "tell"}
               PROVE  /\ x \in ocspRevoked'
                      /\ \A q \in Products : \/ <<q, "revoked", x>> \in heard'
                                             \/ Task("revoked", x, q) \in tasks'
    BY DEF DeletedIsInHand
  <1>1. x \in Holders
    BY DEF CfsslParts, CfsslTypeOK, Holders
  <1>2. CASE at[Deletion(x)] \in {"revoke", "revoke_locked", "revoke_done", "tell"}
    <2>1. at[Deletion(x)] = "tell" /\ \A q \in Products : Task("revoked", x, q) \in tasks'
      BY <1>2
    <2> QED
      BY <1>1, <2>1 DEF CfsslParts, HandlerInv
  <1>3. CASE at[Deletion(x)] \notin {"revoke", "revoke_locked", "revoke_done", "tell"}
    BY <1>3 DEF DeletedIsInHand
  <1> QED
    BY <1>2, <1>3

(* Every step keeps it.                                                    *)
LEMMA InHandStep == ASSUME CfsslParts, DeletedIsInHand, CfsslNext PROVE DeletedIsInHand'
  <1> DEFINE AtIt(place) == place \in {"revoke", "revoke_locked", "revoke_done", "tell"}
  <1> USE WorkFacts DEF Go, Answered, ca, ocsp
  <1>1. /\ CfsslTypeOK /\ deleted \subseteq Persons /\ Persons \subseteq Holders
        /\ at \in [Work -> CreatePlaces \cup DeletePlaces]
    BY DEF CfsslParts, CfsslTypeOK, Holders
  <1>2. ASSUME NEW x \in Holders, Sign(x) \/ RevokeCert(x) PROVE DeletedIsInHand'
    <2>1. UNCHANGED <<deleted, failed, lost, ocspRevoked, heard, tasks>>
      BY <1>2 DEF Sign, RevokeCert
    <2>2. \A y \in deleted : at'[Deletion(y)] = at[Deletion(y)]
      BY <1>1, <1>2 DEF Sign, RevokeCert
    <2> QED
      BY <2>1, <2>2, InHandFrame
  <1>3. ASSUME NEW h \in Work, CaSigns(h) \/ CaLocked(h) \/ TryAgain(h) \/ CaRevokes(h)
        PROVE  DeletedIsInHand'
    <2>1. UNCHANGED <<deleted, failed, lost, ocspRevoked, heard, tasks>>
      BY <1>3 DEF CaSigns, CaLocked, TryAgain, CaRevokes
    <2>2. \A y \in deleted : AtIt(at[Deletion(y)]) => AtIt(at'[Deletion(y)])
      BY <1>1, <1>3 DEF CaSigns, CaLocked, TryAgain, CaRevokes
    <2> QED
      BY <2>1, <2>2, InHandFrame
  <1>4. ASSUME NEW h \in Work, SignReply(h) \/ PostCreate(h) PROVE DeletedIsInHand'
    <2>1. UNCHANGED <<deleted, failed, lost, ocspRevoked, heard>> /\ tasks \subseteq tasks'
      BY <1>4 DEF SignReply, PostCreate
    <2>2. \A y \in deleted : at'[Deletion(y)] = at[Deletion(y)]
      BY <1>1, <1>4, WhoIsThere DEF SignReply, PostCreate
    <2> QED
      BY <2>1, <2>2, InHandFrame
  <1>5. ASSUME NEW h \in Work, GetBundle(h) \/ RevokedRefresh(h) PROVE DeletedIsInHand'
    <2>1. UNCHANGED <<deleted, failed, lost, heard, tasks>>
      BY <1>5 DEF GetBundle, RevokedRefresh
    <2>2. \A y \in deleted : AtIt(at[Deletion(y)]) => AtIt(at'[Deletion(y)])
      BY <1>1, <1>5, WhoIsThere DEF GetBundle, RevokedRefresh
    <2>3. ocspRevoked \subseteq ocspRevoked'
      BY <1>5, RefreshLearns DEF GetBundle, RevokedRefresh, CfsslParts
    <2> QED
      BY <2>1, <2>2, <2>3, InHandFrame
  <1>6. ASSUME NEW x \in Holders, Revoke(x) PROVE DeletedIsInHand'
    <2>1. /\ UNCHANGED <<failed, lost, ocspRevoked, heard, tasks>> /\ deleted' = deleted \cup {x}
          /\ at'[Deletion(x)] = "revoke"
          /\ \A y \in Holders \ {x} : at'[Deletion(y)] = at[Deletion(y)]
      BY <1>1, <1>6 DEF Revoke
    <2> QED
      BY <1>1, <2>1 DEF DeletedIsInHand
  <1>7. ASSUME NEW h \in Work, RevokedTell(h) PROVE DeletedIsInHand'
    <2>1. PICK x \in Holders : h = Deletion(x)
      BY <1>1, <1>7, WhoIsThere DEF RevokedTell
    <2>2. /\ UNCHANGED <<deleted, failed, lost, ocspRevoked, heard>> /\ tasks \subseteq tasks'
          /\ at[h] = "tell" /\ \A q \in Products : Task("revoked", x, q) \in tasks'
          /\ \A y \in Holders \ {x} : at'[Deletion(y)] = at[Deletion(y)]
      BY <1>1, <1>7, <2>1 DEF RevokedTell
    <2> QED
      BY <1>1, <2>1, <2>2, InHandFrame
  <1>8. ASSUME NEW t \in tasks, TaskRefresh(t) \/ Post(t) PROVE DeletedIsInHand'
    <2>1. UNCHANGED <<deleted, failed, lost, at>> /\ heard \subseteq heard'
      BY <1>8 DEF TaskRefresh, Post
    <2>2. ocspRevoked \subseteq ocspRevoked'
      BY <1>8, RefreshLearns DEF TaskRefresh, Post, CfsslParts
    <2>3. ASSUME NEW x \in deleted, NEW q \in Products, Task("revoked", x, q) \in tasks
          PROVE  Task("revoked", x, q) \in tasks' \/ <<q, "revoked", x>> \in heard'
      <3>1. /\ Task("revoked", x, q).to = q /\ q # "all"
            /\ Task("revoked", x, q).kind = "revoked" /\ Task("revoked", x, q).of = x
        BY DEF Task
      <3>2. CASE Task("revoked", x, q) = t
        BY <1>8, <3>1, <3>2 DEF TaskRefresh, Post
      <3>3. CASE Task("revoked", x, q) # t
        BY <1>8, <2>3, <3>3 DEF TaskRefresh, Post
      <3> QED
        BY <3>2, <3>3
    <2> QED
      BY <2>1, <2>2, <2>3, InHandFrame
  <1>9. CASE \/ \E h \in Work : CallFails(h)
             \/ \E t \in tasks : TaskFails(t)
    <2>1. failed' + lost' # 0
      BY <1>9 DEF CallFails, TaskFails, CfsslParts, CfsslTypeOK
    <2> QED
      BY <2>1 DEF DeletedIsInHand
  <1> QED
    BY <1>2, <1>3, <1>4, <1>5, <1>6, <1>7, <1>8, <1>9 DEF CfsslNext, Proceed, RunTask

(* The safety half of DeletedIsRevoked: until something fails, a deleted   *)
(* person of whom ocsprest or a product has not heard yet has its handler  *)
(* at it or the task for that product, however long the CA is locked       *)
(* (revoke_serial, user_revoked).                                          *)
THEOREM NoDeletionForgotten == Spec => []DeletedIsInHand
  <1>1. Init => DeletedIsInHand
    BY DEF Init, CfsslInit, DeletedIsInHand
  <1>2. IInv /\ DeletedIsInHand /\ [Next]_backendVars => DeletedIsInHand'
    <2> SUFFICES ASSUME IInv, DeletedIsInHand, [Next]_backendVars PROVE DeletedIsInHand'
      OBVIOUS
    <2>1. CASE UseCfssl
      BY <2>1, InHandStep, Parts DEF UseCfssl, IInv, TypeOK
    <2>2. CASE UseCertManager \/ UNCHANGED backendVars
      BY <2>2 DEF UseCertManager, InCertManager, backendVars, cfsslVars, ocsp, DeletedIsInHand
    <2> QED
      BY <2>1, <2>2 DEF Next
  <1> QED
    BY <1>1, <1>2, Invariance, PTL DEF Spec
===============================================================================
