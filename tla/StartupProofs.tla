----------------------------- MODULE StartupProofs -----------------------------
(***************************************************************************)
(* Proofs about Startup for any number of workers and failures.            *)
(***************************************************************************)
EXTENDS Startup, TLAPS

USE ConstantsAssumption DEF ConstantsAssumption

(* The part of the invariant that is about the files.                      *)
FileInv ==
  /\ cert # 0 => cert = mtlskey
  /\ jwtpub # 0 => jwtpub = jwtkey
  /\ csr # 0 => csr = mtlskey

(* What the steps of a worker may rely on.                                 *)
StepInv ==
  \A w \in Workers :
    /\ pc[w] = "jwt_generate" => jwtkey = 0
    /\ pc[w] = "jwt_copy" => jwtkey # 0
    /\ pc[w] = "mtls_csr" => mtlskey # 0
    /\ pc[w] \in {"mtls_sign", "mtls_write"} => csr # 0 /\ cert = 0

-------------------------------------------------------------------------------
(* IInv in the parts the steps disturb separately.                         *)
LEMMA Parts == IInv <=> TypeOK /\ FileInv /\ StepInv
  BY DEF IInv, FilesMatch, FileInv, StepInv

(* The sections and the places are what they are.                          *)
LEMMA SectionFacts ==
  /\ Locks = {"db", "jwt", "tp", "kw", "mtls"}
  /\ Section["db"] = {"db_tables"}
  /\ Section["jwt"] = {"jwt_generate"}
  /\ Section["tp"] = {"tp_fetch"}
  /\ Section["kw"] = {"kw_copy"}
  /\ Section["mtls"] = {"mtls_key", "mtls_csr", "mtls_load", "mtls_sign", "mtls_write"}
  BY DEF Locks, Section

(* Two workers are never under one lock.                                   *)
LEMMA Exclusion ==
  ASSUME TypeOK, NEW l \in Locks, NEW v \in Workers, NEW w \in Workers,
         pc[v] \in Section[l], pc[w] \in Section[l]
  PROVE  v = w
  BY DEF TypeOK

(* The invariant holds initially.                                          *)
LEMMA InitInv == Init => IInv
  <1> SUFFICES ASSUME Init PROVE IInv
    OBVIOUS
  <1>1. \A w \in Workers, l \in Locks : pc[w] = "db_init" /\ pc[w] \notin Section[l] /\ lock[l] # w
    BY SectionFacts DEF Init
  <1>2. "db_init" \in Places
    BY DEF Places
  <1>3. TypeOK
    <2>1. \A w \in Workers, l \in Locks : pc[w] \in Section[l] <=> lock[l] = w
      BY <1>1
    <2>2. pc \in [Workers -> Places] /\ lock \in [Locks -> Workers \cup {Nobody}]
      BY <1>2 DEF Init
    <2>3. failures \in 0..MaxFailures
      BY DEF Init
    <2>4. \A w \in Workers : pc[w] # "db_tables" /\ pc[w] # "up"
      BY DEF Init
    <2> QED
      BY <2>1, <2>2, <2>3, <2>4 DEF Init, TypeOK
  <1> QED
    BY <1>1, <1>3 DEF Init, IInv, FilesMatch

(* Who holds which lock, lock by lock.                                     *)
Held ==
  \A w \in Workers :
    /\ lock["db"] = w <=> pc[w] = "db_tables"
    /\ lock["jwt"] = w <=> pc[w] = "jwt_generate"
    /\ lock["tp"] = w <=> pc[w] = "tp_fetch"
    /\ lock["kw"] = w <=> pc[w] = "kw_copy"
    /\ lock["mtls"] = w <=> pc[w] \in {"mtls_key", "mtls_csr", "mtls_load", "mtls_sign", "mtls_write"}

(* The rest of the types.                                                  *)
Basic ==
  /\ schema \in BOOLEAN /\ tables \in BOOLEAN
  /\ tables => schema
  /\ jwtkey \in Nat /\ jwtpub \in Nat
  /\ mtlskey \in Nat /\ csr \in Nat /\ cert \in Nat
  /\ lock \in [Locks -> Workers \cup {Nobody}]
  /\ pc \in [Workers -> Places]
  /\ \A w \in Workers : pc[w] = "db_tables" => schema
  /\ booted \subseteq Workers
  /\ \A w \in Workers : pc[w] = "up" => w \in booted
  /\ \A w \in booted : pc[w] \in {"up", "mtls_check", "mtls_lock"} \cup Section.mtls
  /\ failures \in 0..MaxFailures

Copied == foreign \subseteq {"tilauspalvelu", "kraftwerk"}

LEMMA TypeParts == TypeOK <=> Basic /\ Copied /\ Held
  BY SectionFacts DEF TypeOK, Basic, Copied, Held

LEMMA PlaceFacts ==
  Places = {"db_init", "jwt_check", "jwt_lock", "jwt_copy", "tp_check", "kw_check",
            "mtls_check", "mtls_lock", "up", "db_tables", "jwt_generate", "tp_fetch", "kw_copy",
            "mtls_key", "mtls_csr", "mtls_load", "mtls_sign", "mtls_write"}
  BY DEF Places, Section

(* The types, lock holders aside.                                          *)
LEMMA BasicNext == ASSUME Basic, Held, [Next]_vars PROVE Basic'
  <1> USE SectionFacts, PlaceFacts DEF Basic, At, Goto, Take, Free, Release, database, jwtfiles, mtlsfiles
  <1>1. ASSUME NEW w \in Workers, DbSchema(w) \/ DbTables(w) PROVE Basic'
    <2>1. CASE DbSchema(w)
      <3>1. w \notin booted
        BY <2>1 DEF DbSchema
      <3>2. schema' \in BOOLEAN /\ (schema => schema') /\ (pc'[w] = "db_tables" => schema')
        BY <2>1 DEF DbSchema
      <3>3. \A v \in Workers : v # w => pc'[v] = pc[v]
        BY <2>1 DEF DbSchema
      <3>4. pc' \in [Workers -> Places] /\ lock' \in [Locks -> Workers \cup {Nobody}]
        BY <2>1 DEF DbSchema
      <3>5. UNCHANGED <<tables, jwtfiles, mtlsfiles, booted, failures>> /\ pc'[w] # "up"
        BY <2>1 DEF DbSchema
      <3> QED
        BY <3>1, <3>2, <3>3, <3>4, <3>5
    <2>2. CASE DbTables(w)
      BY <2>2 DEF DbTables
    <2> QED
      BY <1>1, <2>1, <2>2
  <1>2. ASSUME NEW w \in Workers, JwtCheck(w) \/ JwtLock(w) PROVE Basic'
    BY <1>2 DEF JwtCheck, JwtLock
  <1>3. ASSUME NEW w \in Workers, JwtGenerate(w) \/ JwtCopy(w) PROVE Basic'
    BY <1>3 DEF JwtGenerate, JwtCopy
  <1>4. ASSUME NEW w \in Workers, TpCheck(w) \/ KwCheck(w) PROVE Basic'
    BY <1>4 DEF TpCheck, KwCheck
  <1>5. ASSUME NEW w \in Workers, TpFetch(w) PROVE Basic'
    BY <1>5 DEF TpFetch
  <1>6. ASSUME NEW w \in Workers, KwCopy(w) PROVE Basic'
    BY <1>6 DEF KwCopy
  <1>7. ASSUME NEW w \in Workers, MtlsCheck(w) \/ MtlsLock(w) \/ UseClient(w) PROVE Basic'
    BY <1>7 DEF MtlsCheck, MtlsLock, UseClient
  <1>8. ASSUME NEW w \in Workers, MtlsKey(w) \/ MtlsCsr(w) \/ MtlsSign(w) PROVE Basic'
    BY <1>8 DEF MtlsKey, MtlsCsr, MtlsSign
  <1>9. ASSUME NEW w \in Workers, MtlsWrite(w) PROVE Basic'
    BY <1>9 DEF MtlsWrite, Up
  <1>10. ASSUME NEW w \in Workers, MtlsLoad(w) PROVE Basic'
    BY <1>10 DEF MtlsLoad, Up, Raise
  <1>11. ASSUME NEW w \in Workers, DbFails(w) \/ SignFails(w) PROVE Basic'
    BY <1>11 DEF DbFails, SignFails, Up, Raise
  <1>12. ASSUME NEW w \in Workers, WorkerCrash(w) PROVE Basic'
    BY <1>12 DEF WorkerCrash
  <1>13. ASSUME UNCHANGED vars PROVE Basic'
    BY <1>13 DEF vars
  <1> QED
    BY <1>1, <1>2, <1>3, <1>4, <1>5, <1>6, <1>7, <1>8, <1>9, <1>10, <1>11, <1>12, <1>13 DEF Next, Advance

(* Nobody else's public keys are there than those that were looked for.    *)
LEMMA CopiedNext == ASSUME Copied, [Next]_vars PROVE Copied'
  <1>1. ASSUME NEW w \in Workers, TpFetch(w) \/ KwCopy(w) PROVE Copied'
    BY <1>1 DEF TpFetch, KwCopy, Copied
  <1>2. CASE UNCHANGED foreign
    BY <1>2 DEF Copied
  <1>3. ASSUME NEW w \in Workers, \/ Advance(w) /\ ~TpFetch(w) /\ ~KwCopy(w)
                                  \/ UseClient(w) \/ DbFails(w) \/ SignFails(w) \/ WorkerCrash(w)
        PROVE  UNCHANGED foreign
    BY <1>3 DEF Advance, DbSchema, DbTables, JwtCheck, JwtLock, JwtGenerate, JwtCopy, TpCheck, KwCheck,
       MtlsCheck, MtlsLock, MtlsKey, MtlsCsr, MtlsLoad, MtlsSign, MtlsWrite, UseClient, DbFails,
       SignFails, WorkerCrash, jwtfiles
  <1>4. ASSUME UNCHANGED vars PROVE UNCHANGED foreign
    BY <1>4 DEF vars, jwtfiles
  <1> QED
    BY <1>1, <1>2, <1>3, <1>4 DEF Next, Advance

(* Every step that enters a section takes its lock and every step that     *)
(* leaves one releases it.                                                 *)
LEMMA HeldNext == ASSUME Basic, Held, [Next]_vars PROVE Held'
  <1> USE SectionFacts DEF Held, At, Goto, Take, Free, Release
  <1>0. lock \in [Locks -> Workers \cup {Nobody}] /\ pc \in [Workers -> Places]
    BY DEF Basic
  <1> USE <1>0
  <1>1. ASSUME NEW w \in Workers, DbSchema(w) \/ DbTables(w) PROVE Held'
    BY <1>1 DEF DbSchema, DbTables
  <1>2. ASSUME NEW w \in Workers, JwtCheck(w) \/ JwtLock(w) PROVE Held'
    BY <1>2 DEF JwtCheck, JwtLock
  <1>3. ASSUME NEW w \in Workers, JwtGenerate(w) \/ JwtCopy(w) PROVE Held'
    BY <1>3 DEF JwtGenerate, JwtCopy
  <1>4. ASSUME NEW w \in Workers, TpCheck(w) \/ KwCheck(w) PROVE Held'
    BY <1>4 DEF TpCheck, KwCheck
  <1>5. ASSUME NEW w \in Workers, TpFetch(w) \/ KwCopy(w) PROVE Held'
    BY <1>5 DEF TpFetch, KwCopy
  <1>7. ASSUME NEW w \in Workers, MtlsCheck(w) \/ MtlsLock(w) \/ UseClient(w) PROVE Held'
    BY <1>7 DEF MtlsCheck, MtlsLock, UseClient
  <1>8. ASSUME NEW w \in Workers, MtlsKey(w) \/ MtlsCsr(w) \/ MtlsSign(w) PROVE Held'
    BY <1>8 DEF MtlsKey, MtlsCsr, MtlsSign
  <1>9. ASSUME NEW w \in Workers, MtlsWrite(w) PROVE Held'
    BY <1>9 DEF MtlsWrite, Up
  <1>10. ASSUME NEW w \in Workers, MtlsLoad(w) PROVE Held'
    BY <1>10 DEF MtlsLoad, Up, Raise
  <1>11. ASSUME NEW w \in Workers, DbFails(w) PROVE Held'
    <2>1. w \notin booted
      BY <1>11 DEF DbFails, Basic
    <2> QED
      BY <1>11, <2>1 DEF DbFails, Raise
  <1>12. ASSUME NEW w \in Workers, SignFails(w) PROVE Held'
    BY <1>12 DEF SignFails, Up, Raise
  <1>13. ASSUME NEW w \in Workers, WorkerCrash(w) PROVE Held'
    BY <1>13 DEF WorkerCrash
  <1>14. ASSUME UNCHANGED vars PROVE Held'
    BY <1>14 DEF vars
  <1> QED
    BY <1>1, <1>2, <1>3, <1>4, <1>5, <1>7, <1>8, <1>9, <1>10, <1>11, <1>12, <1>13, <1>14 DEF Next, Advance

LEMMA TypeNext == ASSUME TypeOK, [Next]_vars PROVE TypeOK'
  <1>1. Basic' /\ Copied' /\ Held'
    BY TypeParts, BasicNext, CopiedNext, HeldNext
  <1>2. TypeOK' <=> Basic' /\ Copied' /\ Held'
    BY SectionFacts DEF TypeOK, Basic, Copied, Held
  <1> QED
    BY <1>1, <1>2

(* Files: only the step under the lock writes, and it found nothing there. *)
LEMMA FileNext == ASSUME IInv, [Next]_vars PROVE FileInv'
  <1> USE Parts DEF FileInv, StepInv, TypeOK, At, database, jwtfiles, mtlsfiles
  <1>1. ASSUME NEW w \in Workers, JwtGenerate(w) \/ JwtCopy(w) PROVE FileInv'
    BY <1>1 DEF JwtGenerate, JwtCopy
  <1>2. ASSUME NEW w \in Workers, MtlsKey(w) \/ MtlsCsr(w) \/ MtlsWrite(w) PROVE FileInv'
    BY <1>2 DEF MtlsKey, MtlsCsr, MtlsWrite
  <1>3. ASSUME NEW w \in Workers,
               \/ DbSchema(w) \/ DbTables(w) \/ JwtCheck(w) \/ JwtLock(w)
               \/ TpCheck(w) \/ TpFetch(w) \/ KwCheck(w) \/ KwCopy(w)
               \/ MtlsCheck(w) \/ MtlsLock(w) \/ MtlsLoad(w) \/ MtlsSign(w)
               \/ UseClient(w) \/ DbFails(w) \/ SignFails(w) \/ WorkerCrash(w)
        PROVE  FileInv'
    BY <1>3 DEF DbSchema, DbTables, JwtCheck, JwtLock, TpCheck, TpFetch, KwCheck, KwCopy, MtlsCheck, MtlsLock, MtlsLoad, MtlsSign,
       UseClient, DbFails, SignFails, WorkerCrash
  <1>4. ASSUME UNCHANGED vars PROVE FileInv'
    BY <1>4 DEF vars
  <1> QED
    BY <1>1, <1>2, <1>3, <1>4 DEF Next, Advance

(* A step under a lock is not overtaken by another worker's.               *)
LEMMA StepNext == ASSUME IInv, [Next]_vars PROVE StepInv'
  <1> USE Parts DEF FileInv, StepInv, TypeOK, At, Goto, database, jwtfiles, mtlsfiles
  <1>1. ASSUME NEW w \in Workers, JwtGenerate(w) PROVE StepInv'
    <2>1. \A v \in Workers : pc[v] = "jwt_generate" => v = w
      BY <1>1, Exclusion, SectionFacts DEF JwtGenerate
    <2> QED
      BY <1>1, <2>1 DEF JwtGenerate
  <1>2. ASSUME NEW w \in Workers, MtlsKey(w) \/ MtlsCsr(w) \/ MtlsWrite(w) PROVE StepInv'
    <2>1. \A v \in Workers : pc[v] \in Section["mtls"] => v = w
      BY <1>2, Exclusion, SectionFacts DEF MtlsKey, MtlsCsr, MtlsWrite
    <2> QED
      BY <1>2, <2>1, SectionFacts DEF MtlsKey, MtlsCsr, MtlsWrite, Up
  <1>3. ASSUME NEW w \in Workers, JwtCheck(w) \/ JwtLock(w) \/ JwtCopy(w) PROVE StepInv'
    BY <1>3 DEF JwtCheck, JwtLock, JwtCopy
  <1>4. ASSUME NEW w \in Workers,
               \/ DbSchema(w) \/ DbTables(w) \/ MtlsCheck(w) \/ MtlsLock(w) \/ MtlsSign(w)
               \/ TpCheck(w) \/ TpFetch(w) \/ KwCheck(w) \/ KwCopy(w)
               \/ UseClient(w) \/ WorkerCrash(w)
        PROVE  StepInv'
    BY <1>4 DEF DbSchema, DbTables, TpCheck, TpFetch, KwCheck, KwCopy, MtlsCheck, MtlsLock, MtlsSign,
       UseClient, WorkerCrash
  <1>5. ASSUME NEW w \in Workers, MtlsLoad(w) \/ DbFails(w) \/ SignFails(w) PROVE StepInv'
    BY <1>5 DEF MtlsLoad, DbFails, SignFails, Up, Raise
  <1>6. ASSUME UNCHANGED vars PROVE StepInv'
    BY <1>6 DEF vars
  <1> QED
    BY <1>1, <1>2, <1>3, <1>4, <1>5, <1>6 DEF Next, Advance

(* Every step preserves the invariant.                                     *)
LEMMA NextInv == IInv /\ [Next]_vars => IInv'
  <1>1. IInv' <=> TypeOK' /\ FileInv' /\ StepInv'
    BY DEF IInv, FilesMatch, FileInv, StepInv
  <1> QED
    BY <1>1, Parts, TypeNext, FileNext, StepNext

-------------------------------------------------------------------------------
(* The inductive invariant holds in every reachable state.                 *)
THEOREM Invariance == Spec => []IInv
  BY InitInv, NextInv, PTL DEF Spec

(* A worker is in a section of init_db, jwt_init or mtls_init exactly when *)
(* it holds that section's lock file, and tables come with the schema.     *)
THEOREM TypeCorrect == Spec => []TypeOK
  <1>1. IInv => TypeOK
    BY DEF IInv
  <1> QED
    BY <1>1, Invariance, PTL

(* The client certificate belongs to the client key and the public key to  *)
(* the private one, whatever races and crashes (mtls_init, jwt_init).      *)
THEOREM FilesAlwaysMatch == Spec => []FilesMatch
  <1>1. IInv => FilesMatch
    BY DEF IInv
  <1> QED
    BY <1>1, Invariance, PTL

(* No key is overwritten once it exists.                                   *)
THEOREM KeysStay == Spec => KeysAreFinal
  <1> DEFINE Final == /\ jwtkey # 0 => jwtkey' = jwtkey
                      /\ mtlskey # 0 => mtlskey' = mtlskey
  <1>1. ASSUME IInv, [Next]_vars PROVE [Final]_vars
    <2> USE DEF database, jwtfiles, mtlsfiles
    <2>1. ASSUME NEW w \in Workers, JwtGenerate(w) PROVE Final
      BY <1>1, <2>1 DEF JwtGenerate, IInv, At
    <2>2. ASSUME NEW w \in Workers, MtlsKey(w) PROVE Final
      BY <2>2 DEF MtlsKey
    <2>3. ASSUME NEW w \in Workers,
                 \/ DbSchema(w) \/ DbTables(w) \/ JwtCheck(w) \/ JwtLock(w) \/ JwtCopy(w)
                 \/ MtlsCheck(w) \/ MtlsLock(w) \/ MtlsCsr(w) \/ MtlsLoad(w) \/ MtlsSign(w)
                 \/ MtlsWrite(w) \/ UseClient(w) \/ DbFails(w) \/ SignFails(w) \/ WorkerCrash(w)
                 \/ TpCheck(w) \/ TpFetch(w) \/ KwCheck(w) \/ KwCopy(w)
          PROVE  Final
      BY <2>3 DEF DbSchema, DbTables, JwtCheck, JwtLock, JwtCopy, TpCheck, TpFetch, KwCheck, KwCopy,
         MtlsCheck, MtlsLock, MtlsCsr,
         MtlsLoad, MtlsSign, MtlsWrite, UseClient, DbFails, SignFails, WorkerCrash
    <2> QED
      BY <1>1, <2>1, <2>2, <2>3 DEF Next, Advance
  <1>2. IInv /\ [Next]_vars => [Final]_vars
    BY <1>1
  <1> QED
    BY <1>2, Invariance, PTL DEF Spec, KeysAreFinal

(* A first half without its second stays alone: schema without tables, JWT *)
(* key pair without the public key in its place, client key without CSR.   *)
THEOREM HalvesStayHalves == Spec => DamageStays
  <1> DEFINE Stays == /\ NoTables => NoTables'
                      /\ NoPublicKey => NoPublicKey'
                      /\ NoRequest => NoRequest'
  <1>1. ASSUME IInv, [Next]_vars PROVE [Stays]_vars
    <2> USE DEF NoTables, NoPublicKey, NoRequest, At, Goto, IInv, TypeOK, database, jwtfiles, mtlsfiles
    <2>1. ASSUME NEW w \in Workers, DbSchema(w) \/ DbTables(w) \/ DbFails(w) PROVE Stays
      BY <2>1, <1>1 DEF DbSchema, DbTables, DbFails, Raise
    <2>2. ASSUME NEW w \in Workers, JwtCheck(w) \/ JwtLock(w) \/ JwtGenerate(w) \/ JwtCopy(w) PROVE Stays
      BY <2>2, <1>1 DEF JwtCheck, JwtLock, JwtGenerate, JwtCopy
    <2>3. ASSUME NEW w \in Workers, TpCheck(w) \/ TpFetch(w) \/ KwCheck(w) \/ KwCopy(w) PROVE Stays
      BY <2>3, <1>1 DEF TpCheck, TpFetch, KwCheck, KwCopy
    <2>4. ASSUME NEW w \in Workers, MtlsCheck(w) \/ MtlsLock(w) \/ MtlsKey(w) \/ MtlsCsr(w) PROVE Stays
      BY <2>4, <1>1 DEF MtlsCheck, MtlsLock, MtlsKey, MtlsCsr
    <2>5. ASSUME NEW w \in Workers, MtlsLoad(w) \/ MtlsSign(w) \/ MtlsWrite(w) \/ SignFails(w) PROVE Stays
      BY <2>5, <1>1 DEF MtlsLoad, MtlsSign, MtlsWrite, SignFails, Up, Raise
    <2>6. ASSUME NEW w \in Workers, UseClient(w) \/ WorkerCrash(w) PROVE Stays
      BY <2>6, <1>1 DEF UseClient, WorkerCrash
    <2> QED
      BY <1>1, <2>1, <2>2, <2>3, <2>4, <2>5, <2>6 DEF Next, Advance
  <1>2. IInv /\ [Next]_vars => [Stays]_vars
    BY <1>1
  <1> QED
    BY <1>2, Invariance, PTL DEF Spec, DamageStays
===============================================================================
