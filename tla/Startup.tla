-------------------------------- MODULE Startup --------------------------------
(***************************************************************************)
(* What every gunicorn worker does before it serves (app_lifespan):        *)
(* init_db, jwt_init and mtls_init over one database and one persistent    *)
(* directory.  Each takes a lock file that dies with its holder and, when  *)
(* it is taken, sleeps and starts over.  A worker that raises here makes   *)
(* gunicorn halt, and the container starts again.  mtls_init also runs     *)
(* later, before a call to a product or the CA (get_session_winit).        *)
(*                                                                         *)
(* Files hold the number of the key pair they belong to, 0 when missing,   *)
(* and appear as a whole.                                                  *)
(***************************************************************************)
EXTENDS Integers

CONSTANTS
  Workers,      (* gunicorn worker processes                               *)
  Nobody,       (* the holder of a free lock                               *)
  Sources,      (* where public keys of others come from: "tilauspalvelu"  *)
                (* is asked over HTTP, "kraftwerk" is a directory          *)
  MaxFailures   (* bound: crashes and failed calls                         *)

ASSUME ConstantsAssumption ==
  /\ Nobody \notin Workers
  /\ Sources \subseteq {"tilauspalvelu", "kraftwerk"}
  /\ MaxFailures \in Nat

VARIABLES
  schema,       (* the database schema is committed                        *)
  tables,       (* the tables in it are committed                          *)
  jwtkey,       (* the key that signs JWTs                                 *)
  jwtpub,       (* its public half among the keys JWTs are verified with   *)
  foreign,      (* the sources whose public keys are there as well         *)
  mtlskey,      (* the key of the service's own mTLS client certificate    *)
  csr,          (* the certificate signing request for it                  *)
  cert,         (* the certificate                                         *)
  lock,         (* who holds which lock file                               *)
  pc,           (* where each worker is                                    *)
  booted,       (* workers that have come through                          *)
  failures      (* failures so far                                         *)

database == <<schema, tables>>
jwtfiles == <<jwtkey, jwtpub, foreign>>
mtlsfiles == <<mtlskey, csr, cert>>
vars == <<database, jwtfiles, mtlsfiles, lock, pc, booted, failures>>

-------------------------------------------------------------------------------
(* The steps that run under each lock.                                     *)
Section == [db   |-> {"db_tables"},
            jwt  |-> {"jwt_generate"},
            tp   |-> {"tp_fetch"},
            kw   |-> {"kw_copy"},
            mtls |-> {"mtls_key", "mtls_csr", "mtls_load", "mtls_sign", "mtls_write"}]
Locks  == DOMAIN Section
Places == {"db_init", "jwt_check", "jwt_lock", "jwt_copy", "tp_check", "kw_check",
           "mtls_check", "mtls_lock", "up"}
            \cup Section.db \cup Section.jwt \cup Section.tp \cup Section.kw \cup Section.mtls

At(w, label)   == pc[w] = label
Goto(w, label) == pc' = [pc EXCEPT ![w] = label]
Take(l, w)     == lock' = [lock EXCEPT ![l] = w]
Free(l)        == lock[l] = Nobody
Release(l)     == Take(l, Nobody)

Init ==
  /\ schema = FALSE /\ tables = FALSE
  /\ jwtkey = 0 /\ jwtpub = 0 /\ foreign = {}
  /\ mtlskey = 0 /\ csr = 0 /\ cert = 0
  /\ lock = [l \in Locks |-> Nobody]
  /\ pc = [w \in Workers |-> "db_init"]
  /\ booted = {}
  /\ failures = 0

-------------------------------------------------------------------------------
(* init_db: the tables are created together with the schema or never, in a *)
(* transaction of their own.                                               *)
DbSchema(w) ==
  /\ At(w, "db_init") /\ Free("db")
  /\ \/ /\ ~schema
        /\ schema' = TRUE
        /\ Take("db", w)
        /\ Goto(w, "db_tables")
     \/ /\ schema
        /\ Goto(w, "jwt_check")
        /\ UNCHANGED <<schema, lock>>
  /\ UNCHANGED <<tables, jwtfiles, mtlsfiles, booted, failures>>

DbTables(w) ==
  /\ At(w, "db_tables")
  /\ tables' = TRUE
  /\ Release("db")
  /\ Goto(w, "jwt_check")
  /\ UNCHANGED <<schema, jwtfiles, mtlsfiles, booted, failures>>

-------------------------------------------------------------------------------
(* jwt_init.  A private key is enough for check_jwt_init, which then looks *)
(* after the keys of others but not after the public half of its own.      *)
JwtCheck(w) ==
  /\ At(w, "jwt_check")
  /\ Goto(w, IF jwtkey # 0 THEN "tp_check" ELSE "jwt_lock")
  /\ UNCHANGED <<database, jwtfiles, mtlsfiles, lock, booted, failures>>

(* Mutant: the key is not looked for again under the lock.                 *)
JwtLockBlindly(w) ==
  /\ At(w, "jwt_lock")
  /\ IF Free("jwt") THEN Take("jwt", w) /\ Goto(w, "jwt_generate")
                    ELSE Goto(w, "jwt_check") /\ UNCHANGED lock
  /\ UNCHANGED <<database, jwtfiles, mtlsfiles, booted, failures>>

(* Under the lock the key is looked for again.                             *)
JwtLock(w) ==
  /\ At(w, "jwt_lock")
  /\ \/ /\ Free("jwt") /\ jwtkey = 0
        /\ Take("jwt", w)
        /\ Goto(w, "jwt_generate")
     \/ /\ Free("jwt") /\ jwtkey # 0
        /\ Goto(w, "mtls_check")
        /\ UNCHANGED lock
     \/ /\ ~Free("jwt")
        /\ Goto(w, "jwt_check")
        /\ UNCHANGED lock
  /\ UNCHANGED <<database, jwtfiles, mtlsfiles, booted, failures>>

(* generate_keypair, in an executor, and the release of the lock.          *)
JwtGenerate(w) ==
  /\ At(w, "jwt_generate")
  /\ jwtkey' = jwtkey + 1
  /\ Release("jwt")
  /\ Goto(w, "jwt_copy")
  /\ UNCHANGED <<database, jwtpub, foreign, mtlsfiles, booted, failures>>

JwtCopy(w) ==
  /\ At(w, "jwt_copy")
  /\ jwtpub' = jwtkey
  /\ Goto(w, "tp_check")
  /\ UNCHANGED <<database, jwtkey, foreign, mtlsfiles, lock, booted, failures>>

-------------------------------------------------------------------------------
(* check_public_keys: a source somebody else is busy with is left to them. *)
TpCheck(w) ==
  /\ At(w, "tp_check")
  /\ \/ /\ "tilauspalvelu" \in Sources \ foreign /\ Free("tp")
        /\ Take("tp", w)
        /\ Goto(w, "tp_fetch")
     \/ /\ "tilauspalvelu" \notin Sources \ foreign \/ ~Free("tp")
        /\ Goto(w, "kw_check")
        /\ UNCHANGED lock
  /\ UNCHANGED <<database, jwtfiles, mtlsfiles, booted, failures>>

(* That the key could not be fetched is only logged.                       *)
TpFetch(w) ==
  /\ At(w, "tp_fetch")
  /\ Release("tp")
  /\ Goto(w, "kw_check")
  /\ \/ /\ foreign' = foreign \cup {"tilauspalvelu"}
        /\ UNCHANGED failures
     \/ /\ failures < MaxFailures
        /\ failures' = failures + 1
        /\ UNCHANGED foreign
  /\ UNCHANGED <<database, jwtkey, jwtpub, mtlsfiles, booted>>

(* Mutant: keys are copied by the worker that made the key pair only.      *)
KwCheckSkips(w) ==
  /\ At(w, "kw_check")
  /\ \/ /\ "kraftwerk" \in Sources /\ Free("kw") /\ jwtpub = 0
        /\ Take("kw", w)
        /\ Goto(w, "kw_copy")
     \/ /\ "kraftwerk" \notin Sources \/ ~Free("kw") \/ jwtpub # 0
        /\ Goto(w, "mtls_check")
        /\ UNCHANGED lock
  /\ UNCHANGED <<database, jwtfiles, mtlsfiles, booted, failures>>

KwCheck(w) ==
  /\ At(w, "kw_check")
  /\ \/ /\ "kraftwerk" \in Sources /\ Free("kw")
        /\ Take("kw", w)
        /\ Goto(w, "kw_copy")
     \/ /\ "kraftwerk" \notin Sources \/ ~Free("kw")
        /\ Goto(w, "mtls_check")
        /\ UNCHANGED lock
  /\ UNCHANGED <<database, jwtfiles, mtlsfiles, booted, failures>>

(* The files that are not there yet.                                       *)
KwCopy(w) ==
  /\ At(w, "kw_copy")
  /\ Release("kw")
  /\ Goto(w, "mtls_check")
  /\ foreign' = foreign \cup {"kraftwerk"}
  /\ UNCHANGED <<database, jwtkey, jwtpub, mtlsfiles, booted, failures>>

-------------------------------------------------------------------------------
(* mtls_init.                                                              *)
MtlsCheck(w) ==
  /\ At(w, "mtls_check")
  /\ \/ /\ cert # 0 /\ mtlskey # 0
        /\ Goto(w, "up")
        /\ booted' = booted \cup {w}
     \/ /\ cert = 0 \/ mtlskey = 0
        /\ Goto(w, "mtls_lock")
        /\ UNCHANGED booted
  /\ UNCHANGED <<database, jwtfiles, mtlsfiles, lock, failures>>

MtlsLock(w) ==
  /\ At(w, "mtls_lock")
  /\ \/ /\ Free("mtls")
        /\ Take("mtls", w)
        /\ Goto(w, "mtls_key")
     \/ /\ ~Free("mtls")
        /\ Goto(w, "mtls_check")
        /\ UNCHANGED lock
  /\ UNCHANGED <<database, jwtfiles, mtlsfiles, booted, failures>>

(* Mutant: a key that exists is overwritten.                               *)
MtlsKeyAgain(w) ==
  /\ At(w, "mtls_key")
  /\ mtlskey' = mtlskey + 1
  /\ Goto(w, "mtls_csr")
  /\ UNCHANGED <<database, jwtfiles, csr, cert, lock, booted, failures>>

MtlsKey(w) ==
  /\ At(w, "mtls_key")
  /\ \/ /\ mtlskey = 0
        /\ mtlskey' = mtlskey + 1
        /\ Goto(w, "mtls_csr")
     \/ /\ mtlskey # 0
        /\ Goto(w, "mtls_load")
        /\ UNCHANGED mtlskey
  /\ UNCHANGED <<database, jwtfiles, csr, cert, lock, booted, failures>>

MtlsCsr(w) ==
  /\ At(w, "mtls_csr")
  /\ csr' = mtlskey
  /\ Goto(w, "mtls_load")
  /\ UNCHANGED <<database, jwtfiles, mtlskey, cert, lock, booted, failures>>

(* mtls_init returns.                                                      *)
Up(w) ==
  /\ Release("mtls")
  /\ Goto(w, "up")
  /\ booted' = booted \cup {w}

(* An exception: the request that asked for a client session fails, or the *)
(* worker does not boot, gunicorn halts and everything starts again.       *)
Raise(w) ==
  \/ /\ w \in booted
     /\ Goto(w, "up")
     /\ Release("mtls")
     /\ UNCHANGED booted
  \/ /\ w \notin booted
     /\ pc' = [v \in Workers |-> "db_init"]
     /\ lock' = [l \in Locks |-> Nobody]
     /\ booted' = {}

(* Without a certificate, the CSR just made or the one on disk is used.    *)
MtlsLoad(w) ==
  /\ At(w, "mtls_load")
  /\ \/ cert # 0 /\ Up(w)
     \/ /\ cert = 0 /\ csr # 0
        /\ Goto(w, "mtls_sign")
        /\ UNCHANGED <<lock, booted>>
     \/ cert = 0 /\ csr = 0 /\ Raise(w)
  /\ UNCHANGED <<database, jwtfiles, mtlsfiles, failures>>

(* The CA signs.                                                           *)
MtlsSign(w) ==
  /\ At(w, "mtls_sign")
  /\ Goto(w, "mtls_write")
  /\ UNCHANGED <<database, jwtfiles, mtlsfiles, lock, booted, failures>>

MtlsWrite(w) ==
  /\ At(w, "mtls_write")
  /\ cert' = csr
  /\ Up(w)
  /\ UNCHANGED <<database, jwtfiles, mtlskey, csr, failures>>

(* A handler asks for a client session.                                    *)
UseClient(w) ==
  /\ At(w, "up")
  /\ cert = 0 \/ mtlskey = 0
  /\ Goto(w, "mtls_check")
  /\ UNCHANGED <<database, jwtfiles, mtlsfiles, lock, booted, failures>>

-------------------------------------------------------------------------------
(* The database is gone before the tables are committed; init_db is tried  *)
(* again from the start until the retries are used up.                     *)
DbFails(w) ==
  /\ failures < MaxFailures
  /\ At(w, "db_tables")
  /\ failures' = failures + 1
  /\ \/ /\ Goto(w, "db_init")
        /\ Release("db")
        /\ UNCHANGED booted
     \/ Raise(w)
  /\ UNCHANGED <<database, jwtfiles, mtlsfiles>>

(* A CertError is only logged; a timeout is raised.                        *)
SignFails(w) ==
  /\ failures < MaxFailures
  /\ At(w, "mtls_sign")
  /\ failures' = failures + 1
  /\ Up(w) \/ Raise(w)
  /\ UNCHANGED <<database, jwtfiles, mtlsfiles>>

(* A worker is killed; its locks are free and another takes its place.     *)
WorkerCrash(w) ==
  /\ failures < MaxFailures
  /\ failures' = failures + 1
  /\ Goto(w, "db_init")
  /\ lock' = [l \in Locks |-> IF lock[l] = w THEN Nobody ELSE lock[l]]
  /\ booted' = booted \ {w}
  /\ UNCHANGED <<database, jwtfiles, mtlsfiles>>

Advance(w) ==
  \/ DbSchema(w) \/ DbTables(w)
  \/ JwtCheck(w) \/ JwtLock(w) \/ JwtGenerate(w) \/ JwtCopy(w)
  \/ TpCheck(w) \/ TpFetch(w) \/ KwCheck(w) \/ KwCopy(w)
  \/ MtlsCheck(w) \/ MtlsLock(w) \/ MtlsKey(w) \/ MtlsCsr(w)
  \/ MtlsLoad(w) \/ MtlsSign(w) \/ MtlsWrite(w)

Next ==
  \E w \in Workers :
    Advance(w) \/ UseClient(w) \/ DbFails(w) \/ SignFails(w) \/ WorkerCrash(w)

Spec == Init /\ [][Next]_vars

(* Workers are processes of their own; every sleep and every call ends.    *)
FairSpec == Spec /\ \A w \in Workers : WF_vars(Advance(w))

-------------------------------------------------------------------------------
(* Types, who holds a lock, and where a worker that serves may be.         *)
TypeOK ==
  /\ schema \in BOOLEAN /\ tables \in BOOLEAN
  /\ tables => schema
  /\ jwtkey \in Nat /\ jwtpub \in Nat /\ foreign \subseteq {"tilauspalvelu", "kraftwerk"}
  /\ mtlskey \in Nat /\ csr \in Nat /\ cert \in Nat
  /\ lock \in [Locks -> Workers \cup {Nobody}]
  /\ pc \in [Workers -> Places]
  /\ \A w \in Workers, l \in Locks : pc[w] \in Section[l] <=> lock[l] = w
  /\ \A w \in Workers : pc[w] = "db_tables" => schema
  /\ booted \subseteq Workers
  /\ \A w \in Workers : pc[w] = "up" => w \in booted
  /\ \A w \in booted : pc[w] \in {"up", "mtls_check", "mtls_lock"} \cup Section.mtls
  /\ failures \in 0..MaxFailures

(* However workers race, crash and start again, the client certificate is  *)
(* the one of the client key and the public key verifies what the private  *)
(* key signs.                                                              *)
FilesMatch ==
  /\ cert # 0 => cert = mtlskey
  /\ jwtpub # 0 => jwtpub = jwtkey

(* Action property: a key that exists is never overwritten, although it is *)
(* looked for outside the lock first.                                      *)
KeysAreFinal ==
  [][/\ jwtkey # 0 => jwtkey' = jwtkey
     /\ mtlskey # 0 => mtlskey' = mtlskey]_vars

(* The inductive invariant: what each step under a lock may rely on.       *)
IInv ==
  /\ TypeOK /\ FilesMatch
  /\ csr # 0 => csr = mtlskey
  /\ \A w \in Workers :
       /\ pc[w] = "jwt_generate" => jwtkey = 0
       /\ pc[w] = "jwt_copy" => jwtkey # 0
       /\ pc[w] = "mtls_csr" => mtlskey # 0
       /\ pc[w] \in {"mtls_sign", "mtls_write"} => csr # 0 /\ cert = 0

(* What a crash or a failure between two commits or two files leaves, when *)
(* nobody is about to make the second one.                                 *)
NoTables    == schema /\ ~tables /\ \A w \in Workers : ~At(w, "db_tables")
NoPublicKey == jwtkey # 0 /\ jwtpub = 0 /\ \A w \in Workers : ~At(w, "jwt_copy")
NoRequest   == mtlskey # 0 /\ csr = 0 /\ \A w \in Workers : ~At(w, "mtls_csr")

(* Liveness, through every crash and failure: the tables and the public    *)
(* key come to be there and all workers serve, with the keys of KRAFTWERK, *)
(* except where one of the three pairs was cut in two.                     *)
RestartsRecover ==
  <>[](/\ tables \/ NoTables
       /\ jwtpub # 0 \/ NoPublicKey
       /\ \/ NoRequest
          \/ /\ \A w \in Workers : At(w, "up")
             /\ Sources \ foreign \subseteq {"tilauspalvelu"})

(* Action property: what was cut in two is never completed by a later      *)
(* start, which takes the first half for the whole.                        *)
DamageStays ==
  [][/\ NoTables => NoTables'
     /\ NoPublicKey => NoPublicKey'
     /\ NoRequest => NoRequest']_vars

===============================================================================
