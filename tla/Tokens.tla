-------------------------------- MODULE Tokens --------------------------------
(***************************************************************************)
(* Single-use credentials: login codes (db/logincodes.py) that buy a       *)
(* session, and the nonces of single-use JWTs (db/nonces.py) that buy a    *)
(* session at /token/jwt/exchange or a certificate at /product/sign_csr.   *)
(*                                                                         *)
(* Handlers, workers and their scheduling are those of Handlers: one step  *)
(* is at most one database transaction, a handler gives up its worker's    *)
(* event loop only where it awaits the CA.                                 *)
(***************************************************************************)
EXTENDS Handlers, Integers, FiniteSets

CONSTANTS
  LoginCodes,    (* the login codes secrets.choice may draw                 *)
  Nonces,        (* the nonces of the single-use JWTs in circulation        *)
  AdminNonces,   (* those whose JWT has the anon_admin_session claim        *)
  CsrNonces,     (* those whose JWT has the csr claim                       *)
  Nothing        (* no token                                                *)

ASSUME ConstantsAssumption ==
  /\ AdminNonces \subseteq Nonces
  /\ CsrNonces \subseteq Nonces
  /\ LoginCodes \cap Nonces = {}
  /\ Nothing \notin LoginCodes \cup Nonces

VARIABLES
  logincodes,    (* the codes with a row in the logincodes table            *)
  used,          (* those whose row has used_on                             *)
  seentokens,    (* the nonces with a row in the seentokens table           *)
  granted,       (* how many sessions or certificates each token bought     *)
  signed         (* how many certificates the CA signed for each nonce      *)

db   == <<logincodes, used, seentokens>>
vars == <<db, granted, signed, pc, job, home, failures>>

-------------------------------------------------------------------------------
Tokens    == LoginCodes \cup Nonces
Endpoints == {"generate", "code", "jwt", "csr"}

(* What a request works on.                                                *)
Job(endpoint, t) == [endpoint |-> endpoint, token |-> t]
Jobs  == [endpoint : Endpoints \cup {"none"}, token : Tokens \cup {Nothing}]
NoJob == Job("none", Nothing)

(* Points where the handler awaits the CA.                                 *)
AwaitPoints == {"csr_sign", "csr_signed"}

(* The token is spent and this request will hand out what it buys.         *)
Granting == {"code_issue", "nonce_answer"}

Busy == {"gen_insert", "code_mark", "nonce_look", "nonce_insert"}
          \cup AwaitPoints \cup Granting

MayRun(r)      == LoopIsFree(r, AwaitPoints)
At(r, label)   == pc[r] = label /\ MayRun(r)

(* A new request has done its first read and goes on at label.             *)
Begin(r, label, j) ==
  /\ At(r, "idle")
  /\ Goto(r, label)
  /\ job' = [job EXCEPT ![r] = j]

Finish(r) == Leave(r, NoJob)

Init ==
  /\ logincodes = {} /\ used = {} /\ seentokens = {}
  /\ granted = [t \in Tokens |-> 0]
  /\ signed = [n \in Nonces |-> 0]
  /\ NoRequests(NoJob)

-------------------------------------------------------------------------------
(* /token/code/generate, console addcode: create_for_claims draws codes    *)
(* until by_code raises NotFound.                                          *)
GenerateLook(r, k) ==
  /\ k \notin logincodes
  /\ Begin(r, "gen_insert", Job("generate", k))
  /\ UNCHANGED <<db, granted, signed, failures>>

GenerateInsert(r) ==
  /\ At(r, "gen_insert")
  /\ \/ /\ job[r].token \notin logincodes
        /\ logincodes' = logincodes \cup {job[r].token}
     \/ /\ job[r].token \in logincodes     (* IntegrityError, 500           *)
        /\ UNCHANGED logincodes
  /\ Finish(r)
  /\ UNCHANGED <<used, seentokens, granted, signed, failures>>

-------------------------------------------------------------------------------
(* Mutant: used_on is not looked at.                                       *)
CodeLookAny(r, k) ==
  /\ k \in logincodes
  /\ Begin(r, "code_mark", Job("code", k))
  /\ UNCHANGED <<db, granted, signed, failures>>

(* /token/code/exchange: LoginCode.use_code.  A used code answers 403, an  *)
(* unknown one 500, because obj is not assigned.                           *)
CodeLook(r, k) ==
  /\ k \in logincodes \ used
  /\ Begin(r, "code_mark", Job("code", k))
  /\ UNCHANGED <<db, granted, signed, failures>>

(* Mutant: the update is never committed.                                  *)
CodeMarkNothing(r) ==
  /\ At(r, "code_mark")
  /\ Goto(r, "code_issue")
  /\ UNCHANGED <<db, granted, signed, job, failures>>

(* Mutant: the handler ends with the update.                               *)
CodeMarkOnly(r) ==
  /\ At(r, "code_mark")
  /\ used' = used \cup {job[r].token}
  /\ Finish(r)
  /\ UNCHANGED <<logincodes, seentokens, granted, signed, failures>>

(* The UPDATE of used_on does not look at its old value.                   *)
CodeMark(r) ==
  /\ At(r, "code_mark")
  /\ used' = used \cup {job[r].token}
  /\ Goto(r, "code_issue")
  /\ UNCHANGED <<logincodes, seentokens, granted, signed, job, failures>>

(* The claims are read back, the JWT is issued and answered.               *)
CodeIssue(r) ==
  /\ At(r, "code_issue")
  /\ granted' = [granted EXCEPT ![job[r].token] = @ + 1]
  /\ Finish(r)
  /\ UNCHANGED <<db, signed, failures>>

-------------------------------------------------------------------------------
(* /token/jwt/exchange, of a JWT that verifies and has a nonce: a session  *)
(* is wanted, but its claims are only looked at after the nonce is used.   *)
ExchangeLook(r, n) ==
  /\ n \notin seentokens
  /\ Begin(r, "nonce_insert", Job("jwt", n))
  /\ UNCHANGED <<db, granted, signed, failures>>

(* /product/sign_csr: an unused nonce lets the CSR go to the CA ...        *)
SignLook(r, n) ==
  /\ n \in CsrNonces \ seentokens
  /\ Begin(r, "csr_sign", Job("csr", n))
  /\ UNCHANGED <<db, granted, signed, failures>>

CaSign(r) ==
  /\ pc[r] = "csr_sign"
  /\ signed' = [signed EXCEPT ![job[r].token] = @ + 1]
  /\ Goto(r, "csr_signed")
  /\ UNCHANGED <<db, granted, job, failures>>

(* ... and the nonce is used when the certificate and its bundle are back. *)
SignReply(r) ==
  /\ At(r, "csr_signed")
  /\ Goto(r, "nonce_look")
  /\ UNCHANGED <<db, granted, signed, job, failures>>

(* SeenToken.use_token: a nonce with a row raises TokenReuse.              *)
NonceLook(r) ==
  /\ At(r, "nonce_look")
  /\ \/ /\ job[r].token \notin seentokens
        /\ Goto(r, "nonce_insert")
        /\ UNCHANGED job
     \/ /\ job[r].token \in seentokens
        /\ Finish(r)
  /\ UNCHANGED <<db, granted, signed, failures>>

(* Mutant: the unique constraint is missing.                               *)
NonceInsertAgain(r) ==
  /\ At(r, "nonce_insert")
  /\ seentokens' = seentokens \cup {job[r].token}
  /\ Goto(r, "nonce_answer")
  /\ UNCHANGED <<logincodes, used, granted, signed, job, failures>>

NonceInsert(r) ==
  LET n == job[r].token IN
  /\ At(r, "nonce_insert")
  /\ \/ /\ n \notin seentokens
        /\ seentokens' = seentokens \cup {n}
        /\ Goto(r, "nonce_answer")
        /\ UNCHANGED job
     \/ /\ n \in seentokens                (* IntegrityError, 500           *)
        /\ UNCHANGED seentokens
        /\ Finish(r)
  /\ UNCHANGED <<logincodes, used, granted, signed, failures>>

(* sign_csr returns the certificate; the exchange returns a session unless *)
(* the JWT lacks anon_admin_session, which answers 403.                    *)
NonceAnswer(r) ==
  LET n == job[r].token IN
  /\ At(r, "nonce_answer")
  /\ granted' = IF job[r].endpoint = "csr" \/ n \in AdminNonces
                THEN [granted EXCEPT ![n] = @ + 1] ELSE granted
  /\ Finish(r)
  /\ UNCHANGED <<db, signed, failures>>

-------------------------------------------------------------------------------
(* The CA answers an error or not in time; what was committed stays.       *)
CallFails(r) ==
  /\ failures < MaxFailures
  /\ pc[r] \in AwaitPoints /\ MayRun(r)
  /\ failures' = failures + 1
  /\ Finish(r)
  /\ UNCHANGED <<db, granted, signed, home>>

(* What was committed stays.                                               *)
WorkerCrash(w) == Dies(w, NoJob) /\ UNCHANGED <<db, granted, signed>>

-------------------------------------------------------------------------------
(* A client's choice to call an endpoint.                                  *)
Arrive(r) ==
  /\ UNCHANGED home
  /\ \/ \E k \in LoginCodes : GenerateLook(r, k) \/ CodeLook(r, k)
     \/ \E n \in Nonces : ExchangeLook(r, n) \/ SignLook(r, n)

(* A running handler, or the CA it waits for, takes a step.                *)
Advance(r) ==
  /\ UNCHANGED home
  /\ \/ GenerateInsert(r)
     \/ CodeMark(r) \/ CodeIssue(r)
     \/ CaSign(r) \/ SignReply(r)
     \/ NonceLook(r) \/ NonceInsert(r) \/ NonceAnswer(r)

Next ==
  \/ \E r \in Requests : Arrive(r) \/ Advance(r) \/ CallFails(r)
  \/ \E w \in Workers : WorkerCrash(w)

Spec == Init /\ [][Next]_vars

(* As in Enrollment: the event loop is fair and CA calls end.              *)
FairSpec == Spec /\ \A r \in Requests : SF_vars(Advance(r))

-------------------------------------------------------------------------------
TypeOK ==
  /\ logincodes \subseteq LoginCodes
  /\ used \subseteq logincodes
  /\ seentokens \subseteq Nonces
  /\ granted \in [Tokens -> Nat]
  /\ signed \in [Nonces -> Nat]
  /\ pc \in [Requests -> Busy \cup {"idle"}]
  /\ job \in [Requests -> Jobs]
  /\ home \in Deployments
  /\ failures \in 0..MaxFailures

(* A nonce buys one thing at most, a session or a certificate, however     *)
(* exchanges and signing requests of any workers race, crash and retry:    *)
(* the unique column decides, not the look at the table before it.         *)
NonceBuysOnce == \A n \in Nonces : granted[n] <= 1

(* Nothing is handed out for a token that is not spent in the database     *)
(* yet, so a crash never leaves a token usable that already bought         *)
(* something; a certificate handed out was signed for that nonce.          *)
GrantedIsSpent ==
  \A t \in Tokens :
    /\ granted[t] > 0 => t \in used \cup seentokens
    /\ t \in Nonces /\ granted[t] > 0 => t \in AdminNonces \/ signed[t] > 0

(* "Add new single-use login code": the look at a code and the update run  *)
(* without an await in between, but the update does not look again, so     *)
(* each worker may let one request through.  However many race, a code     *)
(* buys no more sessions than workers serve requests: with one, one.       *)
CodeBuysOnePerWorker == \A k \in LoginCodes : granted[k] <= Cardinality(Serving)

(* The inductive invariant.                                                *)
SpendInv ==
  \A t \in Tokens :
    t \notin used \cup seentokens =>
      /\ granted[t] = 0
      /\ \A r \in Requests : pc[r] \in Granting => job[r].token # t

HolderInv ==
  \A r \in Requests :
    /\ pc[r] \in {"gen_insert", "code_mark", "code_issue"} =>
         job[r].token \in LoginCodes
    /\ pc[r] \in {"code_mark", "code_issue"} => job[r].token \in logincodes
    /\ pc[r] \in AwaitPoints \cup {"nonce_look", "nonce_insert", "nonce_answer"} =>
         job[r].token \in Nonces /\ job[r].endpoint \in {"jwt", "csr"}
    /\ pc[r] \in {"csr_signed", "nonce_look", "nonce_insert", "nonce_answer"}
         /\ job[r].endpoint = "csr" => signed[job[r].token] > 0

NonceInv ==
  /\ NonceBuysOnce
  /\ \A r \in Requests : pc[r] = "nonce_answer" =>
       /\ granted[job[r].token] = 0
       /\ \A q \in Requests : pc[q] = "nonce_answer" /\ job[q].token = job[r].token => q = r

(* Requests past the commit that spends a token are the only ones about to *)
(* grant something, and for a nonce there is at most one of them, once.    *)
IInv == TypeOK /\ HolderInv /\ SpendInv /\ NonceInv /\ GrantedIsSpent

(* The requests inside use_code, and the workers that are in it for k.     *)
InUseCode == {r \in Requests : pc[r] \in {"code_mark", "code_issue"}}
Using(k)  == {home[r] : r \in {q \in InUseCode : job[q].token = k}}

(* A worker is inside use_code once at a time, and each session a code has *)
(* bought was bought by a worker that cannot be using that code any more.  *)
CodeInv ==
  /\ \A r, q \in InUseCode : home[r] = home[q] => r = q
  /\ \A k \in LoginCodes : granted[k] + Cardinality(Using(k)) <= Cardinality(Serving)

-------------------------------------------------------------------------------
(* The promise of OneTime: a nonce buys one thing, a login code at most    *)
(* one session per worker.                                                 *)
nonceState == [n \in Nonces |-> IF n \in seentokens THEN "spent" ELSE "fresh"]
nonceGrants == [n \in Nonces |-> granted[n]]
codeState ==
  [k \in LoginCodes |-> IF k \in used THEN "spent"
                        ELSE IF k \in logincodes THEN "fresh" ELSE "absent"]
codeGrants == [k \in LoginCodes |-> granted[k]]

N == INSTANCE OneTime WITH Tokens <- Nonces, state <- nonceState, grants <- nonceGrants,
                       limit <- 1
C == INSTANCE OneTime WITH Tokens <- LoginCodes, state <- codeState, grants <- codeGrants,
                       limit <- Cardinality(Serving)

(* Nonces (db/nonces.py) are one-time tokens.                              *)
NonceSpec == N!Spec

(* Login codes (db/logincodes.py) are spent once for good, and a spent one *)
(* buys no more than a session per worker, one with a single worker.       *)
CodeSpec == C!Spec

(* Liveness, until something fails: a code marked as used, or a nonce      *)
(* spent that every endpoint honours, does buy its holder something.       *)
SpentIsGranted ==
  /\ \A k \in LoginCodes : k \in used ~> (granted[k] > 0 \/ failures > 0)
  /\ \A n \in AdminNonces : n \in seentokens ~> (granted[n] > 0 \/ failures > 0)

(* Its safety half: as long as a spent token has bought nothing, there is  *)
(* the request that spent it, about to hand out what it buys.              *)
SpentIsInHand ==
  failures = 0 =>
    /\ \A k \in used :
         granted[k] > 0 \/ \E r \in Requests : pc[r] = "code_issue" /\ job[r].token = k
    /\ \A n \in seentokens \cap AdminNonces :
         granted[n] > 0 \/ \E r \in Requests : pc[r] = "nonce_answer" /\ job[r].token = n
===============================================================================
