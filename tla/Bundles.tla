-------------------------------- MODULE Bundles --------------------------------
(***************************************************************************)
(* The PKCS12 bundle of a person: Person.create_pfx and those that call    *)
(* it, the background task a creation leaves behind (_post_create), the    *)
(* downloads of the person (web/api/enduserpfx) and the getpfx command of  *)
(* the command line, which is a process of its own.                        *)
(*                                                                         *)
(* Handlers, workers and await points are as in Enrollment, but the bundle *)
(* is written by a thread of the executor: the file is opened, which       *)
(* empties it, and filled, while the event loop goes on.                   *)
(***************************************************************************)
EXTENDS Integers, FiniteSets

CONSTANTS
  Callsigns,    (* callsigns                                               *)
  Nobody,       (* no callsign                                             *)
  Requests,     (* slots for handlers and commands                         *)
  Tasks,        (* bound: slots for background tasks                       *)
  Workers,      (* processes: gunicorn workers and commands                *)
  Console,      (* those that are commands                                 *)
  Home,         (* [Requests \cup Tasks -> Workers]                        *)
  MaxFailures   (* bound: failed calls and crashes                         *)

Slots == Requests \cup Tasks

ASSUME ConstantsAssumption ==
  /\ Nobody \notin Callsigns
  /\ Requests \cap Tasks = {}
  /\ Console \subseteq Workers
  /\ Home \in [Slots -> Workers]
  /\ MaxFailures \in Nat

VARIABLES
  users,        (* callsigns with a person                                 *)
  deleted,      (* those marked deleted                                    *)
  certfile,     (* those whose certificate is on disk                      *)
  bundle,       (* each one's mtls.pfx                                     *)
  pc,           (* where each slot is                                      *)
  job,          (* the callsign it is about                                *)
  failures      (* failures so far                                         *)

db   == <<users, deleted>>
vars == <<db, certfile, bundle, pc, job, failures>>

-------------------------------------------------------------------------------
Live == users \ deleted

(* In the executor.  A response is sent, or a copy made, of what is there  *)
(* by then.                                                                *)
Threads     == {"pfx_convert", "pfx_open", "pfx_fill"}
AwaitPoints == Threads \cup {"pfx_start", "pfx_done", "serve",
                             "cre_sign", "cre_signed", "cre_kc", "cre_kcdone"}
Places      == AwaitPoints \cup {"idle", "cre_insert"}

MayRun(s) == \A q \in Slots \ {s} : Home[q] = Home[s] => pc[q] \in AwaitPoints \cup {"idle"}

At(s, label)   == pc[s] = label /\ MayRun(s)
Goto(s, label) == pc' = [pc EXCEPT ![s] = label]
Finish(s)      == Goto(s, "idle") /\ job' = [job EXCEPT ![s] = Nobody]

Begin(r, label, c) ==
  /\ At(r, "idle")
  /\ Goto(r, label)
  /\ job' = [job EXCEPT ![r] = c]

(* Mutant: the bundle is written every time.                               *)
Rewritten(c) == "pfx_convert"

(* create_pfx: a file of that name will do.                                *)
Looked(c) == IF bundle[c] = "none" THEN "pfx_convert" ELSE "serve"

Init ==
  /\ users = {} /\ deleted = {} /\ certfile = {}
  /\ bundle = [c \in Callsigns |-> "none"]
  /\ pc = [s \in Slots |-> "idle"]
  /\ job = [s \in Slots |-> Nobody]
  /\ failures = 0

-------------------------------------------------------------------------------
(* An accepted enrollment gets to create_with_cert.  NotFound is also what *)
(* a deleted person raises.                                                *)
Accept(r, c) ==
  /\ Home[r] \notin Console /\ c \notin Live
  /\ Begin(r, "cre_insert", c)
  /\ UNCHANGED <<db, certfile, bundle, failures>>

(* getpfx: whoever is not there is created.                                *)
GetPfx(r, c) ==
  /\ Home[r] \in Console
  /\ Begin(r, IF c \in Live THEN Looked(c) ELSE "cre_insert", c)
  /\ UNCHANGED <<db, certfile, bundle, failures>>

(* Neither a subject without a row nor one that is deleted gets past.      *)
ValidUser(c) == c \in Live

(* Whom the mTLS certificate or the JWT names gets its own files: a        *)
(* callsign in the path that is another's is refused.                      *)
Download(r, c) ==
  /\ Home[r] \notin Console /\ ValidUser(c)
  /\ Begin(r, Looked(c), c)
  /\ UNCHANGED <<db, certfile, bundle, failures>>

(* Mutant: the files go with the person.                                   *)
DeletePurges(r, c) ==
  /\ At(r, "idle") /\ c \in Live
  /\ deleted' = deleted \cup {c}
  /\ bundle' = [bundle EXCEPT ![c] = "none"]
  /\ UNCHANGED <<users, certfile, pc, job, failures>>

(* DELETE /people/{callsign} and revokeuser; the files stay.  What becomes *)
(* of the certificate is in Enrollment.                                    *)
Delete(r, c) ==
  /\ At(r, "idle") /\ c \in Live
  /\ deleted' = deleted \cup {c}
  /\ UNCHANGED <<users, certfile, bundle, pc, job, failures>>

-------------------------------------------------------------------------------
CreateInsert(r) ==
  /\ At(r, "cre_insert")
  /\ \/ /\ job[r] \notin users
        /\ Goto(r, "cre_sign")
        /\ UNCHANGED job
     \/ job[r] \in users /\ Finish(r)        (* IntegrityError              *)
  /\ users' = users \cup {job[r]}
  /\ UNCHANGED <<deleted, certfile, bundle, failures>>

(* The CA and Keycloak.                                                    *)
Answer(r) ==
  /\ \/ pc[r] = "cre_sign" /\ Goto(r, "cre_signed")
     \/ pc[r] = "cre_kc"   /\ Goto(r, "cre_kcdone")
  /\ UNCHANGED <<db, certfile, bundle, job, failures>>

CreateSigned(r) ==
  /\ At(r, "cre_signed")
  /\ certfile' = certfile \cup {job[r]}
  /\ Goto(r, "cre_kc")
  /\ UNCHANGED <<db, bundle, job, failures>>

(* Mutant: no background task.                                             *)
CreateEndAlone(r) ==
  /\ At(r, "cre_kcdone")
  /\ Finish(r)
  /\ UNCHANGED <<db, certfile, bundle, failures>>

(* The rest of _post_create: a background task is left to write the        *)
(* bundle.  getpfx goes on to write it, too.                               *)
CreateEnd(r) ==
  /\ At(r, "cre_kcdone")
  /\ \E t \in Tasks :
       /\ Home[t] = Home[r] /\ pc[t] = "idle"
       /\ \/ /\ Home[r] \notin Console
             /\ pc'  = [pc EXCEPT ![t] = "pfx_start", ![r] = "idle"]
             /\ job' = [job EXCEPT ![t] = job[r], ![r] = Nobody]
          \/ /\ Home[r] \in Console
             /\ pc'  = [pc EXCEPT ![t] = "pfx_start", ![r] = Looked(job[r])]
             /\ job' = [job EXCEPT ![t] = job[r]]
  /\ UNCHANGED <<db, certfile, bundle, failures>>

-------------------------------------------------------------------------------
(* create_pfx in the background.                                           *)
Start(t) ==
  /\ At(t, "pfx_start")
  /\ Goto(t, Looked(job[t]))
  /\ UNCHANGED <<db, certfile, bundle, job, failures>>

(* Mutant: the file is opened before there is something to write.          *)
ConvertLate(s) ==
  /\ pc[s] = "pfx_convert"
  /\ bundle' = [bundle EXCEPT ![job[s]] = "half"]
  /\ \/ /\ job[s] \in certfile
        /\ Goto(s, "pfx_open")
        /\ UNCHANGED job
     \/ job[s] \notin certfile /\ Finish(s)
  /\ UNCHANGED <<db, certfile, failures>>

(* write_pfx: without a certificate there is nothing to convert, the       *)
(* exception ends the handler.                                             *)
Convert(s) ==
  /\ pc[s] = "pfx_convert"
  /\ \/ /\ job[s] \in certfile
        /\ Goto(s, "pfx_open")
        /\ UNCHANGED job
     \/ job[s] \notin certfile /\ Finish(s)
  /\ UNCHANGED <<db, certfile, bundle, failures>>

Open(s) ==
  /\ pc[s] = "pfx_open"
  /\ bundle' = [bundle EXCEPT ![job[s]] = "half"]
  /\ Goto(s, "pfx_fill")
  /\ UNCHANGED <<db, certfile, job, failures>>

Fill(s) ==
  /\ pc[s] = "pfx_fill"
  /\ bundle' = [bundle EXCEPT ![job[s]] = "whole"]
  /\ Goto(s, "pfx_done")
  /\ UNCHANGED <<db, certfile, job, failures>>

(* Back in the event loop.                                                 *)
Done(s) ==
  /\ At(s, "pfx_done")
  /\ Goto(s, "serve")
  /\ UNCHANGED <<db, certfile, bundle, job, failures>>

(* The response, or the copy of getpfx; a background task just ends.       *)
Serve(s) ==
  /\ pc[s] = "serve"
  /\ Finish(s)
  /\ UNCHANGED <<db, certfile, bundle, failures>>

-------------------------------------------------------------------------------
(* A call fails; the directory is removed, which has no bundle in it yet,  *)
(* or nobody is left to write one.                                         *)
CallFails(r) ==
  /\ pc[r] \in {"cre_sign", "cre_kc"} /\ MayRun(r)
  /\ failures < MaxFailures
  /\ failures' = failures + 1
  /\ Finish(r)
  /\ UNCHANGED <<db, certfile, bundle>>

(* A process dies, with its threads.                                       *)
Crash(w) ==
  /\ failures < MaxFailures
  /\ \E s \in Slots : Home[s] = w /\ pc[s] # "idle"
  /\ failures' = failures + 1
  /\ pc'  = [s \in Slots |-> IF Home[s] = w THEN "idle" ELSE pc[s]]
  /\ job' = [s \in Slots |-> IF Home[s] = w THEN Nobody ELSE job[s]]
  /\ UNCHANGED <<db, certfile, bundle>>

Arrive(r) == \E c \in Callsigns : Accept(r, c) \/ GetPfx(r, c) \/ Download(r, c) \/ Delete(r, c)

Advance(s) == \/ CreateInsert(s) \/ Answer(s) \/ CreateSigned(s) \/ CreateEnd(s)
              \/ Start(s) \/ Convert(s) \/ Open(s) \/ Fill(s) \/ Done(s) \/ Serve(s)

Next == \/ \E r \in Requests : Arrive(r) \/ CallFails(r)
        \/ \E s \in Slots : Advance(s)
        \/ \E w \in Workers : Crash(w)

Spec == Init /\ [][Next]_vars

(* As in Enrollment; the executor has threads enough.                      *)
FairSpec == Spec /\ \A s \in Slots : SF_vars(Advance(s))

-------------------------------------------------------------------------------
TypeOK ==
  /\ users \subseteq Callsigns /\ deleted \subseteq users /\ certfile \subseteq users
  /\ bundle \in [Callsigns -> {"none", "half", "whole"}]
  /\ pc \in [Slots -> Places]
  /\ job \in [Slots -> Callsigns \cup {Nobody}]
  /\ \A s \in Slots : pc[s] # "idle" => job[s] \in Callsigns
  /\ failures \in 0..MaxFailures

Writing(s, c) == job[s] = c /\ pc[s] \in Threads

(* "Make sure the pfx exists": what is sent, or copied, is there, and the  *)
(* certificate with it, whoever wrote it and whatever happened to the      *)
(* person or the worker since (people.py:156-169, enduserpfx 46, 103).     *)
ServedIsThere ==
  \A s \in Slots : pc[s] = "serve" => bundle[job[s]] # "none" /\ job[s] \in certfile

(* Half a bundle is one that somebody is filling, unless a process has     *)
(* died over it; it is never what a failed conversion leaves.              *)
HalfIsBeingFilled ==
  \A c \in Callsigns :
    bundle[c] = "half" => failures > 0 \/ \E s \in Slots : job[s] = c /\ pc[s] = "pfx_fill"

(* Action property: once a bundle is whole and the last thread that had    *)
(* not seen it is through, no task, download or command writes it again.   *)
Settled(c) == bundle[c] = "whole" /\ \A s \in Slots : ~Writing(s, c)

SettledStays == [][\A c \in Callsigns : Settled(c) => Settled(c)']_vars

(* Liveness, when nothing fails: who has a certificate gets a bundle, also *)
(* without ever asking for it.                                             *)
CertifiedGetsBundle ==
  \A c \in Callsigns : c \in certfile ~> bundle[c] = "whole" \/ failures > 0

(* Its safety half: as long as there is no whole bundle, somebody is still *)
(* on the way to writing one.                                              *)
Providing(s, c) ==
  job[s] = c /\ pc[s] \in Threads \cup {"pfx_start", "cre_kc", "cre_kcdone"}

CertifiedIsProvided ==
  failures = 0 =>
    \A c \in certfile : bundle[c] = "whole" \/ \E s \in Slots : Providing(s, c)

-------------------------------------------------------------------------------
(* Who opens the file has a certificate to write, and once a thread has    *)
(* opened it there is a file.                                              *)
WriterInv ==
  /\ \A s \in Slots :
       /\ pc[s] \in {"pfx_open", "pfx_fill", "pfx_done", "serve"} => job[s] \in certfile
       /\ pc[s] \in {"pfx_fill", "pfx_done", "serve"} => bundle[job[s]] # "none"
       /\ pc[s] \in {"cre_sign", "cre_signed"} => job[s] \in users
  /\ \A c \in Callsigns : bundle[c] # "none" => c \in certfile

IInv == TypeOK /\ ServedIsThere /\ HalfIsBeingFilled /\ WriterInv
===============================================================================
