----------------------------- MODULE BundlesProofs -----------------------------
(***************************************************************************)
(* Proofs about Bundles for any number of callsigns, processes, handlers,  *)
(* tasks and failures.                                                     *)
(***************************************************************************)
EXTENDS Bundles, TLAPS

USE ConstantsAssumption DEF ConstantsAssumption

(* The places in full, and where a look at the file leads.                 *)
LEMMA PlaceFacts ==
  /\ Places = {"idle", "cre_insert", "pfx_convert", "pfx_open", "pfx_fill", "pfx_start",
               "pfx_done", "serve", "cre_sign", "cre_signed", "cre_kc", "cre_kcdone"}
  /\ \A c : Looked(c) \in {"pfx_convert", "serve"}
  /\ \A c : Looked(c) = "serve" => bundle[c] # "none"
  BY DEF Places, AwaitPoints, Threads, Looked

(* Requests and tasks are slots, and no request is a task.                 *)
LEMMA SlotFacts == Requests \subseteq Slots /\ Tasks \subseteq Slots
                   /\ \A r \in Requests, t \in Tasks : r # t
  BY DEF Slots

-------------------------------------------------------------------------------
(* Steps that take one slot to another place and leave the bundles alone   *)
(* preserve the invariant if the place is reached with what it takes.      *)
LEMMA OneMoves ==
  ASSUME IInv, NEW s \in Slots, NEW l \in Places, NEW c \in Callsigns,
         pc' = [pc EXCEPT ![s] = l],
         job' = [job EXCEPT ![s] = c],
         UNCHANGED <<bundle, failures>>,
         users \subseteq users', users' \subseteq Callsigns, deleted' = deleted,
         certfile \subseteq certfile', certfile' \subseteq users',
         pc[s] # "pfx_fill", l # "pfx_fill",
         l \in {"pfx_open", "pfx_done", "serve"} => c \in certfile',
         l \in {"pfx_done", "serve"} => bundle[c] # "none",
         l \in {"cre_sign", "cre_signed"} => c \in users'
  PROVE  IInv'
  <1> USE DEF IInv, TypeOK
  <1>1. TypeOK'
    OBVIOUS
  <1>2. ServedIsThere'
    BY DEF ServedIsThere
  <1>3. HalfIsBeingFilled'
    <2>1. \A d \in Callsigns, q \in Slots :
            job[q] = d /\ pc[q] = "pfx_fill" => job'[q] = d /\ pc'[q] = "pfx_fill"
      OBVIOUS
    <2> QED
      BY <2>1 DEF HalfIsBeingFilled
  <1>4. WriterInv'
    BY DEF WriterInv
  <1> QED
    BY <1>1, <1>2, <1>3, <1>4

(* So do steps that end what a slot was doing, unless it was filling.      *)
LEMMA OneEnds ==
  ASSUME IInv, NEW s \in Slots, Finish(s), pc[s] # "pfx_fill",
         UNCHANGED <<users, certfile, bundle>>,
         deleted \subseteq deleted', deleted' \subseteq users,
         failures' \in failures..MaxFailures
  PROVE  IInv'
  <1> USE DEF IInv, TypeOK, Finish, Goto
  <1>1. TypeOK'
    BY PlaceFacts
  <1>2. ServedIsThere'
    BY DEF ServedIsThere
  <1>3. HalfIsBeingFilled'
    <2>1. \A d \in Callsigns, q \in Slots :
            job[q] = d /\ pc[q] = "pfx_fill" => job'[q] = d /\ pc'[q] = "pfx_fill"
      OBVIOUS
    <2>2. failures > 0 => failures' > 0
      OBVIOUS
    <2> QED
      BY <2>1, <2>2 DEF HalfIsBeingFilled
  <1>4. WriterInv'
    BY DEF WriterInv
  <1> QED
    BY <1>1, <1>2, <1>3, <1>4

(* The invariant holds initially.                                          *)
LEMMA InitInv == Init => IInv
  <1> SUFFICES ASSUME Init PROVE IInv
    OBVIOUS
  <1>1. TypeOK
    BY PlaceFacts DEF Init, TypeOK
  <1>2. ServedIsThere /\ HalfIsBeingFilled /\ WriterInv
    BY DEF Init, ServedIsThere, HalfIsBeingFilled, WriterInv
  <1> QED
    BY <1>1, <1>2 DEF IInv

(* A client's or an operator's call preserves it.                          *)
LEMMA ArriveInv == ASSUME IInv, NEW r \in Requests, Arrive(r) PROVE IInv'
  <1>1. PICK c \in Callsigns : Accept(r, c) \/ GetPfx(r, c) \/ Download(r, c) \/ Delete(r, c)
    BY DEF Arrive
  <1>2. ASSUME NEW l \in {"cre_insert", Looked(c)}, Begin(r, l, c),
               UNCHANGED <<db, certfile, bundle, failures>>
        PROVE  IInv'
    <2>1. l \in Places /\ l \notin {"pfx_open", "pfx_fill", "pfx_done", "cre_sign", "cre_signed"}
      BY PlaceFacts
    <2>2. l = "serve" => c \in certfile /\ bundle[c] # "none"
      BY PlaceFacts DEF IInv, WriterInv
    <2>3. users \subseteq Callsigns /\ certfile \subseteq users
      BY DEF IInv, TypeOK
    <2> QED
      BY <1>2, <2>1, <2>2, <2>3, OneMoves, SlotFacts DEF Begin, At, Goto, db
  <1>3. CASE Accept(r, c)
    BY <1>2, <1>3 DEF Accept
  <1>4. CASE GetPfx(r, c)
    BY <1>2, <1>4 DEF GetPfx
  <1>5. CASE Download(r, c)
    BY <1>2, <1>5 DEF Download
  <1>6. CASE Delete(r, c)
    BY <1>6 DEF Delete, Live, IInv, TypeOK, ServedIsThere, HalfIsBeingFilled, WriterInv
  <1> QED
    BY <1>1, <1>3, <1>4, <1>5, <1>6

(* Creating a person preserves it.                                         *)
LEMMA CreateInv ==
  ASSUME IInv, NEW s \in Slots,
         CreateInsert(s) \/ Answer(s) \/ CreateSigned(s)
  PROVE  IInv'
  <1>0. /\ users \subseteq Callsigns /\ certfile \subseteq users /\ deleted \subseteq users
        /\ pc[s] # "idle" => job[s] \in Callsigns
        /\ job = [job EXCEPT ![s] = job[s]]
        /\ failures \in failures..MaxFailures
    BY DEF IInv, TypeOK
  <1>1. CASE CreateInsert(s)
    <2>1. CASE job[s] \notin users
      BY <1>0, <1>1, <2>1, PlaceFacts, OneMoves DEF CreateInsert, At, Goto
    <2>2. CASE job[s] \in users
      <3>1. users' = users
        BY <1>1, <2>2 DEF CreateInsert
      <3> QED
        BY <1>0, <1>1, <2>2, <3>1, OneEnds DEF CreateInsert, At
    <2> QED
      BY <2>1, <2>2
  <1>2. CASE Answer(s)
    BY <1>0, <1>2, PlaceFacts, OneMoves DEF Answer, Goto, db, IInv, WriterInv
  <1>3. CASE CreateSigned(s)
    <2>1. job[s] \in users /\ pc[s] = "cre_signed" /\ certfile' = certfile \cup {job[s]}
      BY <1>3 DEF CreateSigned, At, IInv, WriterInv
    <2>2. certfile \subseteq certfile' /\ certfile' \subseteq users
      BY <1>0, <2>1
    <2>3. /\ pc' = [pc EXCEPT ![s] = "cre_kc"] /\ job' = job
          /\ UNCHANGED <<users, deleted, bundle, failures>>
      BY <1>3 DEF CreateSigned, Goto, db
    <2> QED
      BY <1>0, <2>1, <2>2, <2>3, PlaceFacts, OneMoves
  <1> QED
    BY <1>1, <1>2, <1>3

(* The end of a creation preserves it: two slots move at once.             *)
LEMMA CreateEndInv == ASSUME IInv, NEW s \in Slots, CreateEnd(s) PROVE IInv'
  <1>1. PICK t \in Tasks :
          /\ pc[t] = "idle"
          /\ \E l \in {"idle", Looked(job[s])}, j \in {Nobody, job[s]} :
               /\ l = "idle" <=> j = Nobody
               /\ pc'  = [pc EXCEPT ![t] = "pfx_start", ![s] = l]
               /\ job' = [job EXCEPT ![t] = job[s], ![s] = j]
    <2>1. job[s] \in Callsigns /\ job = [job EXCEPT ![s] = job[s]] /\ job[s] # Nobody
      BY DEF CreateEnd, At, IInv, TypeOK
    <2>2. PICK t \in Tasks :
            /\ pc[t] = "idle"
            /\ \/ /\ pc'  = [pc EXCEPT ![t] = "pfx_start", ![s] = "idle"]
                  /\ job' = [job EXCEPT ![t] = job[s], ![s] = Nobody]
               \/ /\ pc'  = [pc EXCEPT ![t] = "pfx_start", ![s] = Looked(job[s])]
                  /\ job' = [job EXCEPT ![t] = job[s]]
      BY DEF CreateEnd
    <2>3. pc[s] = "cre_kcdone" /\ s # t
      BY <2>2 DEF CreateEnd, At
    <2>4. [job EXCEPT ![t] = job[s]] = [job EXCEPT ![t] = job[s], ![s] = job[s]]
      BY <2>3, SlotFacts DEF IInv, TypeOK
    <2>5. Looked(job[s]) # "idle"
      BY PlaceFacts
    <2> QED
      BY <2>1, <2>2, <2>4, <2>5
  <1>2. PICK l \in {"idle", Looked(job[s])}, j \in {Nobody, job[s]} :
          /\ l = "idle" <=> j = Nobody
          /\ pc'  = [pc EXCEPT ![t] = "pfx_start", ![s] = l]
          /\ job' = [job EXCEPT ![t] = job[s], ![s] = j]
    BY <1>1
  <1>3. /\ pc[s] = "cre_kcdone" /\ job[s] \in Callsigns /\ s # t
        /\ UNCHANGED <<users, deleted, certfile, bundle, failures>>
    BY <1>1 DEF CreateEnd, At, db, IInv, TypeOK
  <1>4. l \in {"idle", "pfx_convert", "serve"} /\ (l = "serve" => bundle[job[s]] # "none")
    BY PlaceFacts
  <1>5. \A q \in Slots \ {s, t} : pc'[q] = pc[q] /\ job'[q] = job[q]
    BY <1>2 DEF IInv, TypeOK
  <1>6. pc'[s] = l /\ job'[s] = j /\ pc'[t] = "pfx_start" /\ job'[t] = job[s]
    BY <1>2, <1>3, SlotFacts DEF IInv, TypeOK
  <1>7. TypeOK'
    <2>1. pc' \in [Slots -> Places] /\ job' \in [Slots -> Callsigns \cup {Nobody}]
      BY <1>2, <1>3, <1>4, PlaceFacts, SlotFacts DEF IInv, TypeOK
    <2>2. \A q \in Slots : pc'[q] # "idle" => job'[q] \in Callsigns
      BY <1>2, <1>3, <1>5, <1>6 DEF IInv, TypeOK
    <2> QED
      BY <1>3, <2>1, <2>2 DEF IInv, TypeOK
  <1>w. l = "serve" => j = job[s] /\ bundle[job[s]] # "none" /\ job[s] \in certfile
    BY <1>2, <1>3, <1>4 DEF IInv, WriterInv
  <1>8. ServedIsThere'
    <2> SUFFICES ASSUME NEW q \in Slots, pc'[q] = "serve"
                 PROVE  bundle[job'[q]] # "none" /\ job'[q] \in certfile
      BY <1>3 DEF ServedIsThere
    <2>1. CASE q \in {s, t}
      BY <1>6, <1>w, <2>1
    <2>2. CASE q \notin {s, t}
      BY <1>5, <2>2 DEF IInv, ServedIsThere
    <2> QED
      BY <2>1, <2>2
  <1>9. HalfIsBeingFilled'
    <2>1. \A d \in Callsigns, q \in Slots :
            job[q] = d /\ pc[q] = "pfx_fill" => job'[q] = d /\ pc'[q] = "pfx_fill"
      BY <1>1, <1>3, <1>5
    <2> QED
      BY <1>3, <2>1 DEF IInv, HalfIsBeingFilled
  <1>10. WriterInv'
    <2>1. \A d \in Callsigns : bundle[d] # "none" => d \in certfile
      BY DEF IInv, WriterInv
    <2> DEFINE Fit(place, d) ==
                 /\ place \in {"pfx_open", "pfx_fill", "pfx_done", "serve"} => d \in certfile
                 /\ place \in {"pfx_fill", "pfx_done", "serve"} => bundle[d] # "none"
                 /\ place \in {"cre_sign", "cre_signed"} => d \in users
    <2>2. \A q \in Slots \ {s, t} : Fit(pc'[q], job'[q])
      BY <1>5 DEF IInv, WriterInv
    <2>3. Fit(l, j) /\ Fit("pfx_start", job[s])
      BY <1>4, <1>w
    <2>4. \A q \in Slots : Fit(pc'[q], job'[q])
      BY <1>6, <2>2, <2>3
    <2> QED
      BY <1>3, <2>1, <2>4 DEF WriterInv
  <1> QED
    BY <1>7, <1>8, <1>9, <1>10 DEF IInv

(* Writing a bundle preserves it.                                          *)
LEMMA WriteInv ==
  ASSUME IInv, NEW s \in Slots,
         Start(s) \/ Convert(s) \/ Open(s) \/ Fill(s) \/ Done(s) \/ Serve(s)
  PROVE  IInv'
  <1>0. /\ users \subseteq Callsigns /\ certfile \subseteq users /\ deleted \subseteq users
        /\ pc[s] # "idle" => job[s] \in Callsigns
        /\ job = [job EXCEPT ![s] = job[s]]
        /\ failures \in failures..MaxFailures
    BY DEF IInv, TypeOK
  <1>1. CASE Start(s)
    <2>1. Looked(job[s]) = "serve" => job[s] \in certfile /\ bundle[job[s]] # "none"
      BY <1>0, <1>1, PlaceFacts DEF Start, At, IInv, WriterInv
    <2>2. Looked(job[s]) \in Places /\ Looked(job[s]) \in {"pfx_convert", "serve"}
      BY PlaceFacts
    <2> QED
      BY <1>0, <1>1, <2>1, <2>2, OneMoves DEF Start, At, Goto, db
  <1>2. CASE Convert(s)
    <2>1. CASE job[s] \in certfile
      BY <1>0, <1>2, <2>1, PlaceFacts, OneMoves DEF Convert, Goto, db
    <2>2. CASE job[s] \notin certfile
      BY <1>0, <1>2, <2>2, OneEnds DEF Convert, db
    <2> QED
      BY <2>1, <2>2
  <1>3. ASSUME NEW l \in {"pfx_fill", "pfx_done"}, NEW b \in {"half", "whole"},
               l = "pfx_fill" <=> b = "half",
               pc' = [pc EXCEPT ![s] = l], bundle' = [bundle EXCEPT ![job[s]] = b],
               job[s] \in certfile, pc[s] \in {"pfx_open", "pfx_fill"},
               UNCHANGED <<db, certfile, job, failures>>
        PROVE  IInv'
    <2> USE <1>3 DEF IInv, TypeOK, db
    <2>1. job[s] \in Callsigns
      BY <1>0
    <2>2. TypeOK'
      BY <1>0, PlaceFacts
    <2>3. ServedIsThere'
      BY <1>0 DEF ServedIsThere
    <2>4. HalfIsBeingFilled'
      <3> SUFFICES ASSUME NEW d \in Callsigns, bundle'[d] = "half", ~(failures > 0)
                   PROVE  \E q \in Slots : job[q] = d /\ pc'[q] = "pfx_fill"
        BY DEF HalfIsBeingFilled
      <3>1. CASE d = job[s]
        BY <2>1, <3>1
      <3>2. CASE d # job[s]
        <4>1. PICK q \in Slots : job[q] = d /\ pc[q] = "pfx_fill"
          BY <2>1, <3>2 DEF HalfIsBeingFilled
        <4> QED
          BY <3>2, <4>1
      <3> QED
        BY <3>1, <3>2
    <2>5. WriterInv'
      BY <1>0 DEF WriterInv
    <2> QED
      BY <2>2, <2>3, <2>4, <2>5
  <1>4. CASE Open(s)
    BY <1>3, <1>4 DEF Open, Goto, IInv, WriterInv
  <1>5. CASE Fill(s)
    BY <1>3, <1>5 DEF Fill, Goto, IInv, WriterInv
  <1>6. CASE Done(s)
    BY <1>0, <1>6, PlaceFacts, OneMoves DEF Done, At, Goto, db, IInv, WriterInv
  <1>7. CASE Serve(s)
    BY <1>0, <1>7, OneEnds DEF Serve, db
  <1> QED
    BY <1>1, <1>2, <1>4, <1>5, <1>6, <1>7

(* A failed call and the end of a process preserve it.                     *)
LEMMA FailInv ==
  ASSUME IInv, (\E r \in Requests : CallFails(r)) \/ (\E w \in Workers : Crash(w))
  PROVE  IInv'
  <1>1. ASSUME NEW r \in Requests, CallFails(r) PROVE IInv'
    <2>1. failures' \in failures..MaxFailures /\ UNCHANGED <<users, deleted, certfile, bundle>>
      BY <1>1 DEF CallFails, IInv, TypeOK, db
    <2>2. pc[r] # "pfx_fill" /\ Finish(r)
      BY <1>1 DEF CallFails
    <2>3. r \in Slots /\ deleted \subseteq users
      BY SlotFacts DEF IInv, TypeOK
    <2> QED
      BY <2>1, <2>2, <2>3, OneEnds
  <1>2. ASSUME NEW w \in Workers, Crash(w) PROVE IInv'
    <2> USE <1>2 DEF Crash, IInv, TypeOK, db
    <2>1. TypeOK'
      BY PlaceFacts
    <2>2. ServedIsThere'
      BY DEF ServedIsThere
    <2>3. HalfIsBeingFilled'
      BY DEF HalfIsBeingFilled
    <2>4. WriterInv'
      BY DEF WriterInv
    <2> QED
      BY <2>1, <2>2, <2>3, <2>4
  <1> QED
    BY <1>1, <1>2

(* The invariant is inductive.                                             *)
LEMMA NextInv == IInv /\ [Next]_vars => IInv'
  <1> SUFFICES ASSUME IInv, [Next]_vars PROVE IInv'
    OBVIOUS
  <1>1. CASE UNCHANGED vars
    BY <1>1 DEF vars, db, IInv, TypeOK, ServedIsThere, HalfIsBeingFilled, WriterInv
  <1>2. ASSUME NEW s \in Slots, Advance(s) PROVE IInv'
    BY <1>2, CreateInv, CreateEndInv, WriteInv DEF Advance
  <1> QED
    BY <1>1, <1>2, ArriveInv, FailInv DEF Next

(* The inductive invariant holds in every reachable state.                 *)
THEOREM Invariance == Spec => []IInv
  BY InitInv, NextInv, PTL DEF Spec

(* What is served is there (people.py:156-169).                            *)
THEOREM ServedCorrect == Spec => []ServedIsThere
  BY Invariance, PTL DEF IInv

(* Only the end of a process leaves half a bundle behind.                  *)
THEOREM HalfCorrect == Spec => []HalfIsBeingFilled
  BY Invariance, PTL DEF IInv

-------------------------------------------------------------------------------
(* Nobody who looks at a file that is there goes on to write it.           *)
LEMMA SettledNext ==
  ASSUME IInv, [Next]_vars, NEW c \in Callsigns, Settled(c)
  PROVE  Settled(c)'
  <1> USE DEF Settled, Writing, Threads
  <1>c. /\ bundle[c] = "whole" /\ Looked(c) = "serve"
        /\ \A s \in Slots : job[s] = c => pc[s] \notin {"pfx_convert", "pfx_open", "pfx_fill"}
    BY DEF Looked
  <1>0. CASE UNCHANGED vars
    BY <1>0 DEF vars
  <1>1. ASSUME NEW r \in Requests, Arrive(r) PROVE Settled(c)'
    <2>1. PICK d \in Callsigns : Accept(r, d) \/ GetPfx(r, d) \/ Download(r, d) \/ Delete(r, d)
      BY <1>1 DEF Arrive
    <2>2. bundle' = bundle
      BY <2>1 DEF Accept, GetPfx, Download, Delete
    <2>3. \A s \in Slots : job'[s] = c => pc'[s] \notin {"pfx_convert", "pfx_open", "pfx_fill"}
      BY <1>c, <2>1, SlotFacts
         DEF Accept, GetPfx, Download, Delete, Begin, Goto, IInv, TypeOK
    <2> QED
      BY <1>c, <2>2, <2>3
  <1>2. ASSUME NEW s \in Slots, CreateInsert(s) \/ Answer(s) \/ CreateSigned(s) \/ Done(s)
        PROVE  Settled(c)'
    BY <1>2, <1>c DEF CreateInsert, Answer, CreateSigned, Done, Finish, Goto, IInv, TypeOK
  <1>3. ASSUME NEW s \in Slots, CreateEnd(s) PROVE Settled(c)'
    <2>1. PICK t \in Tasks :
            \/ /\ pc'  = [pc EXCEPT ![t] = "pfx_start", ![s] = "idle"]
               /\ job' = [job EXCEPT ![t] = job[s], ![s] = Nobody]
            \/ /\ pc'  = [pc EXCEPT ![t] = "pfx_start", ![s] = Looked(job[s])]
               /\ job' = [job EXCEPT ![t] = job[s]]
      BY <1>3 DEF CreateEnd
    <2>2. bundle' = bundle
      BY <1>3 DEF CreateEnd
    <2>3. \A q \in Slots : job'[q] = c => pc'[q] \notin {"pfx_convert", "pfx_open", "pfx_fill"}
      BY <1>c, <2>1, SlotFacts DEF IInv, TypeOK
    <2> QED
      BY <1>c, <2>2, <2>3
  <1>4. ASSUME NEW s \in Slots, Start(s) PROVE Settled(c)'
    BY <1>4, <1>c DEF Start, Goto, IInv, TypeOK
  <1>5. ASSUME NEW s \in Slots, Convert(s) \/ Serve(s) PROVE Settled(c)'
    BY <1>5, <1>c DEF Convert, Serve, Finish, Goto, IInv, TypeOK
  <1>6. ASSUME NEW s \in Slots, Open(s) \/ Fill(s) PROVE Settled(c)'
    <2>1. job[s] # c
      BY <1>6, <1>c DEF Open, Fill
    <2> QED
      BY <1>6, <1>c, <2>1 DEF Open, Fill, Goto, IInv, TypeOK
  <1>7. ASSUME NEW r \in Requests, CallFails(r) PROVE Settled(c)'
    BY <1>7, <1>c, SlotFacts DEF CallFails, Finish, Goto, IInv, TypeOK
  <1>8. ASSUME NEW w \in Workers, Crash(w) PROVE Settled(c)'
    BY <1>8, <1>c DEF Crash, IInv, TypeOK
  <1> QED
    BY <1>0, <1>1, <1>2, <1>3, <1>4, <1>5, <1>6, <1>7, <1>8 DEF Next, Advance

(* A bundle that is whole and that nobody is about to write stays that way *)
(* (people.py:156-157).                                                    *)
THEOREM SettledCorrect == Spec => SettledStays
  <1>1. IInv /\ [Next]_vars => [\A c \in Callsigns : Settled(c) => Settled(c)']_vars
    BY SettledNext
  <1> QED
    BY <1>1, Invariance, PTL DEF Spec, SettledStays

-------------------------------------------------------------------------------
(* Who is certified is provided for: a slot on its way to write the bundle *)
(* stops being so when it has, when it leaves that to another one, or when *)
(* it fails.                                                               *)
LEMMA ProvidedFrame ==
  ASSUME IInv, CertifiedIsProvided, failures' = failures, UNCHANGED <<certfile, bundle>>,
         \A s \in Slots, c \in certfile :
           Providing(s, c) => \/ \E q \in Slots : Providing(q, c)'
                              \/ bundle[c] = "whole"
  PROVE  CertifiedIsProvided'
  BY DEF CertifiedIsProvided

(* Steps of other slots than those that provide.                           *)
LEMMA OthersProvide ==
  ASSUME IInv, CertifiedIsProvided, UNCHANGED <<certfile, bundle, failures>>,
         NEW s \in Slots, pc[s] \notin Threads \cup {"pfx_start", "cre_kc", "cre_kcdone"},
         \A q \in Slots \ {s} : pc'[q] = pc[q] /\ job'[q] = job[q]
  PROVE  CertifiedIsProvided'
  BY ProvidedFrame DEF Providing

LEMMA ProvidedNext == ASSUME IInv, CertifiedIsProvided, [Next]_vars PROVE CertifiedIsProvided'
  <1> USE DEF IInv, TypeOK
  <1>0. \A s \in Slots : pc[s] # "idle" => job[s] \in Callsigns
    OBVIOUS
  <1>1. CASE UNCHANGED vars
    BY <1>1, ProvidedFrame DEF vars, db, Providing
  <1>2. ASSUME NEW r \in Requests, Arrive(r) PROVE CertifiedIsProvided'
    <2>1. PICK c \in Callsigns : Accept(r, c) \/ GetPfx(r, c) \/ Download(r, c) \/ Delete(r, c)
      BY <1>2 DEF Arrive
    <2>2. UNCHANGED <<certfile, bundle, failures>> /\ pc[r] = "idle"
          /\ \A q \in Slots \ {r} : pc'[q] = pc[q] /\ job'[q] = job[q]
      BY <2>1 DEF Accept, GetPfx, Download, Delete, Begin, At, Goto
    <2> QED
      BY <2>2, SlotFacts, OthersProvide DEF Threads
  <1>3. ASSUME NEW s \in Slots, CreateInsert(s) \/ Done(s) \/ Serve(s) PROVE CertifiedIsProvided'
    <2>1. /\ UNCHANGED <<certfile, bundle, failures>> /\ pc[s] \in {"cre_insert", "pfx_done", "serve"}
          /\ \A q \in Slots \ {s} : pc'[q] = pc[q] /\ job'[q] = job[q]
      BY <1>3 DEF CreateInsert, Done, Serve, Finish, At, Goto, db
    <2> QED
      BY <2>1, OthersProvide DEF Threads
  <1>4. ASSUME NEW s \in Slots, Answer(s) PROVE CertifiedIsProvided'
    BY <1>4, ProvidedFrame DEF Answer, Goto, Providing, Threads
  <1>5. ASSUME NEW s \in Slots, CreateSigned(s) PROVE CertifiedIsProvided'
    <2>1. /\ certfile' = certfile \cup {job[s]} /\ UNCHANGED <<bundle, failures, job>>
          /\ pc[s] = "cre_signed" /\ pc'[s] = "cre_kc" /\ \A q \in Slots \ {s} : pc'[q] = pc[q]
      BY <1>5 DEF CreateSigned, At, Goto
    <2>2. \A q \in Slots, c \in Callsigns : Providing(q, c) => Providing(q, c)'
      BY <2>1 DEF Providing, Threads
    <2>3. Providing(s, job[s])'
      BY <2>1 DEF Providing
    <2> QED
      BY <2>1, <2>2, <2>3 DEF CertifiedIsProvided
  <1>6. ASSUME NEW s \in Slots, CreateEnd(s) PROVE CertifiedIsProvided'
    <2>1. PICK t \in Tasks :
            /\ pc[t] = "idle" /\ pc'[t] = "pfx_start" /\ job'[t] = job[s]
            /\ \A q \in Slots \ {s, t} : pc'[q] = pc[q] /\ job'[q] = job[q]
      <3>1. PICK t \in Tasks :
              /\ pc[t] = "idle"
              /\ \/ /\ pc'  = [pc EXCEPT ![t] = "pfx_start", ![s] = "idle"]
                    /\ job' = [job EXCEPT ![t] = job[s], ![s] = Nobody]
                 \/ /\ pc'  = [pc EXCEPT ![t] = "pfx_start", ![s] = Looked(job[s])]
                    /\ job' = [job EXCEPT ![t] = job[s]]
        BY <1>6 DEF CreateEnd
      <3>2. s # t
        BY <1>6, <3>1 DEF CreateEnd, At
      <3> QED
        BY <3>1, <3>2, SlotFacts
    <2>2. UNCHANGED <<certfile, bundle, failures>>
      BY <1>6 DEF CreateEnd
    <2>3. \A c \in certfile : Providing(s, c) => Providing(t, c)'
      BY <2>1 DEF Providing
    <2>4. \A q \in Slots \ {s}, c \in certfile : Providing(q, c) => Providing(q, c)'
      BY <2>1 DEF Providing, Threads
    <2> QED
      BY <2>1, <2>2, <2>3, <2>4, ProvidedFrame, SlotFacts
  <1>7. ASSUME NEW s \in Slots, Start(s) PROVE CertifiedIsProvided'
    <2> DEFINE c == job[s]
    <2>1. /\ UNCHANGED <<certfile, bundle, failures, job>> /\ pc[s] = "pfx_start"
          /\ pc'[s] = Looked(c) /\ \A q \in Slots \ {s} : pc'[q] = pc[q]
      BY <1>7 DEF Start, At, Goto
    <2>2. CASE bundle[c] = "none"
      BY <2>1, <2>2, ProvidedFrame DEF Looked, Providing, Threads
    <2>3. CASE bundle[c] # "none"
      <3>1. bundle[c] = "whole" \/ failures > 0 \/ \E q \in Slots : Providing(q, c) /\ q # s
        BY <1>0, <2>1, <2>3 DEF HalfIsBeingFilled, Providing, Threads
      <3>2. \A q \in Slots \ {s}, d \in certfile : Providing(q, d) => Providing(q, d)'
        BY <2>1 DEF Providing
      <3>3. CASE failures > 0
        BY <2>1, <3>3 DEF CertifiedIsProvided
      <3>4. CASE bundle[c] = "whole" \/ \E q \in Slots : Providing(q, c) /\ q # s
        <4>1. \A d \in certfile : Providing(s, d) => d = c
          BY DEF Providing
        <4> QED
          BY <2>1, <3>2, <3>4, <4>1, ProvidedFrame
      <3> QED
        BY <3>1, <3>3, <3>4
    <2> QED
      BY <2>2, <2>3
  <1>8. ASSUME NEW s \in Slots, Convert(s) PROVE CertifiedIsProvided'
    <2>1. UNCHANGED <<certfile, bundle, failures>> /\ pc[s] = "pfx_convert"
          /\ \A q \in Slots \ {s} : pc'[q] = pc[q] /\ job'[q] = job[q]
      BY <1>8 DEF Convert, Finish, Goto, db
    <2>2. job[s] \in certfile => pc'[s] = "pfx_open" /\ job' = job
      BY <1>8 DEF Convert, Goto
    <2> QED
      BY <2>1, <2>2, ProvidedFrame DEF Providing, Threads
  <1>9. ASSUME NEW s \in Slots, Open(s) \/ Fill(s) PROVE CertifiedIsProvided'
    <2>1. /\ UNCHANGED <<certfile, failures, job>> /\ job[s] \in Callsigns
          /\ \A q \in Slots \ {s} : pc'[q] = pc[q]
          /\ \A c \in Callsigns \ {job[s]} : bundle'[c] = bundle[c]
          /\ pc'[s] = "pfx_fill" \/ bundle'[job[s]] = "whole"
      BY <1>0, <1>9 DEF Open, Fill, Goto
    <2> SUFFICES ASSUME failures = 0, NEW c \in certfile
                 PROVE  bundle'[c] = "whole" \/ \E q \in Slots : Providing(q, c)'
      BY <2>1 DEF CertifiedIsProvided
    <2>2. CASE c = job[s]
      BY <2>1, <2>2 DEF Providing, Threads
    <2>3. CASE c # job[s]
      BY <2>1, <2>3 DEF CertifiedIsProvided, Providing
    <2> QED
      BY <2>2, <2>3
  <1>10. CASE (\E r \in Requests : CallFails(r)) \/ (\E w \in Workers : Crash(w))
    BY <1>10 DEF CallFails, Crash, CertifiedIsProvided
  <1> QED
    BY <1>1, <1>2, <1>3, <1>4, <1>5, <1>6, <1>7, <1>8, <1>9, <1>10 DEF Next, Advance

(* The safety half of CertifiedGetsBundle: until something fails, whoever  *)
(* has a certificate and no whole bundle yet has a handler, a task or a    *)
(* thread that is still to write one, whatever the others that looked at   *)
(* the file have made of it (Person._post_create, create_pfx).             *)
THEOREM NobodyIsLeftWithout == Spec => []CertifiedIsProvided
  <1>1. Init => CertifiedIsProvided
    BY DEF Init, CertifiedIsProvided
  <1>2. IInv /\ CertifiedIsProvided /\ [Next]_vars => CertifiedIsProvided'
    BY ProvidedNext
  <1> QED
    BY <1>1, <1>2, Invariance, PTL DEF Spec
===============================================================================
