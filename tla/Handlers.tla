-------------------------------- MODULE Handlers --------------------------------
(***************************************************************************)
(* What the models of handlers share: slots of concurrently running        *)
(* handlers, the worker processes they run on, and the places they are at. *)
(* Where a handler gives up its worker's event loop, and what it remembers *)
(* meanwhile, is for each model to say.                                    *)
(***************************************************************************)
EXTENDS Naturals, FiniteSets

CONSTANTS
  Requests,     (* slots for concurrently running handlers                 *)
  Workers,      (* gunicorn worker processes                               *)
  Deployments,  (* ways the workers may share the slots: functions from    *)
                (* Requests to Workers                                     *)
  MaxFailures   (* bound: failed external calls and worker crashes         *)

ASSUME HandlersAssumption ==
  /\ Deployments \subseteq [Requests -> Workers]
  /\ Requests # {}
  /\ IsFiniteSet(Workers)
  /\ MaxFailures \in Nat

VARIABLES
  pc,           (* where each request is                                   *)
  job,          (* the local variables of each request                     *)
  home,         (* the worker each slot belongs to                         *)
  failures      (* failures so far                                         *)

-------------------------------------------------------------------------------
(* Cooperative scheduling: a worker runs one handler until it gives up the *)
(* event loop, which it does at the places in waiting.                     *)
LoopIsFree(r, waiting) ==
  \A q \in Requests \ {r} : home[q] = home[r] => pc[q] \in waiting \cup {"idle"}

Goto(r, label) == pc' = [pc EXCEPT ![r] = label]

(* The handler returns or raises, remembering nothing.                     *)
Leave(r, nothing) ==
  /\ Goto(r, "idle")
  /\ job' = [job EXCEPT ![r] = nothing]

(* No request is there at first.                                           *)
NoRequests(nothing) ==
  /\ pc = [r \in Requests |-> "idle"]
  /\ job = [r \in Requests |-> nothing]
  /\ home \in Deployments
  /\ failures = 0

(* A worker dies; all its requests are gone.                               *)
Dies(w, nothing) ==
  /\ failures < MaxFailures
  /\ \E r \in Requests : home[r] = w /\ pc[r] # "idle"
  /\ failures' = failures + 1
  /\ pc'  = [r \in Requests |-> IF home[r] = w THEN "idle" ELSE pc[r]]
  /\ job' = [r \in Requests |-> IF home[r] = w THEN nothing ELSE job[r]]
  /\ UNCHANGED home

(* The workers that serve requests.                                        *)
Serving == {home[r] : r \in Requests}
===============================================================================
