---------------------------- MODULE WorkerProcesses ----------------------------
(* The worker processes of gunicorn, each at a step of its lifespan. *)
EXTENDS Naturals, FiniteSets

CONSTANTS Workers,
          MaxStarts     \* bound on the processes started

ASSUME WorkersAssumption == MaxStarts \in Nat /\ IsFiniteSet(Workers)

VARIABLES
  stage,     \* stage[w]: the next step of w's lifespan
  starts     \* processes started so far

processes == <<stage, starts>>

ProcessInit == stage = [w \in Workers |-> "down"] /\ starts = 0

Goto(w, s) == stage' = [stage EXCEPT ![w] = s] /\ UNCHANGED starts

(* gunicorn starts a worker, or one in place of a worker that is gone. *)
StartProcess(w) ==
  /\ stage[w] = "down" /\ starts < MaxStarts
  /\ stage' = [stage EXCEPT ![w] = "open"]
  /\ starts' = starts + 1
===============================================================================
