------------------------------ MODULE JobQueue ------------------------------
(***************************************************************************)
(* What the outbox promises to the code that enqueues: a job is handed out *)
(* at most Budget times, to one holder at a time; a holder settles it as   *)
(* done or dead, or gives it back while handing it out again is still      *)
(* allowed; a settled job stays settled.  A job whose record cannot be     *)
(* handled is parked, and may be reopened.  Several jobs may move at once. *)
(***************************************************************************)
EXTENDS Naturals

CONSTANTS
  Job,
  Budget,       \* how often a job may be handed out
  FirstTakes    \* how often it was handed out before

VARIABLES
  phase,        \* where each job stands
  takes         \* how often it has been handed out

jobVars == <<phase, takes>>

Init ==
  /\ phase = [j \in Job |-> "open"]
  /\ takes = FirstTakes

Spent(j) == takes[j] >= Budget[j]

Taken(j) == phase[j] = "open" /\ ~Spent(j) /\ phase'[j] = "held"

GivenBack(j) == phase[j] = "held" /\ ~Spent(j) /\ phase'[j] = "open"

Finished(j) == phase[j] = "held" /\ phase'[j] \in {"done", "dead"}

Superseded(j) == phase[j] = "open" /\ phase'[j] = "done"

Buried(j) == phase[j] = "open" /\ Spent(j) /\ phase'[j] = "dead"

Parked(j) == phase[j] = "open" /\ phase'[j] = "parked"

Reopened(j) == phase[j] = "parked" /\ ~Spent(j) /\ phase'[j] = "open"

Moves(j) ==
  \/ Taken(j) /\ takes'[j] = takes[j] + 1
  \/ /\ \/ GivenBack(j) \/ Finished(j) \/ Superseded(j)
        \/ Buried(j) \/ Parked(j) \/ Reopened(j)
     /\ takes'[j] = takes[j]

Stays(j) == phase'[j] = phase[j] /\ takes'[j] = takes[j]

Next == \A j \in Job : Moves(j) \/ Stays(j)

Spec == Init /\ [][Next]_jobVars
=============================================================================
