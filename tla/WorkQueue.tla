------------------------------- MODULE WorkQueue -------------------------------
(***************************************************************************)
(* What the job queue promises, without clocks, leases or crashes: a job   *)
(* is handed to one holder at a time, only its present holder may say what *)
(* became of it, a finished job is finished, and only a person reopens one *)
(* that was given up on.  JobQueue is shown to implement this.             *)
(***************************************************************************)
EXTENDS Naturals

CONSTANTS
  Job,      \* the jobs there can be
  Worker,   \* who may hold one
  NoOne,    \* the holder of a job nobody holds
  NoJob     \* what an idle worker is doing

VARIABLES
  phase,    \* [Job -> Phase]
  holder,   \* [Job -> Worker \cup {NoOne}]: who the queue says has it
  doing     \* [Worker -> Job \cup {NoJob}]: what each worker is running

abstractVars == <<phase, holder, doing>>

Phase == {"absent", "open", "done", "abandoned"}

AbstractInit ==
  /\ phase  = [j \in Job |-> "absent"]
  /\ holder = [j \in Job |-> NoOne]
  /\ doing  = [w \in Worker |-> NoJob]

Submit(j) ==
  /\ phase[j] = "absent"
  /\ phase' = [phase EXCEPT ![j] = "open"]
  /\ UNCHANGED <<holder, doing>>

\* An idle worker takes an open job, from its present holder if it has one.
Take(w, j) ==
  /\ phase[j] = "open"
  /\ doing[w] = NoJob
  /\ holder' = [holder EXCEPT ![j] = w]
  /\ doing'  = [doing EXCEPT ![w] = j]
  /\ UNCHANGED phase

\* The holder, and nobody else, says what became of the job it is running.
Settle(w, j) ==
  /\ doing[w] = j
  /\ holder[j] = w
  /\ phase[j] = "open"
  /\ phase'  \in {[phase EXCEPT ![j] = p] : p \in {"open", "done", "abandoned"}}
  /\ holder' = [holder EXCEPT ![j] = NoOne]
  /\ doing'  = [doing EXCEPT ![w] = NoJob]

\* A worker stops with nothing recorded: it died, or it had been overtaken.
Drop(w) ==
  /\ doing[w] # NoJob
  /\ doing' = [doing EXCEPT ![w] = NoJob]
  /\ UNCHANGED <<phase, holder>>

Reopen(j) ==
  /\ phase[j] = "abandoned"
  /\ phase' = [phase EXCEPT ![j] = "open"]
  /\ UNCHANGED <<holder, doing>>

AbstractNext ==
  \/ \E j \in Job : Submit(j) \/ Reopen(j)
  \/ \E w \in Worker : Drop(w)
  \/ \E w \in Worker, j \in Job : Take(w, j) \/ Settle(w, j)

AbstractSpec == AbstractInit /\ [][AbstractNext]_abstractVars
================================================================================
