-------------------------------- MODULE Server ---------------------------------
(***************************************************************************)
(* One cmsd process: Server.Serve (internal/server/server.go) with its     *)
(* requests and its background workers, and the database it opens first    *)
(* and closes last (cmd/cmsd/main.go, internal/store/store.go).            *)
(*                                                                         *)
(* There is one way out: a signal, the timer or a request to shut down     *)
(* lead to the same drain, which its budget may cut short. The database is *)
(* closed by a deferred call whatever has become of requests and workers.  *)
(***************************************************************************)
EXTENDS Naturals, FiniteSets

CONSTANTS
  Requests,  \* requests that may come in
  Workers,   \* what runs in the background: the job workers and the dispatcher
  Timed      \* whether --timeout was given

ASSUME ServerAssumption == Timed \in BOOLEAN /\ Requests \cap Workers = {}

VARIABLES
  phase,      \* where the process is
  way,        \* why it is on its way out: the first reason, "failed" if the listener did
  asked,      \* the reason waiting in the shutdown channel, or "none"
  signalled,  \* the context of the command is done
  spent,      \* the drain's budget has run out
  told,       \* the workers' context is cancelled
  client,     \* what each request and worker is doing
  readers,    \* the pool of readers: open, closing or closed
  log         \* the write-ahead log holds pages

serverVars == <<phase, way, asked, signalled, spent, told, client, readers, log>>

Clients == Requests \cup Workers
Inside == {"busy", "reading", "writing"}
Busy(group) == {c \in group : client[c] \in Inside}
Up == phase \in {"serving", "draining", "stopping", "closing"}

ServerInit ==
  /\ phase = "down" /\ way = "none" /\ asked = "none"
  /\ signalled = FALSE /\ spent = FALSE /\ told = FALSE
  /\ client = [c \in Clients |-> "out"]
  /\ readers = "closed" /\ log = FALSE

\* The process has its database, has bound its port and started its workers.
Serve ==
  /\ phase = "down"
  /\ phase' = "serving" /\ readers' = "open"
  /\ UNCHANGED <<way, asked, signalled, spent, told, client, log>>

--------------------------------------------------------------------------------
(* Requests and workers                                                       *)

\* A listener that is shut down or has failed accepts nothing.
Arrive(r) ==
  /\ phase = "serving" /\ client[r] = "out"
  /\ client' = [client EXCEPT ![r] = "busy"]
  /\ UNCHANGED <<phase, way, asked, signalled, spent, told, readers, log>>

Answer(r) ==
  /\ Up /\ client[r] = "busy"
  /\ client' = [client EXCEPT ![r] = "gone"]
  /\ UNCHANGED <<phase, way, asked, signalled, spent, told, readers, log>>

\* Pool.loop: a worker looks at its context before it claims a job.
Claim(w) ==
  /\ Up /\ client[w] = "out" /\ ~told
  /\ client' = [client EXCEPT ![w] = "busy"]
  /\ UNCHANGED <<phase, way, asked, signalled, spent, told, readers, log>>

\* The job is done or failed or, if the worker has been told, handed back.
Report(w) ==
  /\ Up /\ client[w] = "busy"
  /\ client' = [client EXCEPT ![w] = "out"]
  /\ UNCHANGED <<phase, way, asked, signalled, spent, told, readers, log>>

StopWorking(w) ==
  /\ Up /\ client[w] = "out" /\ told
  /\ client' = [client EXCEPT ![w] = "gone"]
  /\ UNCHANGED <<phase, way, asked, signalled, spent, told, readers, log>>

\* DB.Read: a pool that is being closed hands out no connection.
Read(c) ==
  /\ Up /\ client[c] = "busy"
  /\ client' = [client EXCEPT ![c] = IF readers = "open" THEN "reading" ELSE "broken"]
  /\ UNCHANGED <<phase, way, asked, signalled, spent, told, readers, log>>

\* DB.Write: one writer at a time, in the order of a mutex.
Write(c) ==
  /\ Up /\ client[c] = "busy" /\ \A d \in Clients : client[d] # "writing"
  /\ client' = [client EXCEPT ![c] = "writing"]
  /\ UNCHANGED <<phase, way, asked, signalled, spent, told, readers, log>>

\* A statement ends; one that committed something has put it into the log.
Return(c) ==
  /\ Up /\ client[c] \in {"reading", "writing"}
  /\ client' = [client EXCEPT ![c] = "busy"]
  /\ log' \in IF client[c] = "writing" THEN {log, TRUE} ELSE {log}
  /\ UNCHANGED <<phase, way, asked, signalled, spent, told, readers>>

--------------------------------------------------------------------------------
(* The way out                                                                *)

\* Signals and requests to shut down that come later change nothing.
Signal ==
  /\ phase = "serving" /\ ~signalled
  /\ signalled' = TRUE
  /\ UNCHANGED <<phase, way, asked, spent, told, client, readers, log>>

\* The channel holds one reason, and nobody waits to put a second one in.
RequestShutdown(reason) ==
  /\ phase = "serving" /\ asked = "none"
  /\ CASE reason = "timeout" -> Timed
       [] reason = "request" -> \E r \in Requests : client[r] = "busy"
  /\ asked' = reason
  /\ UNCHANGED <<phase, way, signalled, spent, told, client, readers, log>>

\* The deferred calls cancel the workers' context; nobody waits for them.
ListenerFails ==
  /\ phase = "serving"
  /\ phase' = "closing" /\ way' = "failed" /\ told' = TRUE
  /\ UNCHANGED <<asked, signalled, spent, client, readers, log>>

BeginDrain ==
  /\ phase = "serving"
  /\ \/ signalled /\ way' = "signal" /\ UNCHANGED asked
     \/ asked # "none" /\ way' = asked /\ asked' = "none"
  /\ phase' = "draining"
  /\ UNCHANGED <<signalled, spent, told, client, readers, log>>

DrainOver ==
  /\ phase \in {"draining", "stopping"} /\ ~spent
  /\ spent' = TRUE
  /\ UNCHANGED <<phase, way, asked, signalled, told, client, readers, log>>

\* http.Server.Shutdown has returned: the requests are answered, or no time is left.
drained == Busy(Requests) = {} \/ spent

StopWorkers ==
  /\ phase = "draining" /\ drained
  /\ phase' = "stopping" /\ told' = TRUE
  /\ UNCHANGED <<way, asked, signalled, spent, client, readers, log>>

\* Slips: the workers are told and not waited for, or waited for without end.
workersTold == TRUE
workersAll == \A w \in Workers : client[w] = "gone"
\* Backgrounds.Run returns when every member has.
workersDone == (\A w \in Workers : client[w] \in {"gone", "broken"}) \/ spent

LeaveServe ==
  /\ phase = "stopping" /\ workersDone
  /\ phase' = "closing"
  /\ UNCHANGED <<way, asked, signalled, spent, told, client, readers, log>>

\* DB.Close interrupts the readers and waits until their connections are back.
CloseReaders ==
  /\ phase = "closing" /\ readers = "open"
  /\ readers' = "closing"
  /\ UNCHANGED <<phase, way, asked, signalled, spent, told, client, log>>

readersBack == \A c \in Clients : client[c] # "reading"

ReadersClosed ==
  /\ phase = "closing" /\ readers = "closing" /\ readersBack
  /\ readers' = "closed"
  /\ UNCHANGED <<phase, way, asked, signalled, spent, told, client, log>>

\* Then, in the writer's turn, the log is moved into the file, unless a
\* connection of this process or another is reading from it. The process ends.
CloseWriter(busy) ==
  /\ phase = "closing" /\ readers = "closed" /\ \A c \in Clients : client[c] # "writing"
  /\ phase' = "ended"
  /\ log' = (log /\ (busy \/ \E c \in Clients : client[c] = "reading"))
  /\ UNCHANGED <<way, asked, signalled, spent, told, client, readers>>

Exit == CloseReaders \/ ReadersClosed \/ BeginDrain \/ StopWorkers \/ LeaveServe

ServerNext ==
  \/ \E r \in Requests : Arrive(r) \/ Answer(r)
  \/ \E w \in Workers : Claim(w) \/ Report(w) \/ StopWorking(w)
  \/ \E c \in Clients : Read(c) \/ Write(c) \/ Return(c)
  \/ Signal \/ ListenerFails \/ DrainOver \/ Exit
  \/ \E reason \in {"timeout", "request"} : RequestShutdown(reason)

--------------------------------------------------------------------------------
(* Properties                                                                 *)

\* Every variable keeps its type, and nobody writes beside another.
ServerTypeOK ==
  /\ phase \in {"down", "serving", "draining", "stopping", "closing", "ended"}
  /\ way \in {"none", "signal", "timeout", "request", "failed"}
  /\ asked \in {"none", "timeout", "request"}
  /\ {signalled, spent, told, log} \subseteq BOOLEAN
  /\ client \in [Clients -> Inside \cup {"out", "gone", "broken"}]
  /\ \A c, d \in Clients : client[c] = "writing" /\ client[d] = "writing" => c = d
  /\ readers \in {"open", "closing", "closed"}

\* Whoever the budget did not cut off was waited for. Workers are told to stop
\* when no request can enqueue work any more, and unless the drain ran out of
\* time or the listener failed, every request was answered and every worker has
\* finished its job or handed it back before the database is closed
\* (server.go:396-412, the deferred Close of main.go).
NobodyIsCutOff ==
  ~spent /\ way # "failed" =>
    /\ told => Busy(Requests) = {}
    /\ phase \in {"closing", "ended"} => \A c \in Clients : client[c] \in {"out", "gone"} /\ (c \in Workers => client[c] = "gone")
================================================================================
