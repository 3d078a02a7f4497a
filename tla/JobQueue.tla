-------------------------------- MODULE JobQueue --------------------------------
(***************************************************************************)
(* The job queue: rows of the "jobs" table (internal/store/jobs.go), the   *)
(* queue over them (internal/jobs/queue.go) and the workers of a pool      *)
(* (internal/jobs/pool.go).                                                *)
(*                                                                         *)
(* Every statement the store runs is one action, because the store has one *)
(* writer at a time.  What is not atomic is a worker: it reads the clock   *)
(* before it waits for the writer, it runs the handler with no transaction *)
(* open, its lease may run out meanwhile, its context may be cancelled and *)
(* its process may die between any two of its steps and come back under    *)
(* the same name.                                                          *)
(***************************************************************************)
EXTENDS Integers, Sequences

CONSTANTS
  Worker,         \* names in jobs.lease_owner, one per worker loop
  NoOne,          \* the NULL of lease_owner
  Lease,          \* how long a claim is good for
  BaseDelay,      \* RetryBaseDelay: the wait after a first failed attempt
  DelayCap,       \* RetryMaxDelay
  Priority,       \* the priorities a job may ask for, smallest first
  AttemptLimit,   \* the values of max_attempts
  Start,          \* how far ahead of now a job may be scheduled
  MaxJobs,        \* bound: rows ever enqueued
  MaxNow,         \* bound: the clock
  MaxOutages,     \* bound: contexts cancelled and processes killed
  MaxRetries      \* bound: RetryJob calls

ASSUME QueueAssumption ==
  /\ NoOne \notin Worker
  /\ Lease \in Nat \ {0}
  /\ BaseDelay \in Nat /\ DelayCap \in Nat
  /\ Priority \subseteq Nat
  /\ AttemptLimit \subseteq Nat \ {0}
  /\ Start \subseteq Nat
  /\ MaxJobs \in Nat /\ MaxNow \in Nat /\ MaxOutages \in Nat /\ MaxRetries \in Nat

VARIABLES
  now,        \* the clock every caller reads
  jobs,       \* the table: jobs[id] is a row
  lastEvent,  \* lastEvent[id]: type of the latest event about the job
  pc,         \* [Worker -> Step]: where each worker's loop is
  held,       \* [Worker -> Claimed]: the copy of the row its claim returned
  at,         \* [Worker -> Nat]: the clock reading its next statement uses, or 0
  cancelled,  \* [Worker -> BOOLEAN]: its context has ended
  outages, retries

rowVars    == <<jobs, lastEvent>>
workerVars == <<pc, held, at, cancelled>>
vars       == <<now, jobs, lastEvent, pc, held, at, cancelled, outages, retries>>

Never == -1                 \* the NULL of lease_expires_at
NoJob == 0                  \* no row has this id
JobId == 1..MaxJobs

Step == {"down", "idle", "claiming", "running", "completing", "failing", "releasing"}
Busy == {"running", "completing", "failing", "releasing"}

Row == [priority : Priority, scheduledFor : Int,
        leaseOwner : Worker \cup {NoOne}, leaseExpiresAt : Nat \cup {Never},
        attempts : Nat, maxAttempts : AttemptLimit,
        completed : BOOLEAN, failed : BOOLEAN]

Claimed == [job : Nat, attempts : Nat]

NothingClaimed == [job |-> NoJob, attempts |-> 0]

EventType == {"JobEnqueued", "JobCompleted", "JobFailed", "JobAbandoned", "JobRetried"}

TypeOK ==
  /\ now \in Nat
  /\ jobs \in Seq(Row)
  /\ lastEvent \in Seq(EventType)
  /\ Len(lastEvent) = Len(jobs)
  /\ pc \in [Worker -> Step]
  /\ held \in [Worker -> Claimed]
  /\ at \in [Worker -> Nat]
  /\ cancelled \in [Worker -> BOOLEAN]
  /\ outages \in Nat /\ retries \in Nat

Init ==
  /\ now = 0
  /\ jobs = <<>>
  /\ lastEvent = <<>>
  /\ pc = [w \in Worker |-> "idle"]
  /\ held = [w \in Worker |-> NothingClaimed]
  /\ at = [w \in Worker |-> 0]
  /\ cancelled = [w \in Worker |-> FALSE]
  /\ outages = 0
  /\ retries = 0

--------------------------------------------------------------------------------
(* Rows                                                                       *)

Finished(r) == r.completed \/ r.failed

\* Slips: a lease that stops nobody, and one that is never reclaimed.
ReadyThoughLeased(r, t) == ~Finished(r) /\ r.scheduledFor <= t
ReadyIfUnleased(r, t) ==
  ~Finished(r) /\ r.scheduledFor <= t /\ r.leaseExpiresAt = Never

\* The WHERE clause of claimSQL.  An expired lease is no lease.
Ready(r, t) ==
  /\ ~Finished(r)
  /\ r.scheduledFor <= t
  /\ r.leaseExpiresAt = Never \/ r.leaseExpiresAt < t

\* ORDER BY priority, scheduled_for, id.
Before(i, j) ==
  LET r == jobs[i] s == jobs[j] IN
  \/ r.priority < s.priority
  \/ r.priority = s.priority /\ r.scheduledFor < s.scheduledFor
  \/ r.priority = s.priority /\ r.scheduledFor = s.scheduledFor /\ i <= j

ReadyJobs(t) == {j \in DOMAIN jobs : Ready(jobs[j], t)}

IsFirstReady(j, t) == j \in ReadyJobs(t) /\ \A i \in ReadyJobs(t) : Before(j, i)

\* Attempts >= max_attempts, asked after an attempt has failed.
Exhausted(attempts, r) == attempts >= r.maxAttempts

\* The wait doubles with each attempt spent, up to the cap.
RetryDelay(attempt) ==
  LET doubled == BaseDelay * 2^(IF attempt < 1 THEN 0 ELSE attempt - 1) IN
  IF doubled >= DelayCap THEN DelayCap ELSE doubled

CompletedRow(r) ==
  [r EXCEPT !.completed = TRUE, !.leaseOwner = NoOne, !.leaseExpiresAt = Never]

\* Slip: the expiry of a failed attempt's lease is left in the row.
FailedRowKeepingExpiry(r, retryAt) ==
  [r EXCEPT !.leaseOwner = NoOne,
            !.scheduledFor = IF Exhausted(r.attempts, r) THEN @ ELSE retryAt,
            !.failed = Exhausted(r.attempts, r)]

FailedRow(r, retryAt) ==
  [r EXCEPT !.leaseOwner = NoOne, !.leaseExpiresAt = Never,
            !.scheduledFor = IF Exhausted(r.attempts, r) THEN @ ELSE retryAt,
            !.failed = Exhausted(r.attempts, r)]

ReleasedRow(r, t) ==
  [r EXCEPT !.leaseOwner = NoOne, !.leaseExpiresAt = Never, !.scheduledFor = t]

RetriedRow(r, t) ==
  [r EXCEPT !.failed = FALSE, !.attempts = 0, !.leaseOwner = NoOne,
            !.leaseExpiresAt = Never, !.scheduledFor = t]

--------------------------------------------------------------------------------
(* Callers of the queue, and time                                             *)

Tick ==
  /\ now < MaxNow
  /\ now' = now + 1
  /\ UNCHANGED <<rowVars, workerVars, outages, retries>>

\* Slip: the row is inserted and its event is not.
EnqueueUnrecorded(priority, delay, limit) ==
  /\ Len(jobs) < MaxJobs
  /\ jobs' = Append(jobs, [priority |-> priority, scheduledFor |-> now + delay,
                           leaseOwner |-> NoOne, leaseExpiresAt |-> Never,
                           attempts |-> 0, maxAttempts |-> limit,
                           completed |-> FALSE, failed |-> FALSE])
  /\ UNCHANGED <<now, lastEvent, workerVars, outages, retries>>

Enqueue(priority, delay, limit) ==
  /\ Len(jobs) < MaxJobs
  /\ jobs' = Append(jobs, [priority |-> priority, scheduledFor |-> now + delay,
                           leaseOwner |-> NoOne, leaseExpiresAt |-> Never,
                           attempts |-> 0, maxAttempts |-> limit,
                           completed |-> FALSE, failed |-> FALSE])
  /\ lastEvent' = Append(lastEvent, "JobEnqueued")
  /\ UNCHANGED <<now, workerVars, outages, retries>>

Retry(j) ==
  /\ retries < MaxRetries
  /\ jobs[j].failed
  /\ jobs' = [jobs EXCEPT ![j] = RetriedRow(@, now)]
  /\ lastEvent' = [lastEvent EXCEPT ![j] = "JobRetried"]
  /\ retries' = retries + 1
  /\ UNCHANGED <<now, workerVars, outages>>

--------------------------------------------------------------------------------
(* A worker                                                                   *)

\* The loop comes round and Queue.Claim reads the clock, before the statement
\* waits for the store's one writer.
Poll(w) ==
  /\ pc[w] = "idle"
  /\ ~cancelled[w]
  /\ pc' = [pc EXCEPT ![w] = "claiming"]
  /\ at' = [at EXCEPT ![w] = now]
  /\ UNCHANGED <<now, rowVars, held, cancelled, outages, retries>>

\* Slip: the attempt is counted only in what the claim returns.
ClaimedRowUncounted(r, w, t) ==
  [r EXCEPT !.leaseOwner = w, !.leaseExpiresAt = t + Lease]

ClaimedRow(r, w, t) ==
  [r EXCEPT !.leaseOwner = w, !.leaseExpiresAt = t + Lease, !.attempts = @ + 1]

Claim(w) ==
  /\ pc[w] = "claiming"
  /\ \E j \in DOMAIN jobs :
       /\ IsFirstReady(j, at[w])
       /\ jobs' = [jobs EXCEPT ![j] = ClaimedRow(@, w, at[w])]
       /\ held' = [held EXCEPT ![w] = [job |-> j, attempts |-> jobs[j].attempts + 1]]
  /\ pc' = [pc EXCEPT ![w] = "running"]
  /\ at' = [at EXCEPT ![w] = 0]
  /\ UNCHANGED <<now, lastEvent, cancelled, outages, retries>>

\* Nothing is ready, or the claim was interrupted by the context's end.
ClaimNothing(w) ==
  /\ pc[w] = "claiming"
  /\ ReadyJobs(at[w]) = {} \/ cancelled[w]
  /\ pc' = [pc EXCEPT ![w] = "idle"]
  /\ at' = [at EXCEPT ![w] = 0]
  /\ UNCHANGED <<now, rowVars, held, cancelled, outages, retries>>

ExtendLease(w) ==
  /\ pc[w] = "running"
  /\ jobs[held[w].job].leaseOwner = w
  /\ jobs' = [jobs EXCEPT ![held[w].job].leaseExpiresAt = now + Lease]
  /\ UNCHANGED <<now, lastEvent, workerVars, outages, retries>>

\* dispatch returned; execute decides what to report and reads the clock.  An
\* error after the context ended is an interruption and not a failure.
HandlerReturns(w, ok) ==
  /\ pc[w] = "running"
  /\ pc' = [pc EXCEPT ![w] = IF ok THEN "completing"
                             ELSE IF cancelled[w] THEN "releasing" ELSE "failing"]
  /\ at' = [at EXCEPT ![w] = now]
  /\ UNCHANGED <<now, rowVars, held, cancelled, outages, retries>>

\* Slip: the UPDATE matches the id alone.
FinishById(w, row, event) ==
  /\ jobs' = [jobs EXCEPT ![held[w].job] = row]
  /\ lastEvent' = [lastEvent EXCEPT ![held[w].job] = event]
  /\ pc' = [pc EXCEPT ![w] = "idle"]
  /\ held' = [held EXCEPT ![w] = NothingClaimed]
  /\ at' = [at EXCEPT ![w] = 0]
  /\ UNCHANGED <<now, cancelled, outages, retries>>

\* store.finish: the UPDATE matches the lease's owner, and the event goes with
\* it; a worker that was overtaken changes nothing and drops the job.
Finish(w, row, event) ==
  LET j == held[w].job IN
  /\ IF jobs[j].leaseOwner = w
       THEN /\ jobs' = [jobs EXCEPT ![j] = row]
            /\ lastEvent' = [lastEvent EXCEPT ![j] = event]
       ELSE UNCHANGED rowVars
  /\ pc' = [pc EXCEPT ![w] = "idle"]
  /\ held' = [held EXCEPT ![w] = NothingClaimed]
  /\ at' = [at EXCEPT ![w] = 0]
  /\ UNCHANGED <<now, cancelled, outages, retries>>

Complete(w) ==
  /\ pc[w] = "completing"
  /\ Finish(w, CompletedRow(jobs[held[w].job]), "JobCompleted")

\* The event is chosen from the claim's copy, failed_at from the row.
Fail(w) ==
  LET r == jobs[held[w].job] spent == held[w].attempts IN
  /\ pc[w] = "failing"
  /\ Finish(w, FailedRow(r, at[w] + RetryDelay(spent)),
            IF Exhausted(spent, r) THEN "JobAbandoned" ELSE "JobFailed")

\* A release records no event.
Release(w) ==
  LET j == held[w].job IN
  /\ pc[w] = "releasing"
  /\ Finish(w, ReleasedRow(jobs[j], at[w]), lastEvent[j])

Cancel(w) ==
  /\ pc[w] # "down"
  /\ ~cancelled[w]
  /\ outages < MaxOutages
  /\ cancelled' = [cancelled EXCEPT ![w] = TRUE]
  /\ outages' = outages + 1
  /\ UNCHANGED <<now, rowVars, pc, held, at, retries>>

Stop(w) ==
  /\ pc[w] = "idle"
  /\ cancelled[w]
  /\ pc' = [pc EXCEPT ![w] = "down"]
  /\ UNCHANGED <<now, rowVars, held, at, cancelled, outages, retries>>

\* The process dies.  The row keeps the lease it had.
Crash(w) ==
  /\ pc[w] # "down"
  /\ outages < MaxOutages
  /\ pc' = [pc EXCEPT ![w] = "down"]
  /\ held' = [held EXCEPT ![w] = NothingClaimed]
  /\ at' = [at EXCEPT ![w] = 0]
  /\ outages' = outages + 1
  /\ UNCHANGED <<now, rowVars, cancelled, retries>>

\* It comes back, under the name it had.
Restart(w) ==
  /\ pc[w] = "down"
  /\ pc' = [pc EXCEPT ![w] = "idle"]
  /\ cancelled' = [cancelled EXCEPT ![w] = FALSE]
  /\ UNCHANGED <<now, rowVars, held, at, outages, retries>>

Progress(w) ==
  \/ Poll(w) \/ Claim(w) \/ ClaimNothing(w) \/ Stop(w)
  \/ \E ok \in BOOLEAN : HandlerReturns(w, ok)
  \/ Complete(w) \/ Fail(w) \/ Release(w)

Next ==
  \/ Tick
  \/ \E p \in Priority, d \in Start, a \in AttemptLimit : Enqueue(p, d, a)
  \/ \E j \in DOMAIN jobs : Retry(j)
  \/ \E w \in Worker :
       \/ Progress(w) \/ ExtendLease(w)
       \/ Cancel(w) \/ Crash(w) \/ Restart(w)

Spec == Init /\ [][Next]_vars

(***************************************************************************)
(* What EventuallyFinished supposes.  Up to MaxNow time passes as it likes *)
(* and attempts outlast their leases.  From then on an attempt fits in its *)
(* lease, which a handler that needs longer extends                        *)
(* (internal/jobs/queue.go:18), so the clock moves between attempts only,  *)
(* whenever a job waits for it.  A worker's loop keeps going round, a      *)
(* handler returns sooner or later and a worker that went down comes back  *)
(* (deploy/cms.service: Restart=on-failure).  Nobody has to retry, enqueue *)
(* or extend anything.                                                     *)
(***************************************************************************)
QuietTick ==
  /\ now >= MaxNow
  /\ \A w \in Worker : pc[w] \notin Busy
  /\ \E j \in DOMAIN jobs :
       ~Finished(jobs[j]) /\ (now < jobs[j].scheduledFor \/ now <= jobs[j].leaseExpiresAt)
  /\ now' = now + 1
  /\ UNCHANGED <<rowVars, workerVars, outages, retries>>

FairSpec ==
  /\ Init /\ [][Next \/ QuietTick]_vars
  /\ WF_vars(Tick) /\ WF_vars(QuietTick)
  /\ \A w \in Worker : WF_vars(Progress(w)) /\ WF_vars(Restart(w))

--------------------------------------------------------------------------------
(* Properties                                                                 *)

\* A row names a lease owner exactly when it has an expiry, a finished row
\* names neither, and no row is both completed and abandoned.
RowsConsistent ==
  \A j \in DOMAIN jobs :
    LET r == jobs[j] IN
    /\ r.leaseOwner = NoOne <=> r.leaseExpiresAt = Never
    /\ Finished(r) => r.leaseOwner = NoOne
    /\ ~(r.completed /\ r.failed)

\* A worker the row still names as owner is running the row's latest attempt:
\* the count in its copy, from which Queue.Fail decides whether this was the
\* last one, is the count in the row, from which the UPDATE decides.
OwnerHasLatestAttempt ==
  \A w \in Worker :
    pc[w] \in Busy /\ jobs[held[w].job].leaseOwner = w
      => jobs[held[w].job].attempts = held[w].attempts

\* The audit log agrees with the table: the latest event about a job says it
\* was completed, or abandoned, exactly when the row says so, however late
\* the worker that reported it was.
EventsMatchRows ==
  \A j \in DOMAIN jobs :
    /\ jobs[j].completed <=> lastEvent[j] = "JobCompleted"
    /\ jobs[j].failed <=> lastEvent[j] = "JobAbandoned"

\* A completed row never changes again, and an abandoned one only by Retry:
\* no late report, release or claim touches it.
FinalStep ==
  \A j \in DOMAIN jobs :
    /\ jobs[j].completed => jobs'[j] = jobs[j]
    /\ jobs[j].failed => \/ jobs'[j] = jobs[j]
                         \/ retries' = retries + 1 /\ jobs'[j].attempts = 0

FinishedIsFinal == [][FinalStep]_vars

\* A lease goes from one worker straight to another only after it ran out by
\* the real clock, though claims use readings of it that may be old.
LeaseStep ==
  \A j \in DOMAIN jobs :
    LET before == jobs[j].leaseOwner after == jobs'[j].leaseOwner IN
    before # after /\ before # NoOne /\ after # NoOne => jobs[j].leaseExpiresAt < now

LeaseRespected == [][LeaseStep]_vars

\* The queue implements WorkQueue.
PhaseOf ==
  [j \in JobId |-> IF j \notin DOMAIN jobs THEN "absent"
                   ELSE IF jobs[j].completed THEN "done"
                   ELSE IF jobs[j].failed THEN "abandoned" ELSE "open"]
HolderOf == [j \in JobId |-> IF j \in DOMAIN jobs THEN jobs[j].leaseOwner ELSE NoOne]
DoingOf  == [w \in Worker |-> held[w].job]

Abstract == INSTANCE WorkQueue WITH
  Job <- JobId, phase <- PhaseOf, holder <- HolderOf, doing <- DoingOf

ImplementsWorkQueue == Abstract!AbstractSpec

\* Once outages and arrivals come to an end (MaxOutages, MaxJobs) and attempts
\* fit in their leases (QuietTick), every job is completed or given up on, for
\* again and again the queue holds no other (rows are never deleted): a dead
\* worker's lease runs out and its job is claimed again, a failed attempt
\* is tried again after its delay, and a job of low priority gets its turn.
\* Without those ends the code promises nothing: the claim compares no attempts
\* (AttemptsWithinLimit), and more urgent jobs arriving for ever go first for
\* ever.
EventuallyFinished ==
  []<>(\A j \in DOMAIN jobs : Finished(jobs[j]))

(***************************************************************************)
(* Not so.  internal/store/jobs.go:168 says that counting the attempt in   *)
(* the claim is "what stops a job that kills its worker from being retried *)
(* forever"; 0008_jobs.sql says the same of max_attempts.  Only FailJob    *)
(* compares the two, and a dead worker never calls it.                     *)
(***************************************************************************)
AttemptsWithinLimit ==
  \A j \in DOMAIN jobs : jobs[j].attempts <= jobs[j].maxAttempts
================================================================================
