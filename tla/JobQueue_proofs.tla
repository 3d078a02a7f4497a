---------------------------- MODULE JobQueue_proofs ----------------------------
(***************************************************************************)
(* What the job queue guarantees for every number of workers, jobs,        *)
(* outages and retries, every lease and every backoff: JobQueue's type     *)
(* invariant, then the inductive invariant behind its safety properties.   *)
(***************************************************************************)
EXTENDS JobQueue, TLAPS

--------------------------------------------------------------------------------
(* Rows                                                                       *)

\* A wait is an integer, whatever the attempt.
LEMMA RetryDelayType ==
  ASSUME NEW n \in Nat
  PROVE  RetryDelay(n) \in Int
BY QueueAssumption DEF RetryDelay

\* An expiry the clock gives is an expiry a row may have.
LEMMA ExpiryType ==
  ASSUME NEW r \in Row, NEW t \in Nat
  PROVE  [r EXCEPT !.leaseExpiresAt = t + Lease] \in Row
<1>   DEFINE expiry == t + Lease
<1>1. expiry \in Nat  BY QueueAssumption
<1>   HIDE DEF expiry
<1>2. [r EXCEPT !.leaseExpiresAt = expiry] \in Row  BY <1>1 DEF Row, Never
<1>   QED  BY <1>2 DEF expiry

LEMMA NewRowType ==
  ASSUME NEW t \in Nat, NEW p \in Priority, NEW d \in Start, NEW a \in AttemptLimit
  PROVE  [priority |-> p, scheduledFor |-> t + d, leaseOwner |-> NoOne,
          leaseExpiresAt |-> Never, attempts |-> 0, maxAttempts |-> a,
          completed |-> FALSE, failed |-> FALSE] \in Row
<1>   DEFINE start == t + d
<1>1. start \in Int  BY QueueAssumption
<1>   HIDE DEF start
<1>2. [priority |-> p, scheduledFor |-> start, leaseOwner |-> NoOne,
       leaseExpiresAt |-> Never, attempts |-> 0, maxAttempts |-> a,
       completed |-> FALSE, failed |-> FALSE] \in Row
  BY <1>1 DEF Row, Never
<1>   QED  BY <1>2 DEF start

\* Every statement that writes an existing row leaves a row.
LEMMA RowTypes ==
  ASSUME NEW r \in Row, NEW t \in Nat
  PROVE  /\ CompletedRow(r) \in Row
         /\ ReleasedRow(r, t) \in Row
         /\ RetriedRow(r, t) \in Row
         /\ \A later \in Int : FailedRow(r, later) \in Row
         /\ \A w \in Worker : ClaimedRow(r, w, t) \in Row
<1>1. CompletedRow(r) \in Row  BY DEF CompletedRow, Row, Never
<1>2. t \in Int  OBVIOUS
<1>3. ReleasedRow(r, t) \in Row  BY <1>2 DEF ReleasedRow, Row, Never
<1>4. RetriedRow(r, t) \in Row  BY <1>2 DEF RetriedRow, Row, Never
<1>5. ASSUME NEW later \in Int  PROVE FailedRow(r, later) \in Row
  <2>1. Exhausted(r.attempts, r) \in BOOLEAN  BY DEF Exhausted
  <2>   QED  BY <2>1 DEF FailedRow, Row, Never
<1>6. ASSUME NEW w \in Worker  PROVE ClaimedRow(r, w, t) \in Row
  <2>   DEFINE expiry == t + Lease
                 spent  == r.attempts + 1
  <2>1. expiry \in Nat /\ spent \in Nat  BY QueueAssumption DEF Row
  <2>2. ClaimedRow(r, w, t) =
          [r EXCEPT !.leaseOwner = w, !.leaseExpiresAt = expiry, !.attempts = spent]
    BY DEF ClaimedRow
  <2>   HIDE DEF expiry, spent
  <2>3. [r EXCEPT !.leaseOwner = w, !.leaseExpiresAt = expiry, !.attempts = spent] \in Row
    BY <2>1 DEF Row, Never
  <2>   QED  BY <2>2, <2>3
<1>   QED  BY <1>1, <1>3, <1>4, <1>5, <1>6

--------------------------------------------------------------------------------
(* Types                                                                      *)

\* A busy worker's copy is of a row that is in the table.
BusyHasRow == \A w \in Worker : pc[w] \in Busy => held[w].job \in DOMAIN jobs

Typed == TypeOK /\ BusyHasRow

\* A report, matched by its owner or not, leaves the types as they were.
LEMMA FinishTypes ==
  ASSUME Typed, NEW w \in Worker, NEW row \in Row, NEW event \in EventType,
         pc[w] \in Busy, Finish(w, row, event)
  PROVE  Typed'
<1>   DEFINE j == held[w].job
<1>1. /\ j \in DOMAIN jobs /\ jobs \in Seq(Row)
      /\ lastEvent \in Seq(EventType) /\ Len(lastEvent) = Len(jobs)
  BY DEF Typed, TypeOK, BusyHasRow
<1>2. /\ jobs' \in Seq(Row) /\ lastEvent' \in Seq(EventType)
      /\ Len(lastEvent') = Len(jobs') /\ Len(jobs') = Len(jobs)
  <2>1. \/ jobs' = [jobs EXCEPT ![j] = row] /\ lastEvent' = [lastEvent EXCEPT ![j] = event]
        \/ jobs' = jobs /\ lastEvent' = lastEvent
    BY DEF Finish, rowVars
  <2>   HIDE DEF j
  <2>   QED  BY <1>1, <2>1
<1>3. TypeOK'
  BY <1>2 DEF Finish, Typed, TypeOK, NothingClaimed, NoJob, Claimed, Step
<1>4. BusyHasRow'
  BY <1>2 DEF Finish, Typed, TypeOK, BusyHasRow, Busy
<1>   QED  BY <1>3, <1>4 DEF Typed

LEMMA StepTypes == Typed /\ [Next]_vars => Typed'
<1>   SUFFICES ASSUME Typed, [Next]_vars  PROVE Typed'
  OBVIOUS
<1>   USE DEF Typed
<1>1. CASE Tick
  BY <1>1 DEF Tick, TypeOK, BusyHasRow, rowVars, workerVars
<1>2. ASSUME NEW p \in Priority, NEW d \in Start, NEW a \in AttemptLimit, Enqueue(p, d, a)
      PROVE  Typed'
  <2>   DEFINE row == [priority |-> p, scheduledFor |-> now + d,
                       leaseOwner |-> NoOne, leaseExpiresAt |-> Never,
                       attempts |-> 0, maxAttempts |-> a,
                       completed |-> FALSE, failed |-> FALSE]
  <2>1. row \in Row  BY NewRowType DEF TypeOK
  <2>   HIDE DEF row
  <2>2. jobs' = Append(jobs, row)  BY <1>2 DEF Enqueue, row
  <2>3. jobs' \in Seq(Row) /\ Len(jobs') = Len(jobs) + 1  BY <2>1, <2>2 DEF TypeOK
  <2>4. lastEvent' \in Seq(EventType) /\ Len(lastEvent') = Len(lastEvent) + 1
    BY <1>2 DEF Enqueue, TypeOK, EventType
  <2>5. TypeOK'  BY <1>2, <2>3, <2>4 DEF Enqueue, TypeOK, workerVars
  <2>6. BusyHasRow'  BY <1>2, <2>3 DEF Enqueue, TypeOK, BusyHasRow, workerVars
  <2>   QED  BY <2>5, <2>6
<1>3. ASSUME NEW j \in DOMAIN jobs, Retry(j)  PROVE Typed'
  <2>0. jobs[j] \in Row  BY DEF TypeOK
  <2>1. now \in Nat  BY DEF TypeOK
  <2>2. RetriedRow(jobs[j], now) \in Row  BY <2>0, <2>1, RowTypes
  <2>3. jobs' \in Seq(Row) /\ Len(jobs') = Len(jobs)  BY <1>3, <2>2 DEF Retry, TypeOK
  <2>4. lastEvent' \in Seq(EventType) /\ Len(lastEvent') = Len(lastEvent)
    BY <1>3 DEF Retry, TypeOK, EventType
  <2>5. TypeOK'  BY <1>3, <2>3, <2>4 DEF Retry, TypeOK, workerVars
  <2>6. BusyHasRow'  BY <1>3, <2>3 DEF Retry, TypeOK, BusyHasRow, workerVars
  <2>   QED  BY <2>5, <2>6
<1>4. ASSUME NEW w \in Worker, Progress(w)  PROVE Typed'
  <2>1. CASE Poll(w)
    BY <2>1 DEF Poll, TypeOK, BusyHasRow, Step, Busy, rowVars
  <2>2. CASE Claim(w)
    <3>1. PICK j \in DOMAIN jobs :
            /\ jobs' = [jobs EXCEPT ![j] = ClaimedRow(@, w, at[w])]
            /\ held' = [held EXCEPT ![w] = [job |-> j, attempts |-> jobs[j].attempts + 1]]
      BY <2>2 DEF Claim
    <3>2. jobs[j] \in Row /\ at[w] \in Nat  BY DEF TypeOK
    <3>3. ClaimedRow(jobs[j], w, at[w]) \in Row
      BY <3>2, RowTypes
    <3>4. jobs' \in Seq(Row) /\ Len(jobs') = Len(jobs)  BY <3>1, <3>3 DEF TypeOK
    <3>5. [job |-> j, attempts |-> jobs[j].attempts + 1] \in Claimed
      BY <3>2 DEF Claimed, Row, TypeOK
    <3>6. TypeOK'  BY <2>2, <3>1, <3>4, <3>5 DEF Claim, TypeOK, Step
    <3>7. BusyHasRow'  BY <2>2, <3>1, <3>4 DEF Claim, TypeOK, BusyHasRow
    <3>   QED  BY <3>6, <3>7
  <2>3. CASE ClaimNothing(w)
    BY <2>3 DEF ClaimNothing, TypeOK, BusyHasRow, Step, Busy, rowVars
  <2>4. CASE Stop(w)
    BY <2>4 DEF Stop, TypeOK, BusyHasRow, Step, Busy, rowVars
  <2>5. ASSUME NEW ok \in BOOLEAN, HandlerReturns(w, ok)  PROVE Typed'
    BY <2>5 DEF HandlerReturns, TypeOK, BusyHasRow, Step, Busy, rowVars
  <2>   DEFINE r == jobs[held[w].job]
  <2>6. pc[w] \in Busy => r \in Row /\ lastEvent[held[w].job] \in EventType
    BY DEF TypeOK, BusyHasRow
  <2>7. at[w] \in Nat /\ held[w].attempts \in Nat  BY DEF TypeOK, Claimed
  <2>8. CASE Complete(w)
    <3>1. pc[w] \in Busy  BY <2>8 DEF Complete, Busy
    <3>2. CompletedRow(r) \in Row  BY <2>6, <2>7, <3>1, RowTypes
    <3>   QED  BY <2>8, <3>1, <3>2, FinishTypes DEF Complete, EventType
  <2>9. CASE Fail(w)
    <3>   DEFINE later == at[w] + RetryDelay(held[w].attempts)
                 event == IF Exhausted(held[w].attempts, r) THEN "JobAbandoned" ELSE "JobFailed"
    <3>1. pc[w] \in Busy  BY <2>9 DEF Fail, Busy
    <3>2. later \in Int  BY <2>7, RetryDelayType
    <3>3. event \in EventType  BY DEF EventType
    <3>4. Finish(w, FailedRow(r, later), event)  BY <2>9 DEF Fail
    <3>   HIDE DEF later, event
    <3>5. FailedRow(r, later) \in Row  BY <2>6, <2>7, <3>1, <3>2, RowTypes
    <3>   QED  BY <3>1, <3>3, <3>4, <3>5, FinishTypes
  <2>10. CASE Release(w)
    <3>1. pc[w] \in Busy  BY <2>10 DEF Release, Busy
    <3>2. ReleasedRow(r, at[w]) \in Row  BY <2>6, <2>7, <3>1, RowTypes
    <3>   QED  BY <2>6, <2>10, <3>1, <3>2, FinishTypes DEF Release
  <2>   QED  BY <1>4, <2>1, <2>2, <2>3, <2>4, <2>5, <2>8, <2>9, <2>10 DEF Progress
<1>5. ASSUME NEW w \in Worker, ExtendLease(w)  PROVE Typed'
  <2>1. held[w].job \in DOMAIN jobs  BY <1>5 DEF ExtendLease, BusyHasRow, Busy
  <2>2. [jobs[held[w].job] EXCEPT !.leaseExpiresAt = now + Lease] \in Row
    BY <2>1, ExpiryType DEF TypeOK
  <2>3. jobs' \in Seq(Row) /\ Len(jobs') = Len(jobs)
    BY <1>5, <2>1, <2>2 DEF ExtendLease, TypeOK
  <2>   QED  BY <1>5, <2>3 DEF ExtendLease, TypeOK, BusyHasRow, workerVars
<1>6. ASSUME NEW w \in Worker, Cancel(w)  PROVE Typed'
  BY <1>6 DEF Cancel, TypeOK, BusyHasRow, rowVars
<1>7. ASSUME NEW w \in Worker, Crash(w)  PROVE Typed'
  BY <1>7 DEF Crash, TypeOK, BusyHasRow, Step, Busy, Claimed, NothingClaimed, NoJob, rowVars
<1>8. ASSUME NEW w \in Worker, Restart(w)  PROVE Typed'
  BY <1>8 DEF Restart, TypeOK, BusyHasRow, Step, Busy, rowVars
<1>9. CASE UNCHANGED vars
  BY <1>9 DEF vars, TypeOK, BusyHasRow
<1>   QED  BY <1>1, <1>2, <1>3, <1>4, <1>5, <1>6, <1>7, <1>8, <1>9 DEF Next

\* The variables have their types in every state: whatever dies, is overtaken
\* or is reported late, the table holds well formed rows and an event for each.
THEOREM TypeCorrect == Spec => []TypeOK
<1>1. Init => Typed
  BY DEF Init, Typed, TypeOK, BusyHasRow, Step, Busy, Claimed, NothingClaimed, NoJob
<1>2. Typed => TypeOK  BY DEF Typed
<1>   QED  BY <1>1, <1>2, StepTypes, PTL DEF Spec

--------------------------------------------------------------------------------
(* The safety invariant.  RowsConsistent, OwnerHasLatestAttempt and           *)
(* EventsMatchRows need one another: a report is matched by the owner alone,  *)
(* so that the row is unfinished is RowsConsistent's, and that the event      *)
(* chosen from the claim's copy is the one the row calls for is               *)
(* OwnerHasLatestAttempt's.                                                   *)

\* No clock reading is ahead of the clock.
ReadingsPast == \A w \in Worker : at[w] <= now

IInv ==
  /\ Typed
  /\ ReadingsPast
  /\ RowsConsistent
  /\ OwnerHasLatestAttempt
  /\ EventsMatchRows

LEMMA TypedType == Typed => jobs \in Seq(Row) /\ now \in Nat /\ at \in [Worker -> Nat]
BY DEF Typed, TypeOK

LEMMA StepReadings == Typed /\ ReadingsPast /\ [Next]_vars => ReadingsPast'
<1>   SUFFICES ASSUME Typed, ReadingsPast, [Next]_vars, NEW v \in Worker
                PROVE  at'[v] <= now'
  BY DEF ReadingsPast
<1>   USE TypedType DEF ReadingsPast
<1>1. CASE Tick  BY <1>1 DEF Tick, workerVars
<1>2. ASSUME NEW p \in Priority, NEW d \in Start, NEW a \in AttemptLimit, Enqueue(p, d, a)
      PROVE  at'[v] <= now'
  BY <1>2 DEF Enqueue, workerVars
<1>3. ASSUME NEW j \in DOMAIN jobs, Retry(j)  PROVE at'[v] <= now'
  BY <1>3 DEF Retry, workerVars
<1>4. ASSUME NEW w \in Worker, Progress(w)  PROVE at'[v] <= now'
  <2>1. ASSUME NEW row, NEW event, Finish(w, row, event)  PROVE at'[v] <= now'
    BY <2>1 DEF Finish
  <2>2. CASE Poll(w)  BY <2>2 DEF Poll
  <2>3. CASE Claim(w)  BY <2>3 DEF Claim
  <2>4. CASE ClaimNothing(w)  BY <2>4 DEF ClaimNothing
  <2>5. CASE Stop(w)  BY <2>5 DEF Stop
  <2>6. ASSUME NEW ok \in BOOLEAN, HandlerReturns(w, ok)  PROVE at'[v] <= now'
    BY <2>6 DEF HandlerReturns
  <2>7. CASE Complete(w) \/ Fail(w) \/ Release(w)
    BY <2>1, <2>7 DEF Complete, Fail, Release
  <2>   QED  BY <1>4, <2>2, <2>3, <2>4, <2>5, <2>6, <2>7 DEF Progress
<1>5. ASSUME NEW w \in Worker, ExtendLease(w)  PROVE at'[v] <= now'
  BY <1>5 DEF ExtendLease, workerVars
<1>6. ASSUME NEW w \in Worker, Cancel(w) \/ Restart(w)  PROVE at'[v] <= now'
  BY <1>6 DEF Cancel, Restart
<1>7. ASSUME NEW w \in Worker, Crash(w)  PROVE at'[v] <= now'
  BY <1>7 DEF Crash
<1>8. CASE UNCHANGED vars  BY <1>8 DEF vars
<1>   QED  BY <1>1, <1>2, <1>3, <1>4, <1>5, <1>6, <1>7, <1>8 DEF Next

\* A report that is matched settles its row and names the event to go with it;
\* one that is not changes neither.
LEMMA FinishSafe ==
  ASSUME IInv, NEW w \in Worker, NEW row, NEW event,
         pc[w] \in Busy, Finish(w, row, event),
         jobs[held[w].job].leaseOwner = w =>
           /\ row.leaseOwner = NoOne /\ row.leaseExpiresAt = Never
           /\ ~(row.completed /\ row.failed)
           /\ row.completed <=> event = "JobCompleted"
           /\ row.failed <=> event = "JobAbandoned"
  PROVE  RowsConsistent' /\ OwnerHasLatestAttempt' /\ EventsMatchRows'
<1>   DEFINE j == held[w].job
<1>1. /\ j \in DOMAIN jobs /\ jobs \in Seq(Row) /\ pc \in [Worker -> Step]
      /\ lastEvent \in Seq(EventType) /\ Len(lastEvent) = Len(jobs)
      /\ held \in [Worker -> Claimed]
  BY DEF IInv, Typed, TypeOK, BusyHasRow
<1>2. CASE jobs[j].leaseOwner = w
  <2>1. jobs' = [jobs EXCEPT ![j] = row] /\ lastEvent' = [lastEvent EXCEPT ![j] = event]
    BY <1>2 DEF Finish
  <2>2. row.leaseOwner = NoOne /\ row.leaseExpiresAt = Never
        /\ ~(row.completed /\ row.failed)
        /\ (row.completed <=> event = "JobCompleted")
        /\ (row.failed <=> event = "JobAbandoned")
    BY <1>2
  <2>   HIDE DEF j
  <2>3. DOMAIN jobs' = DOMAIN jobs /\ j \in DOMAIN lastEvent  BY <1>1, <2>1
  <2>4. RowsConsistent'
    BY <1>1, <2>1, <2>2, <2>3 DEF IInv, RowsConsistent, Finished
  <2>5. EventsMatchRows'
    BY <1>1, <2>1, <2>2, <2>3 DEF IInv, EventsMatchRows
  <2>6. ASSUME NEW v \in Worker, pc'[v] \in Busy, jobs'[held'[v].job].leaseOwner = v
        PROVE  jobs'[held'[v].job].attempts = held'[v].attempts
    <3>1. v # w /\ pc[v] \in Busy /\ held'[v] = held[v]
      BY <1>1, <2>6 DEF Finish, Busy
    <3>2. held[v].job \in DOMAIN jobs  BY <3>1 DEF IInv, Typed, BusyHasRow
    <3>3. held[v].job # j
      BY <1>1, <2>1, <2>2, <2>6, <3>1, QueueAssumption
    <3>   QED  BY <1>1, <2>1, <2>6, <3>1, <3>2, <3>3 DEF IInv, OwnerHasLatestAttempt
  <2>   QED  BY <2>4, <2>5, <2>6 DEF OwnerHasLatestAttempt
<1>3. CASE jobs[j].leaseOwner # w
  <2>1. jobs' = jobs /\ lastEvent' = lastEvent  BY <1>3 DEF Finish, rowVars
  <2>2. \A v \in Worker : pc'[v] \in Busy => pc[v] \in Busy /\ held'[v] = held[v]
    BY <1>1 DEF Finish, Busy
  <2>   QED  BY <2>1, <2>2 DEF IInv, RowsConsistent, EventsMatchRows, OwnerHasLatestAttempt
<1>   QED  BY <1>2, <1>3

LEMMA StepSafe == IInv /\ [Next]_vars => RowsConsistent' /\ OwnerHasLatestAttempt' /\ EventsMatchRows'
<1>   DEFINE Safe == RowsConsistent /\ OwnerHasLatestAttempt /\ EventsMatchRows
<1>   SUFFICES ASSUME IInv, [Next]_vars  PROVE Safe'
  OBVIOUS
<1>0. /\ TypeOK /\ BusyHasRow /\ Safe
      /\ \A j \in DOMAIN jobs : jobs[j] \in Row /\ j \in DOMAIN lastEvent
      /\ jobs \in Seq(Row) /\ lastEvent \in Seq(EventType) /\ Len(lastEvent) = Len(jobs)
      /\ pc \in [Worker -> Step] /\ held \in [Worker -> Claimed]
  BY DEF IInv, Typed, TypeOK
<1>1. ASSUME UNCHANGED rowVars,
             \A v \in Worker : pc'[v] \in Busy => pc[v] \in Busy /\ held'[v] = held[v]
      PROVE  Safe'
  BY <1>0, <1>1 DEF rowVars, RowsConsistent, EventsMatchRows, OwnerHasLatestAttempt
<1>2. CASE Tick  BY <1>1, <1>2 DEF Tick, workerVars
<1>3. ASSUME NEW p \in Priority, NEW d \in Start, NEW a \in AttemptLimit, Enqueue(p, d, a)
      PROVE  Safe'
  <2>   DEFINE row == [priority |-> p, scheduledFor |-> now + d,
                       leaseOwner |-> NoOne, leaseExpiresAt |-> Never,
                       attempts |-> 0, maxAttempts |-> a,
                       completed |-> FALSE, failed |-> FALSE]
  <2>1. jobs' = Append(jobs, row) /\ lastEvent' = Append(lastEvent, "JobEnqueued")
        /\ UNCHANGED workerVars
    BY <1>3 DEF Enqueue
  <2>2. row.leaseOwner = NoOne /\ row.leaseExpiresAt = Never /\ ~row.completed /\ ~row.failed
    OBVIOUS
  <2>   HIDE DEF row
  <2>3. \A j \in DOMAIN jobs' :
          \/ j \in DOMAIN jobs /\ jobs'[j] = jobs[j] /\ lastEvent'[j] = lastEvent[j]
          \/ jobs'[j] = row /\ lastEvent'[j] = "JobEnqueued"
    <3>   DEFINE n == Len(jobs)
    <3>1. n \in Nat  BY <1>0
    <3>2. DOMAIN jobs' = 1..(n + 1) /\ DOMAIN jobs = 1..n  BY <1>0, <2>1
    <3>3. jobs'[n + 1] = row /\ lastEvent'[n + 1] = "JobEnqueued"  BY <1>0, <2>1
    <3>4. \A j \in 1..n : jobs'[j] = jobs[j] /\ lastEvent'[j] = lastEvent[j]
      BY <1>0, <2>1
    <3>   HIDE DEF n
    <3>5. \A j \in 1..(n + 1) : j \in 1..n \/ j = n + 1  BY <3>1
    <3>   QED  BY <3>2, <3>3, <3>4, <3>5
  <2>4. RowsConsistent' /\ EventsMatchRows'
    BY <1>0, <2>2, <2>3 DEF RowsConsistent, EventsMatchRows, Finished
  <2>5. \A j \in DOMAIN jobs : jobs'[j] = jobs[j]  BY <1>0, <2>1
  <2>6. OwnerHasLatestAttempt'
    BY <1>0, <2>1, <2>5 DEF OwnerHasLatestAttempt, BusyHasRow, workerVars
  <2>   QED  BY <2>4, <2>6
<1>4. ASSUME NEW j \in DOMAIN jobs, Retry(j)  PROVE Safe'
  <2>   DEFINE row == RetriedRow(jobs[j], now)
  <2>1. jobs' = [jobs EXCEPT ![j] = row] /\ lastEvent' = [lastEvent EXCEPT ![j] = "JobRetried"]
        /\ UNCHANGED workerVars
    BY <1>4 DEF Retry
  <2>2. row.leaseOwner = NoOne /\ row.leaseExpiresAt = Never /\ ~row.completed /\ ~row.failed
    BY <1>0, <1>4 DEF Retry, RetriedRow, Row, RowsConsistent
  <2>   HIDE DEF row
  <2>3. RowsConsistent' /\ EventsMatchRows'
    BY <1>0, <2>1, <2>2 DEF RowsConsistent, EventsMatchRows, Finished
  <2>4. OwnerHasLatestAttempt'
    BY <1>0, <2>1, <2>2, QueueAssumption DEF OwnerHasLatestAttempt, BusyHasRow, workerVars
  <2>   QED  BY <2>3, <2>4
<1>5. ASSUME NEW w \in Worker, Progress(w)  PROVE Safe'
  <2>   DEFINE r == jobs[held[w].job]
  <2>1. CASE Poll(w) \/ ClaimNothing(w) \/ Stop(w)
    <3>1. UNCHANGED rowVars /\ UNCHANGED held /\ \A v \in Worker : pc'[v] \in Busy => pc[v] \in Busy
      BY <1>0, <2>1 DEF Poll, ClaimNothing, Stop, Busy
    <3>   QED  BY <1>1, <3>1
  <2>2. ASSUME NEW ok \in BOOLEAN, HandlerReturns(w, ok)  PROVE Safe'
    <3>1. UNCHANGED rowVars /\ UNCHANGED held /\ \A v \in Worker : pc'[v] \in Busy => pc[v] \in Busy
      BY <1>0, <2>2 DEF HandlerReturns, Busy
    <3>   QED  BY <1>1, <3>1
  <2>3. CASE Claim(w)
    <3>1. PICK j \in DOMAIN jobs :
            /\ IsFirstReady(j, at[w])
            /\ jobs' = [jobs EXCEPT ![j] = ClaimedRow(@, w, at[w])]
            /\ held' = [held EXCEPT ![w] = [job |-> j, attempts |-> jobs[j].attempts + 1]]
      BY <2>3 DEF Claim
    <3>   DEFINE row == ClaimedRow(jobs[j], w, at[w])
    <3>2. jobs' = [jobs EXCEPT ![j] = row] /\ UNCHANGED lastEvent
          /\ pc' = [pc EXCEPT ![w] = "running"]
      BY <2>3, <3>1 DEF Claim
    <3>3. ~Finished(jobs[j])  BY <3>1 DEF IsFirstReady, ReadyJobs, Ready
    <3>4. row.leaseOwner = w /\ row.attempts = jobs[j].attempts + 1
          /\ row.completed = jobs[j].completed /\ row.failed = jobs[j].failed
      BY <1>0, <3>1 DEF ClaimedRow, Row
    <3>5. row.leaseExpiresAt # Never
      <4>   DEFINE expiry == at[w] + Lease
      <4>1. expiry # Never  BY QueueAssumption, <1>0 DEF Never, TypeOK
      <4>2. row.leaseExpiresAt = expiry  BY <1>0, <3>1 DEF ClaimedRow, Row
      <4>   QED  BY <4>1, <4>2
    <3>   HIDE DEF row
    <3>6. RowsConsistent'
      BY <1>0, <3>2, <3>3, <3>4, <3>5, QueueAssumption DEF RowsConsistent, Finished
    <3>7. EventsMatchRows'  BY <1>0, <3>2, <3>4 DEF EventsMatchRows
    <3>8. ASSUME NEW v \in Worker, pc'[v] \in Busy, jobs'[held'[v].job].leaseOwner = v
          PROVE  jobs'[held'[v].job].attempts = held'[v].attempts
      <4>1. CASE v = w  BY <1>0, <3>1, <3>2, <3>4, <4>1
      <4>2. CASE v # w
        <5>1. pc[v] \in Busy /\ held'[v] = held[v] /\ held[v].job \in DOMAIN jobs
          BY <1>0, <3>1, <3>2, <3>8, <4>2 DEF BusyHasRow
        <5>   QED
          BY <1>0, <3>2, <3>4, <3>8, <4>2, <5>1 DEF OwnerHasLatestAttempt
      <4>   QED  BY <4>1, <4>2
    <3>   QED  BY <3>6, <3>7, <3>8 DEF OwnerHasLatestAttempt
  <2>4. ASSUME pc[w] \in Busy, r.leaseOwner = w
        PROVE  /\ r \in Row /\ ~r.completed /\ ~r.failed
               /\ r.attempts = held[w].attempts
               /\ lastEvent[held[w].job] # "JobCompleted"
               /\ lastEvent[held[w].job] # "JobAbandoned"
    BY <1>0, <2>4, QueueAssumption
    DEF BusyHasRow, RowsConsistent, Finished, OwnerHasLatestAttempt, EventsMatchRows
  <2>5. CASE Complete(w)
    <3>1. pc[w] \in Busy /\ Finish(w, CompletedRow(r), "JobCompleted")
      BY <2>5 DEF Complete, Busy
    <3>   QED  BY <2>4, <3>1, FinishSafe DEF CompletedRow, Row
  <2>6. CASE Fail(w)
    <3>   DEFINE later == at[w] + RetryDelay(held[w].attempts)
                 event == IF Exhausted(held[w].attempts, r) THEN "JobAbandoned" ELSE "JobFailed"
                 row   == FailedRow(r, later)
    <3>1. pc[w] \in Busy /\ Finish(w, row, event)  BY <2>6 DEF Fail, Busy
    <3>2. r.leaseOwner = w =>
            /\ row.leaseOwner = NoOne /\ row.leaseExpiresAt = Never
            /\ ~row.completed
            /\ row.failed <=> event = "JobAbandoned"
            /\ event # "JobCompleted"
      <4>   HIDE DEF later
      <4>1. Exhausted(held[w].attempts, r) \in BOOLEAN  BY DEF Exhausted
      <4>   QED  BY <2>4, <3>1, <4>1 DEF FailedRow, Row
    <3>   HIDE DEF row, event
    <3>   QED  BY <3>1, <3>2, FinishSafe
  <2>7. CASE Release(w)
    <3>1. pc[w] \in Busy /\ Finish(w, ReleasedRow(r, at[w]), lastEvent[held[w].job])
      BY <2>7 DEF Release, Busy
    <3>   QED  BY <2>4, <3>1, FinishSafe DEF ReleasedRow, Row
  <2>   QED  BY <1>5, <2>1, <2>2, <2>3, <2>5, <2>6, <2>7 DEF Progress
<1>6. ASSUME NEW w \in Worker, ExtendLease(w)  PROVE Safe'
  <2>   DEFINE j == held[w].job
               row == [jobs[j] EXCEPT !.leaseExpiresAt = now + Lease]
  <2>1. j \in DOMAIN jobs /\ jobs[j].leaseOwner = w  BY <1>0, <1>6 DEF ExtendLease, BusyHasRow, Busy
  <2>2. jobs' = [jobs EXCEPT ![j] = row] /\ UNCHANGED lastEvent /\ UNCHANGED workerVars
    BY <1>6 DEF ExtendLease
  <2>3. row.leaseExpiresAt # Never
    BY <1>0, <2>1, QueueAssumption DEF Row, Never, TypeOK
  <2>4. row.leaseOwner = w /\ row.attempts = jobs[j].attempts
        /\ row.completed = jobs[j].completed /\ row.failed = jobs[j].failed
    BY <1>0, <2>1 DEF Row
  <2>   HIDE DEF row, j
  <2>5. RowsConsistent' /\ EventsMatchRows'
    BY <1>0, <2>1, <2>2, <2>3, <2>4, QueueAssumption DEF RowsConsistent, Finished, EventsMatchRows
  <2>6. OwnerHasLatestAttempt'
    BY <1>0, <2>1, <2>2, <2>4 DEF OwnerHasLatestAttempt, BusyHasRow, workerVars
  <2>   QED  BY <2>5, <2>6
<1>7. ASSUME NEW w \in Worker, Cancel(w)  PROVE Safe'
  BY <1>1, <1>7 DEF Cancel
<1>8. ASSUME NEW w \in Worker, Crash(w)  PROVE Safe'
  <2>1. \A v \in Worker : pc'[v] \in Busy => pc[v] \in Busy /\ held'[v] = held[v]
    BY <1>0, <1>8 DEF Crash, Busy
  <2>   QED  BY <1>1, <1>8, <2>1 DEF Crash
<1>9. ASSUME NEW w \in Worker, Restart(w)  PROVE Safe'
  <2>1. \A v \in Worker : pc'[v] \in Busy => pc[v] \in Busy /\ held'[v] = held[v]
    BY <1>0, <1>9 DEF Restart, Busy
  <2>   QED  BY <1>1, <1>9, <2>1 DEF Restart
<1>10. CASE UNCHANGED vars
  BY <1>1, <1>10 DEF vars, rowVars
<1>   QED
  BY <1>2, <1>3, <1>4, <1>5, <1>6, <1>7, <1>8, <1>9, <1>10 DEF Next

LEMMA Inductive == Spec => []IInv
<1>1. Init => IInv
  BY DEF Init, IInv, Typed, TypeOK, BusyHasRow, Step, Busy, Claimed, NothingClaimed, NoJob,
         ReadingsPast, RowsConsistent, OwnerHasLatestAttempt, EventsMatchRows
<1>2. IInv /\ [Next]_vars => IInv'
  BY StepTypes, StepReadings, StepSafe DEF IInv
<1>   QED  BY <1>1, <1>2, PTL DEF Spec

\* Whoever dies, is overtaken or reports late: a row names a lease owner
\* exactly when it has an expiry, and a finished row names neither.
THEOREM RowsAreConsistent == Spec => []RowsConsistent
<1>1. IInv => RowsConsistent  BY DEF IInv
<1>   QED  BY <1>1, Inductive, PTL

\* A worker the row names as its owner runs the row's latest attempt, so that
\* the queue, which counts in the copy, and the store, which counts in the
\* row, agree on whether a failure was the last.
THEOREM OwnersAreLatest == Spec => []OwnerHasLatestAttempt
<1>1. IInv => OwnerHasLatestAttempt  BY DEF IInv
<1>   QED  BY <1>1, Inductive, PTL

\* The audit log never says of a job what its row does not.
THEOREM EventsAgree == Spec => []EventsMatchRows
<1>1. IInv => EventsMatchRows  BY DEF IInv
<1>   QED  BY <1>1, Inductive, PTL

--------------------------------------------------------------------------------
(* What a step may never do                                                   *)

\* A report changes a row only if the row names its worker, and such a row is
\* unfinished: a finished row is final, and a lease is only ever given up.
LEMMA FinishStep ==
  ASSUME IInv, NEW w \in Worker, NEW row, NEW event, row.leaseOwner = NoOne,
         pc[w] \in Busy, Finish(w, row, event)
  PROVE  FinalStep /\ LeaseStep
<1>   DEFINE j == held[w].job
<1>1. j \in DOMAIN jobs /\ jobs \in Seq(Row)  BY DEF IInv, Typed, TypeOK, BusyHasRow
<1>2. CASE jobs[j].leaseOwner = w
  <2>1. jobs' = [jobs EXCEPT ![j] = row]  BY <1>2 DEF Finish
  <2>2. ~jobs[j].completed /\ ~jobs[j].failed
    BY <1>1, <1>2, QueueAssumption DEF IInv, RowsConsistent, Finished
  <2>   HIDE DEF j
  <2>   QED  BY <1>1, <2>1, <2>2 DEF FinalStep, LeaseStep
<1>3. CASE jobs[j].leaseOwner # w
  <2>1. jobs' = jobs  BY <1>3 DEF Finish, rowVars
  <2>   QED  BY <2>1 DEF FinalStep, LeaseStep
<1>   QED  BY <1>2, <1>3

LEMMA StepRespects == IInv /\ [Next]_vars => FinalStep /\ LeaseStep
<1>   SUFFICES ASSUME IInv, [Next]_vars  PROVE FinalStep /\ LeaseStep
  OBVIOUS
<1>0. /\ jobs \in Seq(Row) /\ now \in Nat /\ retries \in Nat /\ at \in [Worker -> Nat]
      /\ \A j \in DOMAIN jobs : jobs[j] \in Row
  BY DEF IInv, Typed, TypeOK
<1>1. ASSUME \A j \in DOMAIN jobs : jobs'[j] = jobs[j]  PROVE FinalStep /\ LeaseStep
  BY <1>1 DEF FinalStep, LeaseStep
<1>2. CASE Tick  BY <1>1, <1>2 DEF Tick, rowVars
<1>3. ASSUME NEW p \in Priority, NEW d \in Start, NEW a \in AttemptLimit, Enqueue(p, d, a)
      PROVE  FinalStep /\ LeaseStep
  <2>1. PICK row : jobs' = Append(jobs, row)  BY <1>3 DEF Enqueue
  <2>   QED  BY <1>0, <1>1, <2>1
<1>4. ASSUME NEW j \in DOMAIN jobs, Retry(j)  PROVE FinalStep /\ LeaseStep
  <2>   DEFINE row == RetriedRow(jobs[j], now)
  <2>1. jobs' = [jobs EXCEPT ![j] = row] /\ jobs[j].failed /\ retries' = retries + 1
    BY <1>4 DEF Retry
  <2>2. row.leaseOwner = NoOne /\ row.attempts = 0  BY <1>0 DEF RetriedRow, Row
  <2>3. ~jobs[j].completed  BY <2>1 DEF IInv, RowsConsistent
  <2>   HIDE DEF row
  <2>   QED  BY <1>0, <2>1, <2>2, <2>3 DEF FinalStep, LeaseStep
<1>5. ASSUME NEW w \in Worker, Progress(w)  PROVE FinalStep /\ LeaseStep
  <2>   DEFINE r == jobs[held[w].job]
  <2>1. CASE Poll(w) \/ ClaimNothing(w) \/ Stop(w)
    BY <1>1, <2>1 DEF Poll, ClaimNothing, Stop, rowVars
  <2>2. ASSUME NEW ok \in BOOLEAN, HandlerReturns(w, ok)  PROVE FinalStep /\ LeaseStep
    BY <1>1, <2>2 DEF HandlerReturns, rowVars
  <2>3. CASE Claim(w)
    <3>1. PICK j \in DOMAIN jobs :
            /\ Ready(jobs[j], at[w])
            /\ jobs' = [jobs EXCEPT ![j] = ClaimedRow(@, w, at[w])]
      BY <2>3 DEF Claim, IsFirstReady, ReadyJobs
    <3>   DEFINE row == ClaimedRow(jobs[j], w, at[w])
    <3>2. ~jobs[j].completed /\ ~jobs[j].failed  BY <3>1 DEF Ready, Finished
    <3>3. jobs[j].leaseExpiresAt = Never \/ jobs[j].leaseExpiresAt < at[w]  BY <3>1 DEF Ready
    <3>4. jobs[j].leaseOwner # NoOne => jobs[j].leaseExpiresAt < now
      <4>1. at[w] <= now  BY DEF IInv, ReadingsPast
      <4>2. jobs[j].leaseOwner # NoOne => jobs[j].leaseExpiresAt # Never
        BY DEF IInv, RowsConsistent
      <4>3. jobs[j].leaseExpiresAt \in Nat \cup {Never}  BY <1>0 DEF Row
      <4>   QED  BY <1>0, <3>3, <4>1, <4>2, <4>3 DEF Never
    <3>5. jobs' = [jobs EXCEPT ![j] = row]  BY <3>1
    <3>   HIDE DEF row
    <3>   QED  BY <1>0, <3>2, <3>4, <3>5 DEF FinalStep, LeaseStep
  <2>4. pc[w] \in Busy => r \in Row  BY <1>0 DEF IInv, Typed, BusyHasRow
  <2>5. CASE Complete(w)
    <3>1. pc[w] \in Busy /\ Finish(w, CompletedRow(r), "JobCompleted")
      BY <2>5 DEF Complete, Busy
    <3>   QED  BY <2>4, <3>1, FinishStep DEF CompletedRow, Row
  <2>6. CASE Fail(w)
    <3>   DEFINE later == at[w] + RetryDelay(held[w].attempts)
                 event == IF Exhausted(held[w].attempts, r) THEN "JobAbandoned" ELSE "JobFailed"
    <3>1. pc[w] \in Busy /\ Finish(w, FailedRow(r, later), event)  BY <2>6 DEF Fail, Busy
    <3>   HIDE DEF later, event
    <3>   QED  BY <2>4, <3>1, FinishStep DEF FailedRow, Row
  <2>7. CASE Release(w)
    <3>   DEFINE event == lastEvent[held[w].job]
    <3>1. pc[w] \in Busy /\ Finish(w, ReleasedRow(r, at[w]), event)
      BY <2>7 DEF Release, Busy
    <3>2. ReleasedRow(r, at[w]).leaseOwner = NoOne  BY <2>4, <3>1 DEF ReleasedRow, Row
    <3>   HIDE DEF event
    <3>   QED  BY <3>1, <3>2, FinishStep
  <2>   QED  BY <1>5, <2>1, <2>2, <2>3, <2>5, <2>6, <2>7 DEF Progress
<1>6. ASSUME NEW w \in Worker, ExtendLease(w)  PROVE FinalStep /\ LeaseStep
  <2>   DEFINE j == held[w].job
               row == [jobs[j] EXCEPT !.leaseExpiresAt = now + Lease]
  <2>1. j \in DOMAIN jobs /\ jobs[j].leaseOwner = w
    BY <1>6 DEF ExtendLease, IInv, Typed, BusyHasRow, Busy
  <2>2. jobs' = [jobs EXCEPT ![j] = row]  BY <1>6 DEF ExtendLease
  <2>3. row.leaseOwner = w  BY <1>0, <2>1 DEF Row
  <2>4. ~jobs[j].completed /\ ~jobs[j].failed
    BY <2>1, QueueAssumption DEF IInv, RowsConsistent, Finished
  <2>   HIDE DEF row, j
  <2>   QED  BY <1>0, <2>1, <2>2, <2>3, <2>4 DEF FinalStep, LeaseStep
<1>7. ASSUME NEW w \in Worker, Cancel(w) \/ Crash(w) \/ Restart(w)  PROVE FinalStep /\ LeaseStep
  BY <1>1, <1>7 DEF Cancel, Crash, Restart, rowVars
<1>8. CASE UNCHANGED vars  BY <1>1, <1>8 DEF vars
<1>   QED  BY <1>2, <1>3, <1>4, <1>5, <1>6, <1>7, <1>8 DEF Next

\* No late report, release or claim ever touches a finished row.
THEOREM FinishedStaysFinished == Spec => FinishedIsFinal
<1>1. IInv /\ [Next]_vars => [FinalStep]_vars  BY StepRespects
<1>   QED  BY <1>1, Inductive, PTL DEF Spec, FinishedIsFinal

\* No worker is overtaken before its lease has run out by the real clock, even
\* by a claim that read the clock long before it reached the table.
THEOREM LeasesAreRespected == Spec => LeaseRespected
<1>1. IInv /\ [Next]_vars => [LeaseStep]_vars  BY StepRespects
<1>   QED  BY <1>1, Inductive, PTL DEF Spec, LeaseRespected

--------------------------------------------------------------------------------
(* The queue implements WorkQueue                                             *)

\* What the mapping needs beyond IInv: an idle worker holds no job, and the
\* table is no longer than the mapping's domain.
IdleHoldsNothing == \A w \in Worker : pc[w] \notin Busy => held[w] = NothingClaimed

RInv == IInv /\ IdleHoldsNothing /\ Len(jobs) <= MaxJobs

LEMMA StepRInv == RInv /\ [Next]_vars => IdleHoldsNothing' /\ Len(jobs') <= MaxJobs
<1>   SUFFICES ASSUME RInv, [Next]_vars
                PROVE  IdleHoldsNothing' /\ Len(jobs') <= MaxJobs
  OBVIOUS
<1>0. /\ jobs \in Seq(Row) /\ Len(jobs) \in Nat /\ Len(jobs) <= MaxJobs /\ MaxJobs \in Nat
      /\ pc \in [Worker -> Step] /\ held \in [Worker -> Claimed] /\ IdleHoldsNothing
  BY QueueAssumption DEF RInv, IInv, Typed, TypeOK
<1>1. ASSUME NEW w \in Worker, NEW row, NEW event, Finish(w, row, event)
      PROVE  IdleHoldsNothing' /\ Len(jobs') <= MaxJobs
  <2>1. Len(jobs') = Len(jobs)
    <3>   DEFINE j == held[w].job
    <3>1. jobs' = [jobs EXCEPT ![j] = row] \/ jobs' = jobs  BY <1>1 DEF Finish, rowVars
    <3>   HIDE DEF j
    <3>   QED  BY <1>0, <3>1
  <2>2. IdleHoldsNothing'  BY <1>0, <1>1 DEF Finish, IdleHoldsNothing, Busy
  <2>   QED  BY <1>0, <2>1, <2>2
<1>2. CASE Tick  BY <1>0, <1>2 DEF Tick, rowVars, workerVars, IdleHoldsNothing
<1>3. ASSUME NEW p \in Priority, NEW d \in Start, NEW a \in AttemptLimit, Enqueue(p, d, a)
      PROVE  IdleHoldsNothing' /\ Len(jobs') <= MaxJobs
  <2>1. PICK row : jobs' = Append(jobs, row)  BY <1>3 DEF Enqueue
  <2>2. Len(jobs') <= MaxJobs  BY <1>0, <1>3, <2>1 DEF Enqueue
  <2>   QED  BY <1>0, <1>3, <2>2 DEF Enqueue, workerVars, IdleHoldsNothing
<1>4. ASSUME NEW j \in DOMAIN jobs, Retry(j)
      PROVE  IdleHoldsNothing' /\ Len(jobs') <= MaxJobs
  BY <1>0, <1>4 DEF Retry, workerVars, IdleHoldsNothing
<1>5. ASSUME NEW w \in Worker, Progress(w)
      PROVE  IdleHoldsNothing' /\ Len(jobs') <= MaxJobs
  <2>1. CASE Poll(w) \/ ClaimNothing(w) \/ Stop(w)
    BY <1>0, <2>1 DEF Poll, ClaimNothing, Stop, rowVars, IdleHoldsNothing, Busy
  <2>2. ASSUME NEW ok \in BOOLEAN, HandlerReturns(w, ok)
        PROVE  IdleHoldsNothing' /\ Len(jobs') <= MaxJobs
    BY <1>0, <2>2 DEF HandlerReturns, rowVars, IdleHoldsNothing, Busy
  <2>3. CASE Claim(w)  BY <1>0, <2>3 DEF Claim, IdleHoldsNothing, Busy
  <2>4. CASE Complete(w) \/ Fail(w) \/ Release(w)
    BY <1>1, <2>4 DEF Complete, Fail, Release
  <2>   QED  BY <1>5, <2>1, <2>2, <2>3, <2>4 DEF Progress
<1>6. ASSUME NEW w \in Worker, ExtendLease(w)
      PROVE  IdleHoldsNothing' /\ Len(jobs') <= MaxJobs
  BY <1>0, <1>6 DEF ExtendLease, workerVars, IdleHoldsNothing
<1>7. ASSUME NEW w \in Worker, Cancel(w) \/ Crash(w) \/ Restart(w)
      PROVE  IdleHoldsNothing' /\ Len(jobs') <= MaxJobs
  BY <1>0, <1>7 DEF Cancel, Crash, Restart, rowVars, IdleHoldsNothing, Busy
<1>8. CASE UNCHANGED vars  BY <1>0, <1>8 DEF vars, IdleHoldsNothing
<1>   QED  BY <1>2, <1>3, <1>4, <1>5, <1>6, <1>7, <1>8 DEF Next

\* What the abstract queue sees of a row.
RowPhase(r) == IF r.completed THEN "done" ELSE IF r.failed THEN "abandoned" ELSE "open"

LEMMA Mapped ==
  ASSUME RInv
  PROVE  /\ \A j \in DOMAIN jobs : /\ j \in JobId /\ j # NoJob
                                   /\ PhaseOf[j] = RowPhase(jobs[j])
                                   /\ HolderOf[j] = jobs[j].leaseOwner
         /\ \A w \in Worker : DoingOf[w] = held[w].job
BY QueueAssumption
DEF RInv, IInv, Typed, TypeOK, JobId, NoJob, PhaseOf, HolderOf, DoingOf, RowPhase

\* One row written: the mapped state changes at that job alone.
LEMMA OneRow ==
  ASSUME RInv, NEW j \in DOMAIN jobs, NEW row, jobs' = [jobs EXCEPT ![j] = row]
  PROVE  /\ PhaseOf' = [PhaseOf EXCEPT ![j] = RowPhase(row)]
         /\ HolderOf' = [HolderOf EXCEPT ![j] = row.leaseOwner]
<1>1. DOMAIN jobs' = DOMAIN jobs /\ jobs'[j] = row
      /\ \A i \in DOMAIN jobs : i # j => jobs'[i] = jobs[i]
  BY DEF RInv, IInv, Typed, TypeOK
<1>2. PhaseOf' = [PhaseOf EXCEPT ![j] = RowPhase(row)]
  BY <1>1 DEF PhaseOf, RowPhase
<1>3. HolderOf' = [HolderOf EXCEPT ![j] = row.leaseOwner]
  BY <1>1 DEF HolderOf
<1>   QED  BY <1>2, <1>3

\* A matched report is Settle, an unmatched one Drop.
LEMMA FinishImplements ==
  ASSUME RInv, NEW w \in Worker, NEW row, NEW event, row.leaseOwner = NoOne,
         pc[w] \in Busy, Finish(w, row, event)
  PROVE  Abstract!AbstractNext
<1>   DEFINE j == held[w].job
<1>1. j \in DOMAIN jobs /\ j \in JobId /\ j # NoJob /\ DoingOf[w] = j
      /\ PhaseOf[j] = RowPhase(jobs[j]) /\ HolderOf[j] = jobs[j].leaseOwner
  BY Mapped DEF RInv, IInv, Typed, BusyHasRow
<1>2. DoingOf' = [DoingOf EXCEPT ![w] = NoJob]
  BY DEF Finish, DoingOf, NothingClaimed, RInv, IInv, Typed, TypeOK
<1>3. CASE jobs[j].leaseOwner = w
  <2>1. jobs' = [jobs EXCEPT ![j] = row]  BY <1>3 DEF Finish
  <2>   HIDE DEF j
  <2>2. PhaseOf[j] = "open"
    BY <1>1, <1>3, QueueAssumption DEF RowPhase, RInv, IInv, RowsConsistent, Finished
  <2>3. PhaseOf' = [PhaseOf EXCEPT ![j] = RowPhase(row)]
        /\ HolderOf' = [HolderOf EXCEPT ![j] = NoOne]
    BY <1>1, <2>1, OneRow
  <2>4. RowPhase(row) \in {"open", "done", "abandoned"}  BY DEF RowPhase
  <2>5. Abstract!Settle(w, j)
    BY <1>1, <1>2, <1>3, <2>2, <2>3, <2>4 DEF Abstract!Settle
  <2>   QED  BY <1>1, <2>5 DEF Abstract!AbstractNext
<1>4. CASE jobs[j].leaseOwner # w
  <2>1. jobs' = jobs  BY <1>4 DEF Finish, rowVars
  <2>2. UNCHANGED <<PhaseOf, HolderOf>>  BY <2>1 DEF PhaseOf, HolderOf
  <2>3. Abstract!Drop(w)  BY <1>1, <1>2, <2>2 DEF Abstract!Drop
  <2>   QED  BY <2>3 DEF Abstract!AbstractNext
<1>   QED  BY <1>3, <1>4

\* Every step of the queue is a step of WorkQueue, or one it does not see.
LEMMA StepImplements ==
  RInv /\ [Next]_vars => [Abstract!AbstractNext]_(Abstract!abstractVars)
<1>   SUFFICES ASSUME RInv, [Next]_vars
                PROVE  Abstract!AbstractNext \/ UNCHANGED <<PhaseOf, HolderOf, DoingOf>>
  BY DEF Abstract!abstractVars
<1>0. /\ jobs \in Seq(Row) /\ Len(jobs) \in Nat /\ held \in [Worker -> Claimed] /\ now \in Nat
      /\ pc \in [Worker -> Step] /\ \A j \in DOMAIN jobs : jobs[j] \in Row
  BY DEF RInv, IInv, Typed, TypeOK
<1>1. ASSUME UNCHANGED <<jobs, held>>  PROVE UNCHANGED <<PhaseOf, HolderOf, DoingOf>>
  BY <1>1 DEF PhaseOf, HolderOf, DoingOf
<1>2. CASE Tick  BY <1>1, <1>2 DEF Tick, rowVars, workerVars
<1>3. ASSUME NEW p \in Priority, NEW d \in Start, NEW a \in AttemptLimit, Enqueue(p, d, a)
      PROVE  Abstract!AbstractNext
  <2>   DEFINE n   == Len(jobs) + 1
               row == [priority |-> p, scheduledFor |-> now + d,
                       leaseOwner |-> NoOne, leaseExpiresAt |-> Never,
                       attempts |-> 0, maxAttempts |-> a,
                       completed |-> FALSE, failed |-> FALSE]
  <2>1. Len(jobs) < MaxJobs /\ jobs' = Append(jobs, row) /\ UNCHANGED held
    BY <1>3 DEF Enqueue, workerVars
  <2>2. row.leaseOwner = NoOne /\ RowPhase(row) = "open"  BY DEF RowPhase
  <2>   HIDE DEF row
  <2>3. n \in JobId /\ n \notin DOMAIN jobs  BY <1>0, <2>1, QueueAssumption DEF JobId
  <2>4. DOMAIN jobs' = DOMAIN jobs \cup {n} /\ jobs'[n] = row
        /\ \A j \in DOMAIN jobs : jobs'[j] = jobs[j]
    BY <1>0, <2>1
  <2>   HIDE DEF n
  <2>5. PhaseOf[n] = "absent" /\ PhaseOf' = [PhaseOf EXCEPT ![n] = "open"]
    BY <2>2, <2>3, <2>4 DEF PhaseOf, RowPhase
  <2>6. UNCHANGED <<HolderOf, DoingOf>>
    BY <2>1, <2>2, <2>3, <2>4 DEF HolderOf, DoingOf
  <2>7. Abstract!Submit(n)  BY <2>5, <2>6 DEF Abstract!Submit
  <2>   QED  BY <2>3, <2>7 DEF Abstract!AbstractNext
<1>4. ASSUME NEW j \in DOMAIN jobs, Retry(j)  PROVE Abstract!AbstractNext
  <2>   DEFINE row == RetriedRow(jobs[j], now)
  <2>1. jobs' = [jobs EXCEPT ![j] = row] /\ jobs[j].failed /\ UNCHANGED held
    BY <1>4 DEF Retry, workerVars
  <2>2. ~jobs[j].completed /\ jobs[j].leaseOwner = NoOne
    BY <2>1 DEF RInv, IInv, RowsConsistent, Finished
  <2>3. row.leaseOwner = NoOne /\ RowPhase(row) = "open"
    BY <1>0, <2>2 DEF RetriedRow, RowPhase, Row
  <2>   HIDE DEF row
  <2>4. PhaseOf[j] = "abandoned" /\ HolderOf[j] = NoOne /\ j \in JobId
    BY <2>1, <2>2, Mapped DEF RowPhase
  <2>5. PhaseOf' = [PhaseOf EXCEPT ![j] = "open"] /\ HolderOf' = [HolderOf EXCEPT ![j] = NoOne]
    BY <2>1, <2>3, OneRow
  <2>6. UNCHANGED <<HolderOf, DoingOf>>  BY <2>1, <2>4, <2>5 DEF HolderOf, DoingOf
  <2>7. Abstract!Reopen(j)  BY <2>4, <2>5, <2>6 DEF Abstract!Reopen
  <2>   QED  BY <2>4, <2>7 DEF Abstract!AbstractNext
<1>5. ASSUME NEW w \in Worker, Progress(w)
      PROVE  Abstract!AbstractNext \/ UNCHANGED <<PhaseOf, HolderOf, DoingOf>>
  <2>   DEFINE r == jobs[held[w].job]
  <2>1. CASE Poll(w) \/ ClaimNothing(w) \/ Stop(w)
    BY <1>1, <2>1 DEF Poll, ClaimNothing, Stop, rowVars
  <2>2. ASSUME NEW ok \in BOOLEAN, HandlerReturns(w, ok)
        PROVE  UNCHANGED <<PhaseOf, HolderOf, DoingOf>>
    BY <1>1, <2>2 DEF HandlerReturns, rowVars
  <2>3. CASE Claim(w)
    <3>1. PICK j \in DOMAIN jobs :
            /\ ~Finished(jobs[j])
            /\ jobs' = [jobs EXCEPT ![j] = ClaimedRow(@, w, at[w])]
            /\ held' = [held EXCEPT ![w] = [job |-> j, attempts |-> jobs[j].attempts + 1]]
      BY <2>3 DEF Claim, IsFirstReady, ReadyJobs, Ready
    <3>   DEFINE row == ClaimedRow(jobs[j], w, at[w])
    <3>2. row.leaseOwner = w /\ RowPhase(row) = "open"
      BY <1>0, <3>1 DEF ClaimedRow, Row, Finished, RowPhase
    <3>3. jobs' = [jobs EXCEPT ![j] = row]  BY <3>1
    <3>   HIDE DEF row
    <3>4. PhaseOf[j] = "open" /\ j \in JobId  BY <3>1, Mapped DEF Finished, RowPhase
    <3>5. PhaseOf' = [PhaseOf EXCEPT ![j] = "open"] /\ HolderOf' = [HolderOf EXCEPT ![j] = w]
      BY <3>2, <3>3, OneRow
    <3>6. UNCHANGED PhaseOf  BY <3>4, <3>5 DEF PhaseOf
    <3>7. DoingOf' = [DoingOf EXCEPT ![w] = j]  BY <1>0, <3>1 DEF DoingOf
    <3>8. DoingOf[w] = NoJob
      <4>1. held[w] = NothingClaimed  BY <2>3 DEF Claim, RInv, IdleHoldsNothing, Busy
      <4>   QED  BY <4>1, Mapped DEF NothingClaimed
    <3>9. Abstract!Take(w, j)  BY <3>4, <3>5, <3>6, <3>7, <3>8 DEF Abstract!Take
    <3>   QED  BY <3>4, <3>9 DEF Abstract!AbstractNext
  <2>4. pc[w] \in Busy => r \in Row  BY <1>0 DEF RInv, IInv, Typed, BusyHasRow
  <2>5. CASE Complete(w)
    <3>1. pc[w] \in Busy /\ Finish(w, CompletedRow(r), "JobCompleted")
      BY <2>5 DEF Complete, Busy
    <3>   QED  BY <2>4, <3>1, FinishImplements DEF CompletedRow, Row
  <2>6. CASE Fail(w)
    <3>   DEFINE later == at[w] + RetryDelay(held[w].attempts)
                 event == IF Exhausted(held[w].attempts, r) THEN "JobAbandoned" ELSE "JobFailed"
    <3>1. pc[w] \in Busy /\ Finish(w, FailedRow(r, later), event)  BY <2>6 DEF Fail, Busy
    <3>   HIDE DEF later, event
    <3>   QED  BY <2>4, <3>1, FinishImplements DEF FailedRow, Row
  <2>7. CASE Release(w)
    <3>   DEFINE event == lastEvent[held[w].job]
    <3>1. pc[w] \in Busy /\ Finish(w, ReleasedRow(r, at[w]), event)
      BY <2>7 DEF Release, Busy
    <3>2. ReleasedRow(r, at[w]).leaseOwner = NoOne  BY <2>4, <3>1 DEF ReleasedRow, Row
    <3>   HIDE DEF event
    <3>   QED  BY <3>1, <3>2, FinishImplements
  <2>   QED  BY <1>5, <2>1, <2>2, <2>3, <2>5, <2>6, <2>7 DEF Progress
<1>6. ASSUME NEW w \in Worker, ExtendLease(w)  PROVE UNCHANGED <<PhaseOf, HolderOf, DoingOf>>
  <2>   DEFINE j == held[w].job
               row == [jobs[j] EXCEPT !.leaseExpiresAt = now + Lease]
  <2>1. j \in DOMAIN jobs  BY <1>6 DEF ExtendLease, RInv, IInv, Typed, BusyHasRow, Busy
  <2>2. jobs' = [jobs EXCEPT ![j] = row] /\ UNCHANGED held  BY <1>6 DEF ExtendLease, workerVars
  <2>3. row.leaseOwner = jobs[j].leaseOwner /\ RowPhase(row) = RowPhase(jobs[j])
    BY <1>0, <2>1 DEF Row, RowPhase
  <2>   HIDE DEF row, j
  <2>4. PhaseOf[j] = RowPhase(row) /\ HolderOf[j] = row.leaseOwner
    BY <2>1, <2>3, Mapped
  <2>5. PhaseOf' = [PhaseOf EXCEPT ![j] = RowPhase(row)]
        /\ HolderOf' = [HolderOf EXCEPT ![j] = row.leaseOwner]
    BY <2>1, <2>2, OneRow
  <2>   QED  BY <2>2, <2>4, <2>5 DEF PhaseOf, HolderOf, DoingOf
<1>7. ASSUME NEW w \in Worker, Cancel(w) \/ Restart(w)
      PROVE  UNCHANGED <<PhaseOf, HolderOf, DoingOf>>
  BY <1>1, <1>7 DEF Cancel, Restart, rowVars
<1>8. ASSUME NEW w \in Worker, Crash(w)
      PROVE  Abstract!AbstractNext \/ UNCHANGED <<PhaseOf, HolderOf, DoingOf>>
  <2>1. UNCHANGED <<PhaseOf, HolderOf>>  BY <1>8 DEF Crash, rowVars, PhaseOf, HolderOf
  <2>2. DoingOf' = [DoingOf EXCEPT ![w] = NoJob]
    BY <1>0, <1>8 DEF Crash, DoingOf, NothingClaimed
  <2>3. CASE DoingOf[w] = NoJob  BY <2>1, <2>2, <2>3 DEF DoingOf
  <2>4. CASE DoingOf[w] # NoJob
    <3>1. Abstract!Drop(w)  BY <2>1, <2>2, <2>4 DEF Abstract!Drop
    <3>   QED  BY <3>1 DEF Abstract!AbstractNext
  <2>   QED  BY <2>3, <2>4
<1>9. CASE UNCHANGED vars  BY <1>1, <1>9 DEF vars
<1>   QED  BY <1>2, <1>3, <1>4, <1>5, <1>6, <1>7, <1>8, <1>9 DEF Next

\* Leases, clocks, deaths and late reports notwithstanding, the table behaves
\* as WorkQueue: one holder at a time, and only the holder settles a job.
THEOREM Implements == Spec => ImplementsWorkQueue
<1>1. Init => RInv
  BY QueueAssumption
  DEF Init, RInv, IInv, Typed, TypeOK, BusyHasRow, Step, Busy, Claimed, NothingClaimed, NoJob,
      ReadingsPast, RowsConsistent, OwnerHasLatestAttempt, EventsMatchRows, IdleHoldsNothing
<1>2. RInv /\ [Next]_vars => RInv'
  BY StepTypes, StepReadings, StepSafe, StepRInv DEF RInv, IInv
<1>3. Init => Abstract!AbstractInit
  BY DEF Init, Abstract!AbstractInit, PhaseOf, HolderOf, DoingOf, NothingClaimed
<1>   QED
  BY <1>1, <1>2, <1>3, StepImplements, PTL DEF Spec, ImplementsWorkQueue, Abstract!AbstractSpec
================================================================================
