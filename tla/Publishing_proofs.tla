--------------------------- MODULE Publishing_proofs ---------------------------
(***************************************************************************)
(* What the publisher guarantees for every number of workers, documents,   *)
(* channels and addresses, whatever fails and whoever is overtaken: the    *)
(* rows keep addresses apart, and what is live is recorded.  And what the  *)
(* tree has while nothing has failed, by the second half of the module: it *)
(* is what the rows record, and no file is there that nothing will remove. *)
(*                                                                         *)
(* The last part is about Cascade: what a request schedules with the       *)
(* document somebody asked to publish.                                     *)
(***************************************************************************)
EXTENDS Publishing, Cascade, FiniteSetTheorems, SequenceTheorems, TLAPS

--------------------------------------------------------------------------------
(* The invariant                                                              *)

Rows ==
  /\ newest \in [Document -> Nat]
  /\ live \in [Document -> Nat]
  /\ resources \subseteq Resource /\ IsFiniteSet(resources)

\* A job to publish names a version that was checked in, and some channel.
Pinned(job) == job.kind = "publish" => job.version \in 1..newest[job.document] /\ job.channels # {}

Jobs == jobs \in Seq(JobType) /\ \A j \in DOMAIN jobs : Pinned(jobs[j])

Fields == {"step", "job", "pages", "todo", "undo", "order", "temp", "renamed"}

\* What is about to be recorded is one page for each channel of the job, of the
\* job's document in the job's version.
Covers(b, queue) ==
  b.step \in {"rendered", "writing"} =>
    /\ b.job \in DOMAIN queue /\ queue[b.job].kind = "publish"
    /\ b.pages # {} /\ b.pages \subseteq Resource /\ IsFiniteSet(b.pages)
    /\ \A r \in b.pages : r.document = queue[b.job].document /\ r.version = queue[b.job].version
    /\ \A r, s \in b.pages : r.channel = s.channel => r = s

Batches ==
  /\ DOMAIN batch = Worker
  /\ \A w \in Worker : DOMAIN batch[w] = Fields /\ Covers(batch[w], jobs)

\* Who writes does so alone, and at addresses that are nobody else's.
WritesAlone ==
  \A w \in Writing : (\A v \in Writing : v = w) /\ \A r \in batch[w].pages : ~Taken(r)

PInv == Rows /\ Jobs /\ Batches /\ WritesAlone /\ OneAddressPerChannel /\ LiveIsRecorded

LEMMA InitPInv == Init => PInv
BY FS_EmptySet DEF Init, PInv, Rows, Jobs, Batches, WritesAlone, OneAddressPerChannel, LiveIsRecorded,
   Idle, Fields, Covers, Writing

--------------------------------------------------------------------------------
(* Steps that record nothing                                                  *)

\* Jobs are added and run; what they are about stays.
JobsStay ==
  /\ jobs' \in Seq(JobType) /\ DOMAIN jobs \subseteq DOMAIN jobs'
  /\ \A j \in DOMAIN jobs' : Pinned(jobs'[j])
  /\ \A j \in DOMAIN jobs : jobs[j].kind = "publish" =>
       /\ jobs'[j].kind = "publish"
       /\ jobs'[j].document = jobs[j].document /\ jobs'[j].version = jobs[j].version

\* A batch with a new step, say, about the same pages.
Alike(b, c) == DOMAIN b = DOMAIN c /\ b.job = c.job /\ b.pages = c.pages

\* A worker's batch becomes another: one that writes did so before, or nobody
\* did and its addresses are free.
Becomes(w) ==
  /\ DOMAIN batch' = Worker /\ \A v \in Worker \ {w} : batch'[v] = batch[v]
  /\ DOMAIN batch'[w] = Fields /\ Covers(batch'[w], jobs')
  /\ batch'[w].step = "writing" =>
       /\ batch[w].step = "writing" \/ Writing = {}
       /\ batch[w].step = "writing" => batch'[w].pages = batch[w].pages
       /\ batch[w].step # "writing" => \A r \in batch'[w].pages : ~Taken(r)

LEMMA CoversStays ==
  ASSUME PInv, JobsStay, NEW b, Covers(b, jobs)
  PROVE  Covers(b, jobs')
BY DEF Covers, JobsStay

LEMMA BecomesPInv ==
  ASSUME PInv, NEW w \in Worker, UNCHANGED rowVars, JobsStay, Becomes(w)
  PROVE  PInv'
<1>1. Rows' /\ OneAddressPerChannel' /\ LiveIsRecorded'
      BY DEF PInv, Rows, OneAddressPerChannel, LiveIsRecorded, rowVars
<1>2. Jobs'
      BY DEF JobsStay, Jobs, Pinned, rowVars
<1>3. ASSUME NEW v \in Worker
      PROVE  DOMAIN batch'[v] = Fields /\ Covers(batch'[v], jobs')
  <2>1. CASE v = w
        BY <2>1 DEF Becomes
  <2>2. CASE v # w
    <3>1. batch'[v] = batch[v] /\ DOMAIN batch[v] = Fields /\ Covers(batch[v], jobs)
          BY <2>2 DEF Becomes, PInv, Batches
    <3>   QED  BY <3>1, CoversStays
  <2>   QED  BY <2>1, <2>2
<1>4. Batches'
      BY <1>3 DEF Batches, Becomes
<1>5. \A r : Taken(r)' <=> Taken(r)
      BY DEF Taken, rowVars
<1>6. ASSUME NEW u \in Writing', NEW v \in Writing'
      PROVE  u = v
  <2>1. CASE u # w /\ v # w
        BY <2>1, <1>6 DEF Becomes, Writing, PInv, WritesAlone
  <2>2. CASE u = w \/ v = w
        BY <2>2, <1>6 DEF Becomes, Writing, PInv, WritesAlone
  <2>   QED  BY <2>1, <2>2
<1>7. ASSUME NEW v \in Writing', NEW r \in batch'[v].pages
      PROVE  ~Taken(r)
      BY <1>7 DEF Becomes, Writing, PInv, WritesAlone
<1>8. WritesAlone'
      BY <1>5, <1>6, <1>7 DEF WritesAlone
<1>   QED  BY <1>1, <1>2, <1>4, <1>8 DEF PInv

LEMMA SameJobsStay ==
  ASSUME PInv, UNCHANGED <<jobs, rowVars>>
  PROVE  JobsStay
BY DEF PInv, Jobs, JobsStay, Pinned, rowVars

\* The step of a batch changes, and what is neither its job nor its pages.
LEMMA AlikePInv ==
  ASSUME PInv, NEW w \in Worker, UNCHANGED <<jobs, rowVars>>,
         DOMAIN batch' = Worker, \A v \in Worker \ {w} : batch'[v] = batch[v],
         Alike(batch'[w], batch[w]),
         batch'[w].step \in {"rendered", "writing"} => batch[w].step \in {"rendered", "writing"},
         batch'[w].step = "writing" =>
           batch[w].step = "writing" \/ (Writing = {} /\ \A r \in batch[w].pages : ~Taken(r))
  PROVE  PInv'
<1>1. DOMAIN batch[w] = Fields /\ Covers(batch[w], jobs)
      BY DEF PInv, Batches
<1>2. Covers(batch'[w], jobs')
      BY <1>1 DEF Covers, Alike
<1>3. Becomes(w)
      BY <1>1, <1>2 DEF Becomes, Alike, Writing
<1>   QED  BY <1>3, SameJobsStay, BecomesPInv DEF rowVars

LEMMA BatchOf ==
  ASSUME PInv, NEW w \in Worker
  PROVE  DOMAIN batch = Worker /\ DOMAIN batch[w] = Fields /\ Covers(batch[w], jobs)
BY DEF PInv, Batches

LEMMA OpenTxPInv ==
  ASSUME PInv, NEW w \in Worker, OpenTx(w)
  PROVE  PInv'
<1>1. /\ UNCHANGED <<jobs, rowVars>> /\ batch[w].step = "rendered"
      /\ DOMAIN batch' = Worker /\ \A v \in Worker \ {w} : batch'[v] = batch[v]
      /\ Alike(batch'[w], batch[w])
      BY BatchOf DEF OpenTx, Alike, Fields, rowVars
<1>2. batch'[w].step = "writing" => Writing = {} /\ \A r \in batch[w].pages : ~Taken(r)
      BY BatchOf DEF OpenTx, Fields
<1>   QED  BY <1>1, <1>2, AlikePInv

LEMMA WritingPInv ==
  ASSUME PInv, NEW w \in Worker,
         \/ \E r \in batch[w].todo : ReadOld(w, r)
         \/ CreateTemp(w) \/ RenameTemp(w) \/ SweepTemp(w) \/ WriteFails(w)
  PROVE  PInv'
<1>1. /\ UNCHANGED <<jobs, rowVars>>
      /\ DOMAIN batch' = Worker /\ \A v \in Worker \ {w} : batch'[v] = batch[v]
      /\ Alike(batch'[w], batch[w])
      /\ batch'[w].step = batch[w].step \/ batch'[w].step = "undoing"
  <2>1. CASE \E r \in batch[w].todo : ReadOld(w, r)
    <3>1. PICK r \in batch[w].todo : ReadOld(w, r)
          BY <2>1
    <3>2. CASE r.path \in DOMAIN batch[w].undo
          BY <3>1, <3>2, BatchOf DEF ReadOld, Alike, Fields, rowVars
    <3>3. CASE r.path \notin DOMAIN batch[w].undo
          BY <3>1, <3>3, BatchOf DEF ReadOld, Alike, Fields, rowVars
    <3>   QED  BY <3>2, <3>3
  <2>2. CASE CreateTemp(w)
        BY <2>2, BatchOf DEF CreateTemp, Alike, Fields, rowVars
  <2>3. CASE RenameTemp(w)
        BY <2>3, BatchOf DEF RenameTemp, Alike, Fields, rowVars
  <2>4. CASE SweepTemp(w)
        BY <2>4, BatchOf DEF SweepTemp, Alike, Fields, rowVars
  <2>5. CASE WriteFails(w)
        BY <2>5, BatchOf DEF WriteFails, Alike, Fields, rowVars
  <2>   QED  BY <2>1, <2>2, <2>3, <2>4, <2>5
<1>   QED  BY <1>1, AlikePInv

\* Rolling back, and an expire job: neither has rows to record.
LEMMA ElsewherePInv ==
  ASSUME PInv, NEW w \in Worker,
         \/ \E p \in batch[w].order : UndoRemove(w, p) \/ UndoTemp(w, p) \/ UndoFails(w, p)
         \/ UndoRename(w) \/ RemoveFile(w) \/ RemoveFails(w) \/ RecordExpiry(w)
  PROVE  PInv'
<1>1. /\ UNCHANGED <<jobs, rowVars>>
      /\ DOMAIN batch' = Worker /\ \A v \in Worker \ {w} : batch'[v] = batch[v]
      /\ Alike(batch'[w], batch[w])
      /\ batch'[w].step \notin {"rendered", "writing"}
  <2>1. CASE \E p \in batch[w].order : UndoRemove(w, p)
        BY <2>1, BatchOf DEF UndoRemove, Alike, Fields, rowVars
  <2>2. CASE \E p \in batch[w].order : UndoTemp(w, p)
        BY <2>2, BatchOf DEF UndoTemp, Alike, Fields, rowVars
  <2>3. CASE \E p \in batch[w].order : UndoFails(w, p)
        BY <2>3, BatchOf DEF UndoFails, Alike, Fields, rowVars
  <2>4. CASE UndoRename(w)
        BY <2>4, BatchOf DEF UndoRename, Alike, Fields, rowVars
  <2>5. CASE RemoveFile(w)
        BY <2>5, BatchOf DEF RemoveFile, Alike, Fields, rowVars
  <2>6. CASE RemoveFails(w)
        BY <2>6, BatchOf DEF RemoveFails, Alike, Fields, rowVars
  <2>7. CASE RecordExpiry(w)
        BY <2>7, BatchOf DEF RecordExpiry, Alike, Fields, rowVars
  <2>   QED  BY <2>1, <2>2, <2>3, <2>4, <2>5, <2>6, <2>7
<1>   QED  BY <1>1, AlikePInv

LEMMA GivingUpPInv ==
  ASSUME PInv, NEW w \in Worker, RenderFails(w) \/ Undone(w)
  PROVE  PInv'
<1>1. /\ UNCHANGED <<jobs, rowVars>>
      /\ batch' = [batch EXCEPT ![w] = [Idle EXCEPT !.step = "failed", !.job = batch[w].job]]
      BY DEF RenderFails, Undone, rowVars
<1>2. Becomes(w)
      BY <1>1, BatchOf DEF Becomes, Idle, Fields, Covers
<1>   QED  BY <1>1, <1>2, SameJobsStay, BecomesPInv DEF rowVars

LEMMA JobOf ==
  ASSUME PInv, NEW j \in DOMAIN jobs
  PROVE  jobs[j] \in JobType /\ Pinned(jobs[j])
BY DEF PInv, Jobs

\* A claim and a report change the runner, and whether the job is open.
LEMMA RunsJobsStay ==
  ASSUME PInv, UNCHANGED rowVars, DOMAIN jobs' = DOMAIN jobs,
         jobs' = [j \in DOMAIN jobs |-> jobs'[j]],
         \A j \in DOMAIN jobs : \E runner \in Worker \cup {NoOne}, open \in BOOLEAN :
           jobs'[j] = [jobs[j] EXCEPT !.open = open, !.runner = runner]
  PROVE  JobsStay
<1>1. jobs \in Seq(JobType) /\ Len(jobs) \in Nat /\ DOMAIN jobs = 1..Len(jobs)
      BY LenProperties DEF PInv, Jobs
<1>2. ASSUME NEW j \in DOMAIN jobs
      PROVE  /\ jobs'[j] \in JobType /\ jobs'[j].kind = jobs[j].kind /\ Pinned(jobs[j])
             /\ jobs[j].kind = "publish" =>
                  /\ jobs'[j].document = jobs[j].document /\ jobs'[j].version = jobs[j].version
                  /\ jobs'[j].channels = jobs[j].channels
  <2>1. jobs[j] \in JobType /\ Pinned(jobs[j])
        BY JobOf
  <2>2. PICK runner \in Worker \cup {NoOne}, open \in BOOLEAN :
          jobs'[j] = [jobs[j] EXCEPT !.open = open, !.runner = runner]
        OBVIOUS
  <2>   QED  BY <2>1, <2>2 DEF JobType
<1>3. jobs' \in [1..Len(jobs) -> JobType]
      BY <1>1, <1>2
<1>4. jobs' \in Seq(JobType)
      BY <1>1, <1>3, SeqDef
<1>5. ASSUME NEW j \in DOMAIN jobs
      PROVE  Pinned(jobs'[j])
      BY <1>2 DEF Pinned, rowVars
<1>   QED  BY <1>2, <1>4, <1>5 DEF JobsStay

LEMMA RunnerJobsStay ==
  ASSUME PInv, UNCHANGED rowVars, NEW k, NEW runner \in Worker \cup {NoOne}, NEW open \in BOOLEAN,
         jobs' = [jobs EXCEPT ![k].open = open, ![k].runner = runner]
  PROVE  JobsStay
<1>1. jobs' = [j \in DOMAIN jobs |-> jobs'[j]] /\ DOMAIN jobs' = DOMAIN jobs
      OBVIOUS
<1>2. ASSUME NEW j \in DOMAIN jobs
      PROVE  \E run \in Worker \cup {NoOne}, on \in BOOLEAN :
               jobs'[j] = [jobs[j] EXCEPT !.open = on, !.runner = run]
  <2>1. CASE j = k
        BY <2>1
  <2>2. CASE j # k
    <3>1. jobs[j] \in JobType
          BY DEF PInv, Jobs
    <3>2. jobs'[j] = [jobs[j] EXCEPT !.open = jobs[j].open, !.runner = jobs[j].runner]
          BY <2>2, <3>1 DEF JobType
    <3>   QED  BY <3>1, <3>2 DEF JobType
  <2>   QED  BY <2>1, <2>2
<1>   QED  BY <1>1, <1>2, RunsJobsStay

LEMMA ReportPInv ==
  ASSUME PInv, NEW w \in Worker, Report(w)
  PROVE  PInv'
<1>1. UNCHANGED rowVars /\ JobsStay
  <2>1. UNCHANGED rowVars
        BY DEF Report
  <2>2. CASE UNCHANGED jobs
        BY <2>1, <2>2, SameJobsStay DEF rowVars
  <2>3. CASE ~UNCHANGED jobs
        BY <2>1, <2>3, RunnerJobsStay DEF Report
  <2>   QED  BY <2>1, <2>2, <2>3
<1>2. Becomes(w)
      BY BatchOf DEF Report, Becomes, Idle, Fields, Covers
<1>   QED  BY <1>1, <1>2, BecomesPInv

LEMMA ClaimJobsStay ==
  ASSUME PInv, UNCHANGED rowVars, NEW w \in Worker, NEW j \in DOMAIN jobs, NEW kind, Claim(w, j, kind)
  PROVE  JobsStay
<1>1. jobs[j] \in JobType
      BY DEF PInv, Jobs
<1>2. jobs' = [jobs EXCEPT ![j].open = jobs[j].open, ![j].runner = w]
      BY <1>1 DEF Claim, JobType
<1>   QED  BY <1>1, <1>2, RunnerJobsStay DEF JobType

LEMMA StartExpirePInv ==
  ASSUME PInv, NEW w \in Worker, NEW j \in DOMAIN jobs, StartExpire(w, j)
  PROVE  PInv'
<1>1. UNCHANGED rowVars /\ JobsStay
      BY ClaimJobsStay DEF StartExpire
<1>2. Becomes(w)
      BY BatchOf DEF StartExpire, Becomes, Idle, Fields, Covers
<1>   QED  BY <1>1, <1>2, BecomesPInv

LEMMA RenderPInv ==
  ASSUME PInv, NEW w \in Worker, NEW j \in DOMAIN jobs, Render(w, j)
  PROVE  PInv'
<1>1. UNCHANGED rowVars /\ JobsStay
      BY ClaimJobsStay DEF Render
<1>2. jobs[j] \in JobType /\ Pinned(jobs[j]) /\ jobs[j].kind = "publish"
      BY DEF PInv, Jobs, Render, Claim
<1>3. /\ jobs[j].document \in Document /\ jobs[j].version \in Nat
      /\ jobs[j].channels \subseteq Channel /\ jobs[j].channels # {}
      BY <1>2 DEF JobType, Pinned
<1>4. PICK at \in [jobs[j].channels -> Address], file \in [jobs[j].channels -> Path] :
        LET pages == {[document |-> jobs[j].document, channel |-> c, uri |-> at[c],
                       path |-> file[c], version |-> jobs[j].version] : c \in jobs[j].channels}
        IN batch' = [batch EXCEPT ![w] =
             [Idle EXCEPT !.step = "rendered", !.job = j, !.pages = pages, !.todo = pages]]
      BY DEF Render
<1>   DEFINE page(c) == [document |-> jobs[j].document, channel |-> c, uri |-> at[c],
                         path |-> file[c], version |-> jobs[j].version]
             pages   == {page(c) : c \in jobs[j].channels}
<1>5. IsFiniteSet(pages)
  <2>1. IsFiniteSet(jobs[j].channels)
        BY <1>3, PublishingAssumption, FS_Subset
  <2>2. [c \in jobs[j].channels |-> page(c)] \in Surjection(jobs[j].channels, pages)
        BY DEF Surjection
  <2>   QED  BY <2>1, <2>2, FS_Surjection
<1>6. /\ pages # {} /\ pages \subseteq Resource
      /\ \A r \in pages : r.document = jobs[j].document /\ r.version = jobs[j].version
      /\ \A r, s \in pages : r.channel = s.channel => r = s
  <2>1. \A c \in jobs[j].channels : page(c) \in Resource
        BY <1>3 DEF Resource
  <2>2. PICK c \in jobs[j].channels : TRUE
        BY <1>3
  <2>3. page(c) \in pages
        OBVIOUS
  <2>4. ASSUME NEW r \in pages
        PROVE  r \in Resource /\ r = page(r.channel)
    <3>1. PICK e \in jobs[j].channels : r = page(e)
          OBVIOUS
    <3>   QED  BY <2>1, <3>1
  <2>   HIDE DEF pages
  <2>   QED  BY <2>3, <2>4
<1>   HIDE DEF pages
<1>7. /\ DOMAIN batch' = Worker /\ \A v \in Worker \ {w} : batch'[v] = batch[v]
      /\ DOMAIN batch'[w] = Fields
      /\ batch'[w].step = "rendered" /\ batch'[w].job = j /\ batch'[w].pages = pages
  <2>1. batch' = [batch EXCEPT ![w] =
          [Idle EXCEPT !.step = "rendered", !.job = j, !.pages = pages, !.todo = pages]]
        BY <1>4 DEF pages
  <2>   QED  BY <2>1, BatchOf DEF Idle, Fields
<1>8. Covers(batch'[w], jobs)
      BY <1>2, <1>5, <1>6, <1>7 DEF Covers
<1>9. Becomes(w)
      BY <1>1, <1>7, <1>8, CoversStays DEF Becomes
<1>   QED  BY <1>1, <1>9, BecomesPInv

--------------------------------------------------------------------------------
(* Steps of everybody                                                         *)

LEMMA CrashPInv ==
  ASSUME PInv, Crash
  PROVE  PInv'
<1>1. UNCHANGED rowVars /\ batch' = [w \in Worker |-> Idle]
      /\ jobs' = [j \in DOMAIN jobs |-> [jobs[j] EXCEPT !.runner = NoOne]]
      BY DEF Crash
<1>2. ASSUME NEW j \in DOMAIN jobs
      PROVE  \E run \in Worker \cup {NoOne}, on \in BOOLEAN :
               jobs'[j] = [jobs[j] EXCEPT !.open = on, !.runner = run]
  <2>1. jobs[j] \in JobType
        BY DEF PInv, Jobs
  <2>2. jobs'[j] = [jobs[j] EXCEPT !.open = jobs[j].open, !.runner = NoOne]
        BY <1>1, <2>1 DEF JobType
  <2>   QED  BY <2>1, <2>2 DEF JobType
<1>3. JobsStay
      BY <1>1, <1>2, RunsJobsStay
<1>4. Batches' /\ WritesAlone'
      BY <1>1 DEF Batches, WritesAlone, Writing, Idle, Fields, Covers
<1>5. Jobs' /\ Rows' /\ OneAddressPerChannel' /\ LiveIsRecorded'
      BY <1>1, <1>3 DEF PInv, Rows, JobsStay, Jobs, OneAddressPerChannel, LiveIsRecorded, rowVars, Pinned
<1>   QED  BY <1>4, <1>5 DEF PInv

LEMMA CheckInPInv ==
  ASSUME PInv, NEW d \in Document, CheckIn(d)
  PROVE  PInv'
<1>1. /\ UNCHANGED <<live, resources, jobs, batch>>
      /\ newest' \in [Document -> Nat] /\ \A e \in Document : newest[e] <= newest'[e]
      BY DEF CheckIn, PInv, Rows
<1>2. Rows' /\ OneAddressPerChannel' /\ Batches' /\ WritesAlone'
      BY <1>1 DEF PInv, Rows, OneAddressPerChannel, Batches, Covers, WritesAlone, Writing, Taken
<1>3. Jobs'
  <2>1. ASSUME NEW j \in DOMAIN jobs, jobs[j].kind = "publish"
        PROVE  Pinned(jobs[j])'
    <3>1. jobs[j] \in JobType /\ Pinned(jobs[j])
          BY DEF PInv, Jobs
    <3>2. jobs[j].document \in Document
          BY <2>1, <3>1 DEF JobType
    <3>   QED  BY <1>1, <2>1, <3>1, <3>2 DEF Pinned, PInv, Rows
  <2>   QED  BY <1>1, <2>1 DEF PInv, Jobs, Pinned
<1>4. LiveIsRecorded'
      BY <1>1 DEF PInv, Rows, Resource, LiveIsRecorded
<1>   QED  BY <1>2, <1>3, <1>4 DEF PInv

LEMMA SchedulePInv ==
  ASSUME PInv, NEW d \in Document, NEW channels \in Selection, Schedule(d, channels)
  PROVE  PInv'
<1>   DEFINE job == [kind |-> "publish", document |-> d, version |-> newest[d],
                     channels |-> channels, open |-> TRUE, runner |-> NoOne]
<1>1. UNCHANGED <<rowVars, batch>> /\ jobs' = Append(jobs, job) /\ newest[d] > 0
      BY DEF Schedule, rowVars
<1>2. job \in JobType /\ Pinned(job)
      BY <1>1, PublishingAssumption DEF JobType, Pinned, PInv, Rows
<1>   HIDE DEF job
<1>3. JobsStay
  <2>1. jobs \in Seq(JobType) /\ \A j \in DOMAIN jobs : Pinned(jobs[j])
        BY DEF PInv, Jobs
  <2>2. /\ jobs' \in Seq(JobType) /\ DOMAIN jobs' = 1..(Len(jobs) + 1) /\ DOMAIN jobs = 1..Len(jobs)
        /\ \A j \in 1..Len(jobs) : jobs'[j] = jobs[j]
        /\ jobs'[Len(jobs) + 1] = job /\ Len(jobs) \in Nat
        BY <1>1, <1>2, <2>1
  <2>3. \A j \in DOMAIN jobs' : Pinned(jobs'[j])
        BY <1>2, <2>1, <2>2
  <2>   QED  BY <1>1, <2>2, <2>3 DEF JobsStay, Pinned, rowVars
<1>4. Batches'
      BY <1>1, <1>3, CoversStays DEF PInv, Batches
<1>5. Jobs'
      BY <1>1, <1>3 DEF JobsStay, Jobs, Pinned, rowVars
<1>6. Rows' /\ OneAddressPerChannel' /\ LiveIsRecorded' /\ WritesAlone'
      BY <1>1 DEF PInv, Rows, OneAddressPerChannel, LiveIsRecorded, rowVars, WritesAlone, Writing, Taken
<1>   QED  BY <1>4, <1>5, <1>6 DEF PInv

--------------------------------------------------------------------------------
(* The commit                                                                 *)

\* What the batch that commits is: a page for each channel of its job.
LEMMA CommittedFacts ==
  ASSUME PInv, NEW w \in Worker, batch[w].step = "writing"
  PROVE  LET b == batch[w]  j == jobs[b.job] IN
         /\ b.job \in DOMAIN jobs /\ j.kind = "publish" /\ j.document \in Document
         /\ j.version \in 1..newest[j.document] /\ newest[j.document] \in Nat
         /\ b.pages # {} /\ b.pages \subseteq Resource /\ IsFiniteSet(b.pages)
         /\ \A r \in b.pages : r.document = j.document /\ r.version = j.version
         /\ \A r, s \in b.pages : r.channel = s.channel => r = s
         /\ \A r \in b.pages : ~Taken(r)
<1>1. Covers(batch[w], jobs)
      BY BatchOf
<1>2. batch[w].job \in DOMAIN jobs /\ jobs[batch[w].job].kind = "publish"
      BY <1>1 DEF Covers
<1>3. jobs[batch[w].job] \in JobType /\ Pinned(jobs[batch[w].job])
      BY <1>2 DEF PInv, Jobs
<1>4. jobs[batch[w].job].document \in Document
      BY <1>2, <1>3 DEF JobType
<1>5. newest[jobs[batch[w].job].document] \in Nat
      BY <1>4 DEF PInv, Rows
<1>6. \A r \in batch[w].pages : ~Taken(r)
      BY DEF PInv, WritesAlone, Writing
<1>   QED  BY <1>1, <1>2, <1>3, <1>4, <1>5, <1>6 DEF Covers, Pinned

\* A row that stays and a page never share an address, or a document and channel.
LEMMA CommitKeepsApart ==
  ASSUME PInv, NEW w \in Worker, CommitTx(w)
  PROVE  OneAddressPerChannel'
<1>1. resources' = (resources \ Superseded(w)) \cup batch[w].pages /\ batch[w].step = "writing"
      BY DEF CommitTx
<1>2. ASSUME NEW r \in resources \ Superseded(w), NEW s \in batch[w].pages, r.channel = s.channel
      PROVE  r.document # s.document /\ r.uri # s.uri
  <2>1. r.document # s.document
        BY <1>2 DEF Superseded
  <2>2. ~Taken(s)
        BY <1>1, CommittedFacts
  <2>   QED  BY <1>2, <2>1, <2>2 DEF Taken
<1>3. ASSUME NEW r \in resources', NEW s \in resources', r.channel = s.channel,
             r.document = s.document \/ r.uri = s.uri
      PROVE  r = s
  <2>1. CASE r \in batch[w].pages /\ s \in batch[w].pages
        BY <1>1, <1>3, <2>1, CommittedFacts
  <2>2. CASE r \in resources \ Superseded(w) /\ s \in resources \ Superseded(w)
        BY <1>3, <2>2 DEF PInv, OneAddressPerChannel
  <2>   QED  BY <1>1, <1>2, <1>3, <2>1, <2>2
<1>   QED  BY <1>3 DEF OneAddressPerChannel

LEMMA CommitRecordsLive ==
  ASSUME PInv, NEW w \in Worker, CommitTx(w)
  PROVE  LiveIsRecorded' /\ Rows'
<1>   DEFINE b == batch[w]
             j == jobs[b.job]
<1>1. /\ resources' = (resources \ Superseded(w)) \cup b.pages /\ b.step = "writing"
      /\ live' = [live EXCEPT ![j.document] = j.version] /\ newest' = newest
      BY DEF CommitTx
<1>2. /\ j.document \in Document /\ j.version \in 1..newest[j.document] /\ newest[j.document] \in Nat
      /\ b.pages # {} /\ b.pages \subseteq Resource /\ IsFiniteSet(b.pages)
      /\ \A r \in b.pages : r.document = j.document /\ r.version = j.version
      BY <1>1, CommittedFacts
<1>3. /\ newest \in [Document -> Nat] /\ live \in [Document -> Nat]
      /\ resources \subseteq Resource /\ IsFiniteSet(resources)
      BY DEF PInv, Rows
<1>   HIDE DEF b, j
<1>4. Rows'
  <2>1. IsFiniteSet(resources')
        BY <1>1, <1>2, <1>3, FS_Subset, FS_Union
  <2>   QED  BY <1>1, <1>2, <1>3, <2>1 DEF Rows
<1>5. live'[j.document] = j.version /\ \A d \in Document \ {j.document} : live'[d] = live[d]
      BY <1>1, <1>2, <1>3
<1>6. ASSUME NEW d \in Document, live'[d] # 0
      PROVE  \E r \in resources' : r.document = d /\ r.version = live'[d]
  <2>1. CASE d = j.document
        BY <1>1, <1>2, <1>5, <2>1
  <2>2. CASE d # j.document
    <3>1. PICK r \in resources : r.document = d /\ r.version = live[d]
          BY <1>5, <1>6, <2>2 DEF PInv, LiveIsRecorded
    <3>2. r \notin Superseded(w)
          BY <1>2, <2>2, <3>1 DEF Superseded, b
    <3>   QED  BY <1>1, <1>5, <2>2, <3>1, <3>2
  <2>   QED  BY <2>1, <2>2
<1>7. ASSUME NEW r \in resources'
      PROVE  r.version \in 1..newest[r.document] /\ live'[r.document] # 0
  <2>1. CASE r \in b.pages
        BY <1>2, <1>5, <2>1
  <2>2. CASE r \in resources
    <3>1. r.document \in Document /\ r.version \in 1..newest[r.document] /\ live[r.document] # 0
          BY <1>3, <2>2 DEF PInv, LiveIsRecorded, Resource
    <3>   QED  BY <1>2, <1>5, <3>1
  <2>   QED  BY <1>1, <2>1, <2>2
<1>8. LiveIsRecorded'
      BY <1>1, <1>6, <1>7 DEF LiveIsRecorded
<1>   QED  BY <1>4, <1>8

\* Finitely many files go.
LEMMA StalePaths ==
  ASSUME PInv, NEW w \in Worker
  PROVE  LET paths == {r.path : r \in Stale(w)} IN
         Cardinality(paths) \in Nat /\ paths \subseteq Path
<1>   DEFINE paths == {r.path : r \in Stale(w)}
<1>1. Stale(w) \subseteq Resource /\ IsFiniteSet(Stale(w))
  <2>1. Stale(w) \subseteq resources
        BY DEF Stale, Superseded
  <2>   QED  BY <2>1, FS_Subset DEF PInv, Rows
<1>2. Cardinality(paths) \in Nat
  <2>1. [r \in Stale(w) |-> r.path] \in Surjection(Stale(w), paths)
        BY DEF Surjection
  <2>2. IsFiniteSet(paths)
        BY <1>1, <2>1, FS_Surjection
  <2>   QED  BY <2>2, FS_CardinalityType
<1>3. paths \subseteq Path
      BY <1>1 DEF Resource
<1>   QED  BY <1>2, <1>3

\* The jobs that are there stay where they are, and an expire job follows for
\* each file that goes.
LEMMA CommitJobsStay ==
  ASSUME PInv, NEW w \in Worker, CommitTx(w)
  PROVE  /\ Jobs' /\ \A k \in DOMAIN jobs : k \in DOMAIN jobs' /\ jobs'[k] = jobs[k]
         /\ \A r \in Stale(w) : \E k \in DOMAIN jobs' \ DOMAIN jobs :
              jobs'[k] = [kind |-> "expire", path |-> r.path, open |-> TRUE, runner |-> NoOne]
<1>   DEFINE paths == {r.path : r \in Stale(w)}
             expire(p) == [kind |-> "expire", path |-> p, open |-> TRUE, runner |-> NoOne]
<1>1. PICK order \in [1..Cardinality(paths) -> paths] :
        /\ \A p \in paths : \E i \in DOMAIN order : order[i] = p
        /\ jobs' = jobs \o [i \in DOMAIN order |-> expire(order[i])]
      BY DEF CommitTx
<1>2. \A r \in Stale(w) : r.path \in paths
      OBVIOUS
<1>3. Cardinality(paths) \in Nat
      BY StalePaths
<1>4. paths \subseteq Path
      BY StalePaths
<1>   HIDE DEF paths
<1>   DEFINE new == [i \in DOMAIN order |-> expire(order[i])]
<1>5. \A p \in Path : expire(p) \in JobType /\ expire(p).kind = "expire"
      BY DEF JobType
<1>6. new \in [1..Cardinality(paths) -> JobType]
      BY <1>1, <1>4, <1>5
<1>7. new \in Seq(JobType) /\ Len(new) = Cardinality(paths) /\ DOMAIN new = 1..Cardinality(paths)
  <2>1. new \in Seq(JobType)
        BY <1>3, <1>6, SeqDef
  <2>   QED  BY <1>3, <1>6, <2>1, LenProperties
<1>8. \A i \in DOMAIN new : new[i].kind = "expire"
      BY <1>1, <1>4, <1>5
<1>   HIDE DEF new
<1>9. jobs \in Seq(JobType) /\ \A k \in DOMAIN jobs : Pinned(jobs[k])
      BY DEF PInv, Jobs
<1>10. jobs' = jobs \o new
      BY <1>1 DEF new
<1>11. /\ jobs' \in Seq(JobType) /\ DOMAIN jobs' = 1..(Len(jobs) + Len(new)) /\ Len(jobs) \in Nat
       /\ DOMAIN jobs = 1..Len(jobs)
       /\ \A k \in 1..Len(jobs) : jobs'[k] = jobs[k]
       /\ \A k \in (Len(jobs) + 1)..(Len(jobs) + Len(new)) : jobs'[k] = new[k - Len(jobs)]
      BY <1>7, <1>9, <1>10
<1>12. ASSUME NEW k \in DOMAIN jobs'
       PROVE  jobs'[k].kind # "publish" \/ (k \in DOMAIN jobs /\ jobs'[k] = jobs[k])
  <2>1. CASE k \in 1..Len(jobs)
        BY <1>11, <2>1
  <2>2. CASE k \notin 1..Len(jobs)
    <3>1. k \in (Len(jobs) + 1)..(Len(jobs) + Len(new)) /\ k - Len(jobs) \in DOMAIN new
          BY <1>3, <1>7, <1>11, <1>12, <2>2
    <3>   QED  BY <1>8, <1>11, <3>1
  <2>   QED  BY <2>1, <2>2
<1>13. newest' = newest
      BY DEF CommitTx
<1>14. \A k \in DOMAIN jobs' : Pinned(jobs'[k])
      BY <1>9, <1>12 DEF Pinned
<1>15. \A k \in DOMAIN jobs : k \in DOMAIN jobs' /\ jobs'[k] = jobs[k]
      BY <1>3, <1>7, <1>11
<1>16. ASSUME NEW r \in Stale(w)
       PROVE  \E k \in DOMAIN jobs' \ DOMAIN jobs : jobs'[k] = expire(r.path)
  <2>1. PICK i \in 1..Cardinality(paths) : order[i] = r.path
        BY <1>1, <1>2
  <2>2. new[i] = expire(r.path)
        BY <1>1, <2>1 DEF new
  <2>3. Len(jobs) + i \in DOMAIN jobs' \ DOMAIN jobs /\ jobs'[Len(jobs) + i] = new[i]
    <3>1. i \in 1..Len(new) /\ Len(new) \in Nat /\ Len(jobs) \in Nat
          BY <1>3, <1>7, <1>11
    <3>2. /\ Len(jobs) + i \in (Len(jobs) + 1)..(Len(jobs) + Len(new))
          /\ (Len(jobs) + i) - Len(jobs) = i
          BY <3>1
    <3>3. Len(jobs) + i \in 1..(Len(jobs) + Len(new)) /\ Len(jobs) + i \notin 1..Len(jobs)
          BY <3>1
    <3>   QED  BY <1>11, <3>2, <3>3
  <2>   QED  BY <2>2, <2>3
<1>   QED  BY <1>11, <1>13, <1>14, <1>15, <1>16 DEF Jobs, Pinned

LEMMA CommitPInv ==
  ASSUME PInv, NEW w \in Worker, CommitTx(w)
  PROVE  PInv'
<1>1. /\ batch[w].step = "writing"
      /\ batch' = [batch EXCEPT ![w] = [Idle EXCEPT !.step = "done", !.job = batch[w].job]]
      BY DEF CommitTx
<1>2. ASSUME NEW v \in Worker
      PROVE  DOMAIN batch'[v] = Fields /\ Covers(batch'[v], jobs') /\ batch'[v].step # "writing"
  <2>1. CASE v = w
        BY <1>1, <2>1, BatchOf DEF Idle, Fields, Covers
  <2>2. CASE v # w
    <3>1. batch'[v] = batch[v] /\ DOMAIN batch[v] = Fields /\ Covers(batch[v], jobs)
          BY <1>1, <2>2, BatchOf
    <3>2. batch[v].step # "writing"
          BY <1>1, <2>2 DEF PInv, WritesAlone, Writing
    <3>3. Covers(batch[v], jobs')
          BY <3>1, CommitJobsStay DEF Covers
    <3>   QED  BY <3>1, <3>2, <3>3
  <2>   QED  BY <2>1, <2>2
<1>3. Batches' /\ WritesAlone'
      BY <1>1, <1>2, BatchOf DEF Batches, WritesAlone, Writing
<1>   QED  BY <1>3, CommitJobsStay, CommitKeepsApart, CommitRecordsLive DEF PInv

--------------------------------------------------------------------------------
(* The theorems                                                               *)

LEMMA NextPInv == PInv /\ [Next]_vars => PInv'
<1>   SUFFICES ASSUME PInv, [Next]_vars PROVE PInv'
      OBVIOUS
<1>1. CASE UNCHANGED vars
      BY <1>1 DEF vars, rowVars, PInv, Rows, Jobs, Pinned, Batches, Covers, WritesAlone, Writing, Taken,
                  OneAddressPerChannel, LiveIsRecorded
<1>2. CASE \E d \in Document : CheckIn(d)
      BY <1>2, CheckInPInv
<1>3. CASE \E d \in Document, channels \in Selection : Schedule(d, channels)
      BY <1>3, SchedulePInv
<1>4. CASE Crash
      BY <1>4, CrashPInv
<1>5. CASE \E w \in Worker, j \in DOMAIN jobs : Render(w, j) \/ StartExpire(w, j)
      BY <1>5, RenderPInv, StartExpirePInv
<1>6. ASSUME NEW w \in Worker,
             \/ RenderFails(w) \/ OpenTx(w)
             \/ \E r \in batch[w].todo : ReadOld(w, r)
             \/ CreateTemp(w) \/ RenameTemp(w) \/ SweepTemp(w) \/ WriteFails(w) \/ CommitTx(w)
             \/ \E p \in batch[w].order : UndoRemove(w, p) \/ UndoTemp(w, p) \/ UndoFails(w, p)
             \/ UndoRename(w) \/ Undone(w)
             \/ RemoveFile(w) \/ RemoveFails(w) \/ RecordExpiry(w)
             \/ Report(w)
      PROVE  PInv'
      BY <1>6, GivingUpPInv, OpenTxPInv, WritingPInv, CommitPInv, ElsewherePInv, ReportPInv
<1>   QED  BY <1>1, <1>2, <1>3, <1>4, <1>5, <1>6 DEF Next

\* A document has one address in each channel and an address one document,
\* though every publish worked its addresses out before the others committed
\* (store.Publish refuses what is taken inside the transaction that records).
THEOREM AddressesStayApart == Spec => []OneAddressPerChannel
<1>1. PInv => OneAddressPerChannel
      BY DEF PInv
<1>   QED  BY <1>1, InitPInv, NextPInv, PTL DEF Spec

\* What is live is a version that one of the document's rows records, and no row
\* is of a version that was not checked in, whatever becomes of the files
\* (store.Publish sets live_version_id where it writes the rows).
THEOREM WhatIsLiveIsRecorded == Spec => []LiveIsRecorded
<1>1. PInv => LiveIsRecorded
      BY DEF PInv
<1>   QED  BY <1>1, InitPInv, NextPInv, PTL DEF Spec

--------------------------------------------------------------------------------
(* The tree and the rows, while nothing has failed                            *)

\* The addresses of these pages are their channels' own, and so are the files.
Placed(pages) ==
  \A r \in pages : r.uri \in AddressIn(r.channel) /\ r.path \in PathsOf(r.channel, r.uri)

\* A batch that has put nothing in the tree.
Untouched(b) == DOMAIN b.undo = {} /\ b.order = {} /\ b.temp = NoPath /\ ~b.renamed

\* A batch on its way: it has begun with the pages that are not left to do, its
\* temporary file is the only one, and what it wrote is there or was expired.
HalfWritten(b) ==
  /\ b.todo \subseteq b.pages
  /\ DOMAIN b.undo = {r.path : r \in b.pages \ b.todo}
  /\ b.order \subseteq DOMAIN b.undo
  /\ b.temp \in IF b.renamed THEN b.order ELSE (DOMAIN b.undo \ b.order) \cup {NoPath}
  /\ temps = IF b.renamed THEN {} ELSE {b.temp} \ {NoPath}
  /\ \A r \in b.pages : r.path \in b.order => files[r.path] \in {NoPage, PageOf(r)}

Orderly(b) ==
  /\ b.step # "undoing"
  /\ b.step # "writing" => Untouched(b)
  /\ b.step = "rendered" => b.todo = b.pages
  /\ b.step = "writing" => HalfWritten(b)
  /\ b.step \in {"rendered", "writing"} => Placed(b.pages)

\* Who works on a job is the one its row names, and only a publish gives up.
Runs(w) ==
  LET b == batch[w] IN
  b.step # "idle" =>
    /\ b.job \in DOMAIN jobs /\ jobs[b.job].open /\ jobs[b.job].runner = w
    /\ b.step \in {"removing", "recording"} => jobs[b.job].kind = "expire"
    /\ b.step = "failed" => jobs[b.job].kind = "publish"

\* A job that will still remove the file at p.
WillExpire(j, p) ==
  /\ jobs[j].kind = "expire" /\ jobs[j].open /\ jobs[j].path = p
  /\ \A w \in Worker : batch[w].step \in {"recording", "done"} => batch[w].job # j

RowPaths == {r.path : r \in resources}

Remembered(p) ==
  files[p] # NoPage =>
    \/ InFlight(p) \/ p \in RowPaths \/ p \in leftBehind
    \/ \E j \in DOMAIN jobs : WillExpire(j, p)

\* Nothing has failed yet.
Smooth ==
  /\ DOMAIN files = Path /\ Placed(resources)
  /\ \A w \in Worker : Orderly(batch[w]) /\ Runs(w)
  /\ Writing = {} => temps = {}
  /\ \A r \in resources : InFlight(r.path) \/ files[r.path] \in {NoPage, PageOf(r)}
  /\ \A p \in Path : Remembered(p)

\* A state in which nothing has failed, where every file has one address.
Calm == PInv /\ troubles = 0 /\ Smooth /\ FilesAreDistinct

LEMMA CalmFacts ==
  ASSUME Calm, NEW w \in Worker
  PROVE  /\ DOMAIN batch = Worker /\ DOMAIN batch[w] = Fields
         /\ Orderly(batch[w]) /\ Runs(w) /\ Covers(batch[w], jobs)
BY BatchOf DEF Calm, Smooth

\* Two rows or pages with one file are of one channel and one address.
LEMMA OneFileOneAddress ==
  ASSUME FilesAreDistinct, NEW r \in Resource, NEW s \in Resource,
         Placed({r, s}), r.path = s.path
  PROVE  r.channel = s.channel /\ r.uri = s.uri
BY DEF FilesAreDistinct, Placed, Resource

\* The pages of a publish have a file each.
LEMMA PagesHaveOneFile ==
  ASSUME Calm, NEW w \in Worker, batch[w].step = "writing",
         NEW r \in batch[w].pages, NEW s \in batch[w].pages, r.path = s.path
  PROVE  r = s
<1>1. /\ batch[w].pages \subseteq Resource /\ Placed(batch[w].pages)
      /\ \A q, t \in batch[w].pages : q.channel = t.channel => q = t
      BY CalmFacts DEF Covers, Orderly
<1>2. Placed({r, s})
      BY <1>1 DEF Placed
<1>3. r.channel = s.channel
      BY <1>1, <1>2, OneFileOneAddress DEF Calm
<1>   QED  BY <1>1, <1>3

LEMMA PathOfResource ==
  ASSUME NEW r \in Resource
  PROVE  r.path \in Path
BY DEF Resource

\* Only the batch of w changes.
Frame(w) == DOMAIN batch' = Worker /\ \A v \in Worker \ {w} : batch'[v] = batch[v]

\* The jobs that would remove a file still will, and jobs know who runs them.
JobsKept ==
  /\ \A v \in Worker : Runs(v)'
  /\ \A j \in DOMAIN jobs : \A p \in Path : WillExpire(j, p) => j \in DOMAIN jobs' /\ WillExpire(j, p)'

\* A batch goes on, and neither the rows nor the files in the tree change.
LEMMA SameTreeSmooth ==
  ASSUME Calm, NEW w \in Worker, UNCHANGED <<resources, leftBehind, files>>, Frame(w), JobsKept,
         batch'[w].order = batch[w].order, Orderly(batch[w])',
         temps' = temps \/ batch[w].step = "writing", Writing' = {} => temps' = {}
  PROVE  Smooth'
<1>1. \A p : InFlight(p)' <=> InFlight(p)
      BY DEF InFlight, Frame
<1>2. ASSUME NEW v \in Worker
      PROVE  Orderly(batch[v])'
  <2>1. CASE v = w
        BY <2>1
  <2>2. CASE v # w
    <3>1. batch'[v] = batch[v] /\ Orderly(batch[v])
          BY <2>2, CalmFacts DEF Frame
    <3>2. temps' = temps \/ batch[v].step # "writing"
          BY <2>2 DEF Calm, PInv, WritesAlone, Writing
    <3>   QED  BY <3>1, <3>2 DEF Orderly, Untouched, HalfWritten, Placed
  <2>   QED  BY <2>1, <2>2
<1>3. ASSUME NEW p \in Path
      PROVE  Remembered(p)'
  <2>1. Remembered(p)
        BY DEF Calm, Smooth
  <2>   QED  BY <1>1, <2>1 DEF Remembered, RowPaths, JobsKept
<1>4. \A r \in resources' : InFlight(r.path)' \/ files'[r.path] \in {NoPage, PageOf(r)}
      BY <1>1 DEF Calm, Smooth
<1>   QED  BY <1>2, <1>3, <1>4 DEF Calm, Smooth, Placed, JobsKept

\* A batch goes on with its job.
LEMMA SameJobsKept ==
  ASSUME Calm, NEW w \in Worker, UNCHANGED jobs, Frame(w),
         batch'[w].job = batch[w].job, batch[w].step # "idle",
         batch'[w].step \in {"removing", "recording"} => batch[w].step \in {"removing", "recording"},
         batch'[w].step = "failed" => jobs[batch[w].job].kind = "publish",
         batch'[w].step \in {"recording", "done"} => batch[w].step \in {"recording", "done"}
  PROVE  JobsKept
<1>1. ASSUME NEW v \in Worker
      PROVE  Runs(v)'
      BY CalmFacts DEF Frame, Runs
<1>2. ASSUME NEW j \in DOMAIN jobs, NEW p \in Path, WillExpire(j, p)
      PROVE  WillExpire(j, p)'
      BY <1>2 DEF WillExpire, Frame
<1>   QED  BY <1>1, <1>2 DEF JobsKept

\* Somebody asks for another publish, or checks a document in.
LEMMA MoreJobsSmooth ==
  ASSUME Calm, UNCHANGED <<resources, leftBehind, files, temps, batch>>, DOMAIN jobs \subseteq DOMAIN jobs',
         \A j \in DOMAIN jobs : jobs'[j] = jobs[j]
  PROVE  Smooth'
<1>1. \A v \in Worker : Runs(v)' /\ Orderly(batch[v])'
      BY CalmFacts DEF Runs, Orderly, Untouched, HalfWritten, Placed
<1>2. \A p : InFlight(p)' <=> InFlight(p)
      BY DEF InFlight
<1>3. ASSUME NEW p \in Path
      PROVE  Remembered(p)'
  <2>1. Remembered(p) /\ \A j \in DOMAIN jobs : WillExpire(j, p) => WillExpire(j, p)'
        BY DEF Calm, Smooth, WillExpire
  <2>   QED  BY <1>2, <2>1 DEF Remembered, RowPaths
<1>   QED  BY <1>1, <1>2, <1>3 DEF Calm, Smooth, Placed, Writing

\* A claim: without failures nobody runs the job yet.
LEMMA ClaimKeepsJobs ==
  ASSUME Calm, NEW w \in Worker, NEW j \in DOMAIN jobs, NEW kind, Claim(w, j, kind), troubles' = 0,
         Frame(w), batch'[w].job = j, batch'[w].step \in {"rendered", "removing"},
         batch'[w].step = "removing" => kind = "expire"
  PROVE  JobsKept
<1>1. jobs[j].kind = kind /\ jobs[j].open /\ jobs[j].runner = NoOne
      BY DEF Claim, Troubled, Calm
<1>2. /\ DOMAIN jobs' = DOMAIN jobs /\ \A k \in DOMAIN jobs \ {j} : jobs'[k] = jobs[k]
      /\ jobs' = [jobs EXCEPT ![j].runner = w]
      BY DEF Claim
<1>3. jobs[j] \in JobType
      BY JobOf DEF Calm
<1>4. jobs'[j] = [jobs[j] EXCEPT !.runner = w]
      BY <1>2
<1>5. /\ jobs'[j].kind = kind /\ jobs'[j].open /\ jobs'[j].runner = w
      /\ kind = "expire" => jobs'[j].path = jobs[j].path
      BY <1>1, <1>3, <1>4 DEF JobType
<1>6. ASSUME NEW v \in Worker
      PROVE  Runs(v)'
  <2>1. CASE v = w
        BY <1>2, <1>5, <2>1 DEF Runs
  <2>2. CASE v # w
    <3>1. batch'[v] = batch[v] /\ Runs(v)
          BY <2>2, CalmFacts DEF Frame
    <3>2. batch[v].step # "idle" => batch[v].job # j
          BY <1>1, <3>1, PublishingAssumption DEF Runs
    <3>   QED  BY <1>2, <3>1, <3>2 DEF Runs
  <2>   QED  BY <2>1, <2>2
<1>7. ASSUME NEW k \in DOMAIN jobs, NEW p \in Path, WillExpire(k, p)
      PROVE  WillExpire(k, p)'
      BY <1>1, <1>2, <1>5, <1>7 DEF WillExpire, Frame
<1>   QED  BY <1>2, <1>6, <1>7 DEF JobsKept
LEMMA RenderSmooth ==
  ASSUME Calm, NEW w \in Worker, NEW j \in DOMAIN jobs, Render(w, j), troubles' = 0
  PROVE  Smooth'
<1>1. PICK at \in [jobs[j].channels -> Address], file \in [jobs[j].channels -> Path] :
        /\ \A c \in jobs[j].channels : at[c] \in AddressIn(c) /\ file[c] \in PathsOf(c, at[c])
        /\ LET pages == {[document |-> jobs[j].document, channel |-> c, uri |-> at[c],
                          path |-> file[c], version |-> jobs[j].version] : c \in jobs[j].channels}
           IN batch' = [batch EXCEPT ![w] =
                [Idle EXCEPT !.step = "rendered", !.job = j, !.pages = pages, !.todo = pages]]
      BY DEF Render
<1>   DEFINE pages == {[document |-> jobs[j].document, channel |-> c, uri |-> at[c],
                        path |-> file[c], version |-> jobs[j].version] : c \in jobs[j].channels}
<1>2. Placed(pages)
      BY <1>1 DEF Placed
<1>3. batch' = [batch EXCEPT ![w] =
        [Idle EXCEPT !.step = "rendered", !.job = j, !.pages = pages, !.todo = pages]]
      BY <1>1
<1>   HIDE DEF pages
<1>4. /\ Frame(w) /\ batch'[w].order = {} /\ batch'[w].step = "rendered" /\ batch'[w].job = j
      /\ batch'[w].pages = pages /\ batch'[w].todo = pages /\ Untouched(batch'[w])
      BY <1>3, CalmFacts DEF Frame, Idle, Fields, Untouched
<1>5. UNCHANGED <<resources, leftBehind, files, temps>> /\ Claim(w, j, "publish") /\ batch[w].step = "idle"
      BY DEF Render, Claim, rowVars
<1>6. batch[w].order = {}
      BY <1>5, CalmFacts DEF Orderly, Untouched
<1>7. Orderly(batch[w])'
      BY <1>2, <1>4 DEF Orderly, Untouched
<1>8. Writing' = {} => temps' = {}
      BY <1>4, <1>5, CalmFacts DEF Calm, Smooth, Writing, Frame
<1>9. JobsKept
      BY <1>4, <1>5, ClaimKeepsJobs
<1>   QED  BY <1>4, <1>5, <1>6, <1>7, <1>8, <1>9, SameTreeSmooth

LEMMA StartExpireSmooth ==
  ASSUME Calm, NEW w \in Worker, NEW j \in DOMAIN jobs, StartExpire(w, j), troubles' = 0
  PROVE  Smooth'
<1>1. UNCHANGED <<resources, leftBehind, files, temps>> /\ Claim(w, j, "expire") /\ batch[w].step = "idle"
      BY DEF StartExpire, Claim, rowVars
<1>2. Frame(w) /\ batch'[w] = [Idle EXCEPT !.step = "removing", !.job = j]
      BY CalmFacts DEF StartExpire, Frame
<1>3. Untouched(batch'[w]) /\ batch'[w].step = "removing" /\ batch'[w].job = j
      BY <1>2 DEF Idle, Untouched
<1>4. batch[w].order = {}
      BY <1>1, CalmFacts DEF Orderly, Untouched
<1>5. Orderly(batch[w])'
      BY <1>3 DEF Orderly, Untouched
<1>6. Writing' = {} => temps' = {}
      BY <1>1, <1>2, <1>3, CalmFacts DEF Calm, Smooth, Writing, Frame
<1>7. JobsKept
      BY <1>1, <1>2, <1>3, ClaimKeepsJobs
<1>   QED  BY <1>1, <1>2, <1>3, <1>4, <1>5, <1>6, <1>7, SameTreeSmooth DEF Untouched

LEMMA OpenTxSmooth ==
  ASSUME Calm, NEW w \in Worker, OpenTx(w)
  PROVE  Smooth'
<1>1. /\ UNCHANGED <<resources, leftBehind, files, temps, jobs>> /\ batch[w].step = "rendered" /\ temps = {}
      /\ Frame(w) /\ batch'[w] = [batch[w] EXCEPT !.step = batch'[w].step]
      /\ batch'[w].step \in {"failed", "writing"}
      BY CalmFacts DEF OpenTx, Frame, rowVars, Calm, Smooth, Fields
<1>2. /\ batch[w].todo = batch[w].pages /\ Untouched(batch[w]) /\ Placed(batch[w].pages)
      /\ jobs[batch[w].job].kind = "publish"
      BY <1>1, CalmFacts DEF Orderly, Covers
<1>3. \A field \in Fields \ {"step"} : batch'[w][field] = batch[w][field]
      BY <1>1, CalmFacts
<1>4. /\ batch'[w].job = batch[w].job /\ batch'[w].todo = batch[w].todo /\ batch'[w].undo = batch[w].undo
      /\ batch'[w].order = batch[w].order /\ batch'[w].temp = batch[w].temp
      /\ batch'[w].pages = batch[w].pages /\ batch'[w].renamed = batch[w].renamed
      BY <1>3 DEF Fields
<1>5. Orderly(batch[w])'
      BY <1>1, <1>2, <1>4 DEF Orderly, Untouched, HalfWritten, Placed
<1>6. JobsKept
      BY <1>1, <1>2, <1>4, SameJobsKept
<1>   QED  BY <1>1, <1>4, <1>5, <1>6, SameTreeSmooth

\* What one of the steps of a writer leaves of its batch.
LEMMA WriterFacts ==
  ASSUME Calm, NEW w \in Worker, batch[w].step = "writing"
  PROVE  /\ HalfWritten(batch[w]) /\ Placed(batch[w].pages) /\ batch[w].pages \subseteq Resource
         /\ DOMAIN batch[w].undo \subseteq Path /\ NoPath \notin DOMAIN batch[w].undo
         /\ \A v \in Worker : batch[v].step = "writing" => v = w
<1>1. HalfWritten(batch[w]) /\ Placed(batch[w].pages) /\ batch[w].pages \subseteq Resource
      BY CalmFacts DEF Orderly, Covers
<1>2. DOMAIN batch[w].undo \subseteq Path
      BY <1>1, PathOfResource DEF HalfWritten
<1>3. \A v \in Worker : batch[v].step = "writing" => v = w
      BY DEF Calm, PInv, WritesAlone, Writing
<1>   QED  BY <1>1, <1>2, <1>3, NoPathAssumption

\* A writer that goes on writing.
LEMMA WriterSmooth ==
  ASSUME Calm, NEW w \in Worker, UNCHANGED <<resources, leftBehind, files, jobs>>, Frame(w),
         batch[w].step = "writing", batch'[w].step = "writing", batch'[w].job = batch[w].job,
         batch'[w].order = batch[w].order, batch'[w].pages = batch[w].pages, HalfWritten(batch[w])'
  PROVE  Smooth'
<1>1. Orderly(batch[w])'
      BY WriterFacts DEF Orderly, Placed
<1>2. JobsKept
      BY SameJobsKept
<1>3. Writing' # {}
      BY DEF Writing
<1>   QED  BY <1>1, <1>2, <1>3, SameTreeSmooth

LEMMA ReadOldSmooth ==
  ASSUME Calm, NEW w \in Worker, NEW r \in batch[w].todo, ReadOld(w, r)
  PROVE  Smooth'
<1>   DEFINE p == r.path
<1>1. /\ batch[w].step = "writing" /\ Begun(w) = {} /\ batch[w].temp = NoPath
      /\ UNCHANGED <<resources, leftBehind, files, temps, jobs>>
      BY DEF ReadOld, rowVars
<1>2. HalfWritten(batch[w])
      BY <1>1, WriterFacts
<1>3. r \in batch[w].pages /\ p \notin DOMAIN batch[w].undo
  <2>1. r \in batch[w].pages
        BY <1>2 DEF HalfWritten
  <2>2. \A s \in batch[w].pages : s.path = p => s = r
        BY <1>1, <2>1, PagesHaveOneFile
  <2>   QED  BY <1>2, <2>1, <2>2 DEF HalfWritten
<1>4. /\ Frame(w) /\ batch'[w].step = "writing" /\ batch'[w].job = batch[w].job
      /\ batch'[w].pages = batch[w].pages /\ batch'[w].order = batch[w].order
      /\ batch'[w].temp = NoPath /\ batch'[w].renamed = batch[w].renamed
      /\ batch'[w].todo = batch[w].todo \ {r} /\ DOMAIN batch'[w].undo = DOMAIN batch[w].undo \cup {p}
      BY <1>1, <1>3, CalmFacts DEF ReadOld, Frame, Fields
<1>5. {s.path : s \in batch'[w].pages \ batch'[w].todo} = DOMAIN batch'[w].undo
  <2>1. batch'[w].pages \ batch'[w].todo = (batch[w].pages \ batch[w].todo) \cup {r}
        BY <1>3, <1>4
  <2>   QED  BY <1>2, <1>4, <2>1 DEF HalfWritten
<1>6. HalfWritten(batch[w])'
  <2>1. NoPath \notin batch[w].order
        BY <1>1, <1>2, WriterFacts DEF HalfWritten
  <2>   QED  BY <1>1, <1>2, <1>4, <1>5, <2>1 DEF HalfWritten
<1>   QED  BY <1>1, <1>4, <1>6, WriterSmooth

LEMMA CreateTempSmooth ==
  ASSUME Calm, NEW w \in Worker, CreateTemp(w)
  PROVE  Smooth'
<1>1. /\ batch[w].step = "writing" /\ batch[w].temp = NoPath
      /\ UNCHANGED <<resources, leftBehind, files, jobs>>
      BY DEF CreateTemp, rowVars
<1>2. HalfWritten(batch[w]) /\ temps = {}
      BY <1>1, WriterFacts DEF HalfWritten
<1>3. PICK p \in Begun(w) : batch' = [batch EXCEPT ![w].temp = p] /\ temps' = temps \cup {p}
      BY <1>2 DEF CreateTemp
<1>4. p \in DOMAIN batch[w].undo /\ p \notin batch[w].order /\ p # NoPath
      BY <1>1, WriterFacts DEF Begun
<1>5. ~batch[w].renamed
      BY <1>1, <1>2, WriterFacts DEF HalfWritten
<1>6. /\ Frame(w) /\ batch'[w].step = "writing" /\ batch'[w].job = batch[w].job
      /\ batch'[w].pages = batch[w].pages /\ batch'[w].order = batch[w].order
      /\ batch'[w].temp = p /\ batch'[w].renamed = batch[w].renamed
      /\ batch'[w].todo = batch[w].todo /\ batch'[w].undo = batch[w].undo
      BY <1>1, <1>3, CalmFacts DEF Frame, Fields
<1>7. HalfWritten(batch[w])'
      BY <1>1, <1>2, <1>3, <1>4, <1>5, <1>6 DEF HalfWritten
<1>   QED  BY <1>1, <1>6, <1>7, WriterSmooth

LEMMA SweepTempSmooth ==
  ASSUME Calm, NEW w \in Worker, SweepTemp(w)
  PROVE  Smooth'
<1>1. batch[w].renamed /\ UNCHANGED <<resources, leftBehind, files, jobs>>
      BY DEF SweepTemp, rowVars
<1>2. batch[w].step = "writing"
      BY <1>1, CalmFacts DEF Orderly, Untouched
<1>3. HalfWritten(batch[w]) /\ temps = {} /\ temps' = {}
      BY <1>1, <1>2, WriterFacts DEF HalfWritten, SweepTemp
<1>4. /\ Frame(w) /\ batch'[w].step = "writing" /\ batch'[w].job = batch[w].job
      /\ batch'[w].pages = batch[w].pages /\ batch'[w].order = batch[w].order
      /\ batch'[w].temp = NoPath /\ batch'[w].renamed = FALSE
      /\ batch'[w].todo = batch[w].todo /\ batch'[w].undo = batch[w].undo
      BY <1>2, CalmFacts DEF SweepTemp, Frame, Fields
<1>5. HalfWritten(batch[w])'
      BY <1>1, <1>3, <1>4 DEF HalfWritten
<1>   QED  BY <1>1, <1>2, <1>4, <1>5, WriterSmooth

LEMMA RenameTempSmooth ==
  ASSUME Calm, NEW w \in Worker, RenameTemp(w)
  PROVE  Smooth'
<1>0. PICK p : p = batch[w].temp
      OBVIOUS
<1>1. /\ batch[w].step = "writing" /\ p # NoPath /\ ~batch[w].renamed /\ p \in temps
      /\ UNCHANGED <<resources, leftBehind, jobs>> /\ temps' = temps \ {p}
      BY <1>0 DEF RenameTemp, rowVars
<1>2. PICK r \in batch[w].pages : r.path = p /\ files' = [files EXCEPT ![p] = PageOf(r)]
      BY <1>0 DEF RenameTemp
<1>3. HalfWritten(batch[w]) /\ p \in DOMAIN batch[w].undo /\ p \in Path /\ temps = {p}
      BY <1>0, <1>1, WriterFacts DEF HalfWritten
<1>4. /\ Frame(w) /\ batch'[w].step = "writing" /\ batch'[w].job = batch[w].job
      /\ batch'[w].pages = batch[w].pages /\ batch'[w].order = batch[w].order \cup {p}
      /\ batch'[w].temp = p /\ batch'[w].renamed = TRUE
      /\ batch'[w].todo = batch[w].todo /\ batch'[w].undo = batch[w].undo
      BY <1>0, <1>1, CalmFacts DEF RenameTemp, Frame, Fields
<1>5. DOMAIN files' = Path /\ files'[p] = PageOf(r) /\ \A q \in Path \ {p} : files'[q] = files[q]
      BY <1>2, <1>3 DEF Calm, Smooth
<1>6. ASSUME NEW s \in batch[w].pages, s.path \in batch'[w].order
      PROVE  files'[s.path] \in {NoPage, PageOf(s)}
  <2>1. CASE s.path = p
    <3>1. s = r
          BY <1>1, <1>2, <2>1, PagesHaveOneFile
    <3>   QED  BY <1>2, <1>5, <3>1
  <2>2. CASE s.path # p
    <3>1. s.path \in batch[w].order /\ s.path \in Path
          BY <1>1, <1>4, <1>6, <2>2, WriterFacts, PathOfResource
    <3>   QED  BY <1>3, <1>5, <2>2, <3>1 DEF HalfWritten
  <2>   QED  BY <2>1, <2>2
<1>7. HalfWritten(batch[w])'
      BY <1>1, <1>3, <1>4, <1>6 DEF HalfWritten
<1>8. ASSUME NEW v \in Worker
      PROVE  Orderly(batch[v])'
  <2>1. CASE v = w
        BY <1>1, <1>4, <1>7, <2>1, WriterFacts DEF Orderly, Placed
  <2>2. CASE v # w
        BY <1>1, <1>4, <2>2, CalmFacts, WriterFacts DEF Orderly, Untouched, Placed, Frame
  <2>   QED  BY <2>1, <2>2
<1>9. JobsKept
      BY <1>1, <1>4, SameJobsKept
<1>10. /\ InFlight(p)' /\ \A q \in Path : InFlight(q) => InFlight(q)'
       /\ Writing' # {}
      BY <1>4 DEF InFlight, Frame, Writing
<1>11. ASSUME NEW q \in Path
       PROVE  Remembered(q)'
  <2>1. Remembered(q)
        BY DEF Calm, Smooth
  <2>   QED  BY <1>1, <1>5, <1>9, <1>10, <2>1 DEF Remembered, RowPaths, JobsKept
<1>12. ASSUME NEW s \in resources'
       PROVE  InFlight(s.path)' \/ files'[s.path] \in {NoPage, PageOf(s)}
  <2>1. s \in resources /\ s.path \in Path
        BY <1>1, PathOfResource DEF Calm, PInv, Rows
  <2>2. InFlight(s.path) \/ files[s.path] \in {NoPage, PageOf(s)}
        BY <2>1 DEF Calm, Smooth
  <2>   QED  BY <1>5, <1>10, <2>1, <2>2
<1>   QED  BY <1>1, <1>5, <1>8, <1>9, <1>10, <1>11, <1>12 DEF Calm, Smooth, Placed, JobsKept

\* Only a step that fails leaves a writer that way while nothing has failed.
LEMMA WriteFailsIsTrouble ==
  ASSUME Calm, NEW w \in Worker, WriteFails(w)
  PROVE  troubles' # 0
<1>1. batch[w].step = "writing" /\ ~batch[w].renamed
      BY DEF WriteFails
<1>2. temps = {batch[w].temp} \ {NoPath}
      BY <1>1, WriterFacts DEF HalfWritten
<1>   QED  BY <1>2 DEF WriteFails, Troubled, Calm
\* The file that goes is the one its job names: nothing else relies on that job.
LEMMA RemoveFileSmooth ==
  ASSUME Calm, NEW w \in Worker, RemoveFile(w)
  PROVE  Smooth'
<1>0. PICK gone : gone = jobs[batch[w].job].path
      OBVIOUS
<1>1. /\ batch[w].step = "removing" /\ files' = [files EXCEPT ![gone] = NoPage]
      /\ UNCHANGED <<resources, leftBehind, temps, jobs>>
      BY <1>0 DEF RemoveFile, rowVars
<1>2. /\ Frame(w) /\ batch'[w].step = "recording" /\ batch'[w].job = batch[w].job
      /\ batch'[w].undo = batch[w].undo /\ batch'[w].order = batch[w].order
      /\ batch'[w].temp = batch[w].temp /\ batch'[w].renamed = batch[w].renamed
      BY <1>1, CalmFacts DEF RemoveFile, Frame, Fields
<1>3. DOMAIN files' = Path /\ \A p \in Path : files'[p] = IF p = gone THEN NoPage ELSE files[p]
      BY <1>1 DEF Calm, Smooth
<1>4. ASSUME NEW v \in Worker
      PROVE  Orderly(batch[v])' /\ Runs(v)'
  <2>1. CASE v = w
        BY <1>1, <1>2, <2>1, CalmFacts DEF Orderly, Untouched, Runs
  <2>2. CASE v # w
    <3>1. batch'[v] = batch[v] /\ Orderly(batch[v]) /\ Runs(v)
          BY <1>2, <2>2, CalmFacts DEF Frame
    <3>2. batch[v].step = "writing" => HalfWritten(batch[v])'
      <4>1. SUFFICES ASSUME batch[v].step = "writing"
                     PROVE  HalfWritten(batch[v])'
            OBVIOUS
      <4>2. HalfWritten(batch[v]) /\ \A r \in batch[v].pages : r.path \in Path
            BY <4>1, WriterFacts, PathOfResource
      <4>   QED  BY <1>1, <1>3, <3>1, <4>2 DEF HalfWritten
    <3>   QED  BY <1>1, <3>1, <3>2 DEF Orderly, Untouched, Placed, Runs
  <2>   QED  BY <2>1, <2>2
<1>5. \A p : InFlight(p)' <=> InFlight(p)
      BY <1>2 DEF InFlight, Frame
<1>6. ASSUME NEW p \in Path
      PROVE  Remembered(p)'
  <2>1. Remembered(p)
        BY DEF Calm, Smooth
  <2>2. CASE p = gone
        BY <1>3, <2>2 DEF Remembered
  <2>3. CASE p # gone
    <3>1. \A j \in DOMAIN jobs : WillExpire(j, p) => WillExpire(j, p)'
          BY <1>0, <1>1, <1>2, <2>3 DEF WillExpire, Frame
    <3>   QED  BY <1>1, <1>3, <1>5, <2>1, <2>3, <3>1 DEF Remembered, RowPaths
  <2>   QED  BY <2>2, <2>3
<1>7. ASSUME NEW r \in resources'
      PROVE  InFlight(r.path)' \/ files'[r.path] \in {NoPage, PageOf(r)}
  <2>1. r \in resources /\ r.path \in Path
        BY <1>1, PathOfResource DEF Calm, PInv, Rows
  <2>   QED  BY <1>3, <1>5, <2>1 DEF Calm, Smooth
<1>8. Writing' = {} => temps' = {}
      BY <1>1, <1>2, CalmFacts DEF Calm, Smooth, Writing, Frame
<1>   QED  BY <1>1, <1>3, <1>4, <1>6, <1>7, <1>8 DEF Calm, Smooth, Placed

\* A worker that does not write goes on to another step that does not.
LEMMA ElsewhereSmooth ==
  ASSUME Calm, NEW w \in Worker, UNCHANGED <<resources, leftBehind, files, temps>>, Frame(w), JobsKept,
         batch[w].step # "writing", Untouched(batch'[w]),
         batch'[w].step \notin {"undoing", "rendered", "writing"}
  PROVE  Smooth'
<1>1. batch'[w].order = batch[w].order /\ Orderly(batch[w])'
      BY CalmFacts DEF Orderly, Untouched
<1>2. Writing' = {} => temps' = {}
      BY CalmFacts DEF Calm, Smooth, Writing, Frame
<1>   QED  BY <1>1, <1>2, SameTreeSmooth

LEMMA RecordExpirySmooth ==
  ASSUME Calm, NEW w \in Worker, RecordExpiry(w), troubles' = 0
  PROVE  Smooth'
<1>1. /\ batch[w].step = "recording" /\ UNCHANGED <<resources, leftBehind, files, temps, jobs>>
      /\ batch' = [batch EXCEPT ![w].step = "done"]
      BY DEF RecordExpiry, Troubled, Calm, rowVars
<1>2. /\ Frame(w) /\ batch'[w].step = "done" /\ batch'[w].job = batch[w].job
      /\ batch'[w].undo = batch[w].undo /\ batch'[w].order = batch[w].order
      /\ batch'[w].temp = batch[w].temp /\ batch'[w].renamed = batch[w].renamed
      BY <1>1, CalmFacts DEF Frame, Fields
<1>3. Untouched(batch'[w])
      BY <1>1, <1>2, CalmFacts DEF Orderly, Untouched
<1>4. JobsKept
      BY <1>1, <1>2, SameJobsKept
<1>   QED  BY <1>1, <1>2, <1>3, <1>4, ElsewhereSmooth

\* A report settles the job of one worker, whose file is gone by then.
LEMMA ReportSmooth ==
  ASSUME Calm, NEW w \in Worker, Report(w)
  PROVE  Smooth'
<1>0. PICK j : j = batch[w].job
      OBVIOUS
<1>1. /\ batch[w].step \in {"done", "failed"} /\ UNCHANGED <<resources, leftBehind, files, temps>>
      /\ j \in DOMAIN jobs /\ jobs[j].runner = w
      /\ Frame(w) /\ batch'[w] = Idle
      BY <1>0, CalmFacts DEF Report, Frame, Runs, rowVars
<1>2. PICK open \in BOOLEAN : jobs' = [jobs EXCEPT ![j].open = open, ![j].runner = NoOne]
      BY <1>0, <1>1 DEF Report
<1>3. DOMAIN jobs' = DOMAIN jobs /\ \A k \in DOMAIN jobs \ {j} : jobs'[k] = jobs[k]
      BY <1>2
<1>4. \A p : ~WillExpire(j, p)
      BY <1>0, <1>1, CalmFacts DEF WillExpire, Runs
<1>5. ASSUME NEW v \in Worker
      PROVE  Runs(v)'
  <2>1. CASE v = w
        BY <1>1, <2>1 DEF Runs, Idle
  <2>2. CASE v # w
    <3>1. batch'[v] = batch[v] /\ Runs(v)
          BY <1>1, <2>2, CalmFacts DEF Frame
    <3>2. batch[v].step # "idle" => batch[v].job # j
          BY <1>1, <2>2, <3>1 DEF Runs
    <3>   QED  BY <1>3, <3>1, <3>2 DEF Runs
  <2>   QED  BY <2>1, <2>2
<1>6. ASSUME NEW k \in DOMAIN jobs, NEW p \in Path, WillExpire(k, p)
      PROVE  WillExpire(k, p)'
  <2>1. k # j
        BY <1>4, <1>6
  <2>   QED  BY <1>1, <1>3, <1>6, <2>1 DEF WillExpire, Frame, Idle
<1>7. JobsKept
      BY <1>3, <1>5, <1>6 DEF JobsKept
<1>8. Untouched(batch'[w]) /\ batch'[w].step = "idle"
      BY <1>1 DEF Untouched, Idle
<1>   QED  BY <1>1, <1>7, <1>8, ElsewhereSmooth
\* When everything is written, what is in flight is what is recorded.
LEMMA CommitFlight ==
  ASSUME Calm, NEW w \in Worker, CommitTx(w)
  PROVE  /\ batch[w].step = "writing" /\ temps = {}
         /\ \A r \in batch[w].pages : files[r.path] \in {NoPage, PageOf(r)}
         /\ \A p : InFlight(p) => \E r \in batch[w].pages : p = r.path
         /\ \A r \in resources \ Superseded(w) : ~InFlight(r.path)
<1>1. /\ batch[w].step = "writing" /\ batch[w].todo = {} /\ batch[w].temp = NoPath
      /\ DOMAIN batch[w].undo \ batch[w].order = {}
      BY DEF CommitTx, Begun
<1>2. /\ HalfWritten(batch[w]) /\ batch[w].pages \subseteq Resource /\ Placed(batch[w].pages)
      /\ NoPath \notin batch[w].order
      BY <1>1, WriterFacts DEF HalfWritten
<1>3. batch[w].order = {r.path : r \in batch[w].pages} /\ temps = {}
      BY <1>1, <1>2 DEF HalfWritten
<1>4. \A r \in batch[w].pages : files[r.path] \in {NoPage, PageOf(r)}
      BY <1>2, <1>3 DEF HalfWritten
<1>5. ASSUME NEW p, InFlight(p)
      PROVE  \E r \in batch[w].pages : p = r.path
  <2>1. PICK v \in Worker : p \in batch[v].order
        BY <1>5 DEF InFlight
  <2>2. v = w
        BY <1>1, <2>1, CalmFacts, WriterFacts DEF Orderly, Untouched
  <2>   QED  BY <1>3, <2>1, <2>2
<1>6. ASSUME NEW r \in resources \ Superseded(w), InFlight(r.path)
      PROVE  FALSE
  <2>1. PICK s \in batch[w].pages : r.path = s.path
        BY <1>5, <1>6
  <2>2. r \in Resource /\ Placed({r, s})
        BY <1>2 DEF Calm, PInv, Rows, Smooth, Placed
  <2>3. r.channel = s.channel /\ r.uri = s.uri
        BY <1>2, <2>1, <2>2, OneFileOneAddress DEF Calm
  <2>4. ~Taken(s)
        BY <1>1 DEF Calm, PInv, WritesAlone, Writing
  <2>5. r.document = s.document
        BY <2>3, <2>4 DEF Taken
  <2>   QED  BY <2>3, <2>5 DEF Superseded
<1>   QED  BY <1>1, <1>3, <1>4, <1>5, <1>6

LEMMA CommitSmooth ==
  ASSUME Calm, NEW w \in Worker, CommitTx(w)
  PROVE  Smooth'
<1>1. /\ batch[w].step = "writing" /\ temps' = {} /\ files' = files
      /\ resources' = (resources \ Superseded(w)) \cup batch[w].pages
      /\ Frame(w) /\ batch'[w] = [Idle EXCEPT !.step = "done", !.job = batch[w].job]
      BY CommitFlight, CalmFacts DEF CommitTx, Frame
<1>2. batch'[w].step = "done" /\ batch'[w].job = batch[w].job /\ Untouched(batch'[w])
      BY <1>1 DEF Idle, Untouched
<1>3. /\ \A k \in DOMAIN jobs : k \in DOMAIN jobs' /\ jobs'[k] = jobs[k]
      /\ jobs[batch[w].job].kind = "publish"
      BY <1>1, CommitJobsStay, CalmFacts DEF Calm, Covers
<1>4. ASSUME NEW v \in Worker
      PROVE  /\ Orderly(batch[v])' /\ Runs(v)' /\ batch'[v].step # "writing"
             /\ batch'[v].step # "idle" => batch'[v].job \in DOMAIN jobs
  <2>1. CASE v = w
    <3>1. batch[w].job \in DOMAIN jobs /\ jobs[batch[w].job].open /\ jobs[batch[w].job].runner = w
          BY <1>1, CalmFacts DEF Runs
    <3>2. Runs(w)'
          BY <1>2, <1>3, <3>1 DEF Runs
    <3>3. Orderly(batch[w])'
          BY <1>2 DEF Orderly, Untouched
    <3>   QED  BY <1>2, <2>1, <3>1, <3>2, <3>3
  <2>2. CASE v # w
    <3>1. batch'[v] = batch[v] /\ Orderly(batch[v]) /\ Runs(v) /\ batch[v].step # "writing"
          BY <1>1, <2>2, CalmFacts, WriterFacts DEF Frame
    <3>   QED  BY <1>3, <3>1 DEF Orderly, Untouched, Placed, Runs
  <2>   QED  BY <2>1, <2>2
<1>5. Placed(resources)' /\ Writing' = {}
      BY <1>1, <1>4, WriterFacts DEF Calm, Smooth, Placed, Writing
<1>6. ASSUME NEW r \in resources'
      PROVE  files'[r.path] \in {NoPage, PageOf(r)}
  <2>1. CASE r \in batch[w].pages
        BY <1>1, <2>1, CommitFlight
  <2>2. CASE r \in resources \ Superseded(w)
        BY <1>1, <2>2, CommitFlight DEF Calm, Smooth
  <2>   QED  BY <1>1, <2>1, <2>2
<1>7. ASSUME NEW p \in Path
      PROVE  Remembered(p)'
  <2>1. SUFFICES ASSUME files[p] # NoPage
                 PROVE  \/ p \in RowPaths' \/ p \in leftBehind'
                        \/ \E j \in DOMAIN jobs' : WillExpire(j, p)'
        BY <1>1 DEF Remembered
  <2>2. CASE InFlight(p)
        BY <1>1, <2>2, CommitFlight DEF RowPaths
  <2>3. CASE p \in RowPaths
    <3>1. PICK r \in resources : p = r.path
          BY <2>3 DEF RowPaths
    <3>2. CASE r \notin Superseded(w)
          BY <1>1, <3>1, <3>2 DEF RowPaths
    <3>3. CASE r \in Superseded(w) \ Stale(w)
      <4>1. PICK s \in batch[w].pages : r.channel = s.channel /\ r.uri = s.uri
            BY <3>3 DEF Stale
      <4>2. CASE r.path = s.path
            BY <1>1, <3>1, <4>1, <4>2 DEF RowPaths
      <4>3. CASE r.path # s.path
        <5>1. r \in Renamed(w)
              BY <3>3, <4>1, <4>3 DEF Renamed
        <5>   QED  BY <1>1, <3>1, <5>1 DEF RowPaths, CommitTx
      <4>   QED  BY <4>2, <4>3
    <3>4. CASE r \in Stale(w)
      <4>1. PICK k \in DOMAIN jobs' \ DOMAIN jobs :
              jobs'[k] = [kind |-> "expire", path |-> p, open |-> TRUE, runner |-> NoOne]
            BY <3>1, <3>4, CommitJobsStay DEF Calm
      <4>   QED  BY <1>4, <4>1 DEF WillExpire
    <3>   QED  BY <3>2, <3>3, <3>4
  <2>4. ASSUME NEW j \in DOMAIN jobs, WillExpire(j, p)
        PROVE  j \in DOMAIN jobs' /\ WillExpire(j, p)'
    <3>1. \A v \in Worker : batch'[v].step \in {"recording", "done"} => batch'[v].job # j
      <4>1. jobs[j].kind = "expire" /\ j # batch'[w].job
            BY <1>2, <1>3, <2>4 DEF WillExpire
      <4>2. ASSUME NEW v \in Worker, batch'[v].step \in {"recording", "done"}
            PROVE  batch'[v].job # j
        <5>1. CASE v = w
              BY <4>1, <5>1
        <5>2. CASE v # w
          <6>1. batch'[v] = batch[v]
                BY <1>1, <5>2 DEF Frame
          <6>   QED  BY <2>4, <4>2, <6>1 DEF WillExpire
        <5>   QED  BY <5>1, <5>2
      <4>   QED  BY <4>2
    <3>   QED  BY <1>3, <2>4, <3>1 DEF WillExpire
  <2>5. CASE p \in leftBehind
        BY <1>1, <2>5 DEF RowPaths, CommitTx
  <2>   QED  BY <2>1, <2>2, <2>3, <2>4, <2>5 DEF Calm, Smooth, Remembered
<1>   QED  BY <1>1, <1>4, <1>5, <1>6, <1>7 DEF Calm, Smooth

--------------------------------------------------------------------------------

\* Until something fails.
SmoothInv == PInv /\ troubles \in Nat /\ (troubles = 0 => Smooth)

LEMMA InitSmooth == Init => SmoothInv
<1>   SUFFICES ASSUME Init PROVE troubles \in Nat /\ Smooth
      BY InitPInv DEF SmoothInv
<1>1. troubles \in Nat /\ DOMAIN files = Path /\ \A p \in Path : files[p] = NoPage
      BY DEF Init
<1>2. resources = {} /\ temps = {} /\ \A w \in Worker : batch[w] = Idle
      BY DEF Init
<1>   QED  BY <1>1, <1>2 DEF Smooth, Placed, Orderly, Untouched, Runs, Remembered, Idle

LEMMA NextTroubles ==
  ASSUME SmoothInv, [Next]_vars
  PROVE  troubles' \in Nat /\ (troubles' = 0 => troubles = 0)
<1>1. ASSUME NEW w \in Worker, NEW j \in DOMAIN jobs, NEW kind, Claim(w, j, kind)
      PROVE  troubles' = troubles \/ troubles' = troubles + 1
      BY <1>1 DEF Claim, Troubled
<1>2. ASSUME NEW w \in Worker,
             \/ \E j \in DOMAIN jobs : Render(w, j) \/ StartExpire(w, j)
             \/ RenderFails(w) \/ WriteFails(w) \/ \E p \in batch[w].order : UndoFails(w, p)
             \/ RemoveFails(w) \/ RecordExpiry(w)
      PROVE  troubles' = troubles \/ troubles' = troubles + 1
      BY <1>1, <1>2 DEF Render, StartExpire, RenderFails, WriteFails, UndoFails, RemoveFails, RecordExpiry, Troubled
<1>3. ASSUME NEW w \in Worker,
             \/ OpenTx(w) \/ \E r \in batch[w].todo : ReadOld(w, r)
             \/ CreateTemp(w) \/ RenameTemp(w) \/ SweepTemp(w) \/ CommitTx(w)
             \/ \E p \in batch[w].order : UndoRemove(w, p) \/ UndoTemp(w, p)
             \/ UndoRename(w) \/ Undone(w) \/ RemoveFile(w) \/ Report(w)
      PROVE  troubles' = troubles
      BY <1>3 DEF OpenTx, ReadOld, CreateTemp, RenameTemp, SweepTemp, CommitTx, UndoRemove, UndoTemp,
             UndoRename, Undone, RemoveFile, Report
<1>4. CASE (\E d \in Document : CheckIn(d)) \/ UNCHANGED vars
          \/ \E d \in Document, channels \in Selection : Schedule(d, channels)
      BY <1>4 DEF CheckIn, Schedule, vars, SmoothInv
<1>5. CASE Crash
      BY <1>5 DEF Crash, Troubled, SmoothInv
<1>   QED  BY <1>2, <1>3, <1>4, <1>5 DEF Next, SmoothInv

LEMMA NextSmooth == FilesAreDistinct /\ SmoothInv /\ [Next]_vars => SmoothInv'
<1>   SUFFICES ASSUME FilesAreDistinct, SmoothInv, [Next]_vars PROVE SmoothInv'
      OBVIOUS
<1>1. PInv' /\ troubles' \in Nat
      BY NextPInv, NextTroubles DEF SmoothInv
<1>2. SUFFICES ASSUME troubles' = 0 PROVE Smooth'
      BY <1>1 DEF SmoothInv
<1>3. Calm
      BY <1>2, NextTroubles DEF SmoothInv, Calm
<1>4. ~Troubled
      BY <1>2, <1>3 DEF Troubled, Calm
<1>5. CASE UNCHANGED vars
      BY <1>3, <1>5, MoreJobsSmooth DEF vars, rowVars
<1>6. CASE \E d \in Document : CheckIn(d)
      BY <1>3, <1>6, MoreJobsSmooth DEF CheckIn
<1>7. ASSUME NEW d \in Document, NEW channels \in Selection, Schedule(d, channels)
      PROVE  Smooth'
  <2>1. PICK job : jobs' = Append(jobs, job)
        BY <1>7 DEF Schedule
  <2>2. jobs \in Seq(JobType)
        BY <1>3 DEF Calm, PInv, Jobs
  <2>3. DOMAIN jobs \subseteq DOMAIN jobs' /\ \A j \in DOMAIN jobs : jobs'[j] = jobs[j]
        BY <2>1, <2>2, AppendProperties
  <2>   QED  BY <1>3, <1>7, <2>3, MoreJobsSmooth DEF Schedule, rowVars
<1>8. CASE Crash
      BY <1>4, <1>8 DEF Crash
<1>9. CASE \E w \in Worker, j \in DOMAIN jobs : Render(w, j) \/ StartExpire(w, j)
      BY <1>2, <1>3, <1>9, RenderSmooth, StartExpireSmooth
<1>10. ASSUME NEW w \in Worker,
              \/ RenderFails(w) \/ OpenTx(w)
              \/ \E r \in batch[w].todo : ReadOld(w, r)
              \/ CreateTemp(w) \/ RenameTemp(w) \/ SweepTemp(w) \/ WriteFails(w) \/ CommitTx(w)
       PROVE  Smooth'
  <2>1. CASE RenderFails(w)
        BY <1>4, <2>1 DEF RenderFails
  <2>   QED  BY <1>2, <1>3, <1>10, <2>1, OpenTxSmooth, ReadOldSmooth, CreateTempSmooth, RenameTempSmooth,
                SweepTempSmooth, WriteFailsIsTrouble, CommitSmooth
<1>11. ASSUME NEW w \in Worker,
              \/ \E p \in batch[w].order : UndoRemove(w, p) \/ UndoTemp(w, p) \/ UndoFails(w, p)
              \/ UndoRename(w) \/ Undone(w)
       PROVE  Smooth'
      BY <1>3, <1>11, CalmFacts DEF Orderly, UndoRemove, UndoTemp, UndoFails, UndoRename, Undone
<1>12. ASSUME NEW w \in Worker,
              RemoveFile(w) \/ RemoveFails(w) \/ RecordExpiry(w) \/ Report(w)
       PROVE  Smooth'
  <2>1. CASE RemoveFails(w)
        BY <1>4, <2>1 DEF RemoveFails
  <2>   QED  BY <1>2, <1>3, <1>12, <2>1, RemoveFileSmooth, RecordExpirySmooth, ReportSmooth
<1>   QED  BY <1>5, <1>6, <1>7, <1>8, <1>9, <1>10, <1>11, <1>12 DEF Next

\* Until something fails, no file is forgotten but the one a change of a file
\* name leaves: a file that no row names was written by a publish that has not
\* committed yet, or an expire job that is still open names it (store.Publish
\* enqueues one for every row it drops, in the transaction that drops it), or the
\* row that named it took another path when the address was published again.
THEOREM NoFileIsForgotten ==
  ASSUME FilesAreDistinct
  PROVE  Spec => []OrphansAreExpiring
<1>1. SmoothInv => OrphansAreExpiring
      BY DEF SmoothInv, Smooth, Remembered, WillExpire, RowPaths, OrphansAreExpiring, Reconcile, Compare,
             Expiring
<1>2. Init => SmoothInv
      BY InitSmooth
<1>3. SmoothInv /\ [Next]_vars => SmoothInv'
      BY NextSmooth
<1>   QED  BY <1>1, <1>2, <1>3, PTL DEF Spec

\* Until something fails, whoever reads the file of a row finds the page that the
\* row records or none, but for a publish that is about to record its own
\* (Batch.Put inside store.Publish, after every collision was refused).
THEOREM ServedAsRecorded ==
  ASSUME FilesAreDistinct
  PROVE  Spec => []PagesMatchRows
<1>1. SmoothInv => PagesMatchRows
      BY DEF SmoothInv, Smooth, PagesMatchRows
<1>2. Init => SmoothInv
      BY InitSmooth
<1>3. SmoothInv /\ [Next]_vars => SmoothInv'
      BY NextSmooth
<1>   QED  BY <1>1, <1>2, <1>3, PTL DEF Spec

--------------------------------------------------------------------------------
(***************************************************************************)
(* What comes before: Cascade, the request that asks for a publish of a    *)
(* document with its relatives.  Nothing above depends on what follows.    *)
(*                                                                         *)
(* The request reads the graph row by row while the rows change, so        *)
(* nothing of it is true of the documents; it is true of what was read.    *)
(* While the graph is loaded, whatever was met is loaded or in the queue   *)
(* (Loading); so at the end nothing refers out of it (Closed).  While it   *)
(* is walked, every reference of what was visited is in the set, in the    *)
(* queue, refused, or still to be looked at (Looked), what is in the set   *)
(* or the queue passes the gate and was referred to by something before it *)
(* (Led), is in every set the rule allows (Forced), and nothing is in two  *)
(* places (Apart, RefusedOnce).                                            *)
(***************************************************************************)

Uids      == Docs \cup {NoDocument}
NodeType  == [row : RowType, version : 0..MaxVersion, refs : Seq(Uids)]
Refusals  == [document : Uids, referrer : Docs,
              reason : {"missing", "permission", "checked_out", "state", "no_version"}]
Reading   == {"asked", "reading", "read", "referring"}
Planned   == {"planned", "scheduling", "scheduled"}

IsRequest(q) ==
  /\ DOMAIN q = {"at", "dry", "channels", "queue", "seen", "graph", "refs", "set", "refusals"}
  /\ q.at \in Reading \cup {"gathering", "scheduling"} \cup Ended
  /\ q.dry \in BOOLEAN /\ q.channels \in {"every", "own", "another"}
  /\ q.queue \in Seq(Docs) /\ q.set \in Seq(Docs) /\ q.seen \subseteq Docs
  /\ q.graph \in [DOMAIN q.graph -> NodeType] /\ DOMAIN q.graph \subseteq Docs
  /\ q.refs \in Seq(Uids) /\ q.refusals \in Seq(Refusals)

RelatedJob  == [document : Docs, version : Nat, channels : {0} \cup {Site[d] : d \in Docs}]
ToldType == [document : Docs, root : {Root}, related : Seq(Docs), refusals : Seq(Refusals)]

CascadeTypes ==
  /\ docs \in [Docs -> RowType]
  /\ DOMAIN content = Docs /\ \A d \in Docs : content[d] \in Contents[d]
  /\ fails \in BOOLEAN /\ changes \in 0..MaxChanges
  /\ IsRequest(request)
  /\ scheduled \in Seq(RelatedJob) /\ told \in Seq(ToldType)

Named(s) == ToSet(s) \ {NoDocument}

\* While the graph is read: whatever was met is loaded, or will be.
Loading(q) ==
  /\ q.set = <<>> /\ q.refusals = <<>>
  /\ Root \in q.seen /\ q.seen = DOMAIN q.graph \cup ToSet(q.queue)
  /\ \A d \in DOMAIN q.graph : Named(q.graph[d].refs) \subseteq q.seen
  /\ q.at \in {"asked", "reading"} => q.refs = <<>>
  /\ q.at \in {"read", "referring"} => q.queue # <<>> /\ Head(q.queue) \in DOMAIN q.graph

\* Once it is: nothing refers out of it.
Closed(graph) == Root \in DOMAIN graph /\ \A d \in DOMAIN graph : Named(graph[d].refs) \subseteq DOMAIN graph

\* With each of its members, T has what that refers to and passes.
Follows(graph, T) ==
  /\ Root \in T
  /\ \A d \in T : \A e \in Named(graph[d].refs) : gate(graph[e]) = "passes" => e \in T

Refers(q, k, e) == e \in ToSet(q.graph[q.set[k]].refs)

\* A reference of a document that was visited is taken along, refused or waits its turn.
Answered(q, d, e) ==
  \/ e \in q.seen
  \/ e = NoDocument /\ Refusal(e, d, "missing") \in ToSet(q.refusals)

\* The documents that were visited and those in the queue, each met once.
Apart(q) ==
  /\ IsInjective(q.set) /\ IsInjective(q.queue)
  /\ ToSet(q.set) \cap ToSet(q.queue) = {}
  /\ IF q.set = <<>> THEN q.queue = <<Root>> /\ q.refs = <<>> ELSE q.set[1] = Root

TakenAlong(q) == ToSet(q.set) \cup ToSet(q.queue)

\* Each of them but the root passes, and something that was visited before refers to it.
Led(q) ==
  /\ \A e \in TakenAlong(q) \ {Root} : gate(q.graph[e]) = "passes"
  /\ \A n \in 2..Len(q.set) : \E k \in 1..(n - 1) : Refers(q, k, q.set[n])
  /\ \A e \in ToSet(q.queue) \ {Root} : \E k \in DOMAIN q.set : Refers(q, k, e)

\* Whatever else was met is refused, once and with its reason.
RefusedOnce(q) ==
  /\ TakenAlong(q) \subseteq q.seen /\ q.seen \subseteq DOMAIN q.graph
  /\ \A e \in q.seen \ TakenAlong(q) :
       \E r \in ToSet(q.refusals) : r.document = e /\ r.reason = gate(q.graph[e])
  /\ \A r \in ToSet(q.refusals) :
       r.referrer \in ToSet(q.set) /\ r.document \notin TakenAlong(q) /\ r.document \in q.seen \cup {NoDocument}
  /\ \A i, j \in DOMAIN q.refusals :
       q.refusals[i].document = q.refusals[j].document /\ q.refusals[i].document # NoDocument => i = j

\* Of all that were visited, only the last has references that were not looked at yet.
Looked(q) ==
  /\ q.refs # <<>> => ToSet(q.refs) \subseteq ToSet(q.graph[q.set[Len(q.set)]].refs)
  /\ \A n \in DOMAIN q.set : \A e \in ToSet(q.graph[q.set[n]].refs) :
       Answered(q, q.set[n], e) \/ (n = Len(q.set) /\ e \in ToSet(q.refs))

Forced(q) == \A T \in SUBSET DOMAIN q.graph : Follows(q.graph, T) => TakenAlong(q) \subseteq T

Walking(q) == Closed(q.graph) /\ Apart(q) /\ Led(q) /\ RefusedOnce(q) /\ Looked(q) /\ Forced(q)

\* What GatheredIsRight asks of a plan.
Right(q) ==
  LET graph == q.graph
      set == q.set
      refused == ToSet(q.refusals)
  IN  /\ IsInjective(set) /\ ToSet(set) = GoesAlong(graph) /\ Head(set) = Root
      /\ \A n \in 2..Len(set) : \E k \in 1..(n - 1) : set[n] \in ToSet(graph[set[k]].refs)
      /\ \A d \in ToSet(set) : \A e \in ToSet(graph[d].refs) :
           \/ e \in ToSet(set)
           \/ e = NoDocument /\ Refusal(e, d, "missing") \in refused
           \/ \E r \in refused : r.document = e /\ r.reason = gate(graph[e])
      /\ \A r \in refused : r.referrer \in ToSet(set) /\ r.document \notin ToSet(set)
      /\ \A d \in Docs : Cardinality({i \in DOMAIN q.refusals : q.refusals[i].document = d}) <= 1

\* What is to be scheduled: each document once, in a version it has.
CanRun(q) ==
  /\ ~q.dry /\ IsInjective(q.set) /\ q.set # <<>>
  /\ \A d \in ToSet(q.set) : d \in DOMAIN q.graph /\ q.graph[d].version # 0

Walk(q) ==
  /\ q.at \in Reading => Loading(q)
  /\ q.at = "gathering" => Walking(q)
  /\ q.at \in Planned /\ q.set # <<>> => Right(q)
  /\ q.at \in {"scheduling", "scheduled"} => CanRun(q)

\* A version that was read is one the document has.
ReadVersionsExist == \A d \in DOMAIN request.graph : request.graph[d].version <= docs[d].version

Scheduling ==
  /\ scheduled # <<>> => request.at \in {"scheduling", "scheduled", "cut"} /\ CanRun(request)
  /\ request.at \in {"scheduling", "scheduled"} \/ scheduled # <<>> => (fails => request.refusals = <<>>)
  /\ Len(scheduled) <= Len(request.set)
  /\ \A n \in DOMAIN scheduled :
       /\ scheduled[n].document = request.set[n]
       /\ scheduled[n].version = request.graph[request.set[n]].version
       /\ scheduled[n].channels \in {0, Site[request.set[n]]}
  /\ Len(told) <= Len(scheduled)
  /\ told # <<>> => Len(scheduled) = Len(request.set) /\ told[1].refusals = request.refusals
  /\ \A n \in DOMAIN told : told[n].document = scheduled[n].document
  /\ request.at = "scheduled" => Len(told) = Len(request.set)

CascadeInv == CascadeTypes /\ Walk(request) /\ ReadVersionsExist /\ Scheduling
--------------------------------------------------------------------------------
(* Sequences                                                                  *)

\* What a sequence holds.
LEMMA Held ==
  ASSUME NEW S, NEW s \in Seq(S)
  PROVE  /\ ToSet(s) \subseteq S
         /\ \A i \in DOMAIN s : s[i] \in ToSet(s)
         /\ \A e \in ToSet(s) : \E i \in DOMAIN s : s[i] = e
BY DEF ToSet

\* One more at the end.
LEMMA Appended ==
  ASSUME NEW S, NEW s \in Seq(S), NEW e \in S
  PROVE  /\ Append(s, e) \in Seq(S) /\ Len(Append(s, e)) = Len(s) + 1
         /\ Append(s, e)[Len(s) + 1] = e /\ \A i \in 1..Len(s) : Append(s, e)[i] = s[i]
         /\ DOMAIN Append(s, e) = DOMAIN s \cup {Len(s) + 1} /\ \A i \in DOMAIN s : Append(s, e)[i] = s[i]
         /\ ToSet(Append(s, e)) = ToSet(s) \cup {e}
         /\ IsInjective(s) /\ e \notin ToSet(s) => IsInjective(Append(s, e))
<1>   DEFINE t == Append(s, e)
<1>1. /\ t \in Seq(S) /\ Len(t) = Len(s) + 1 /\ t[Len(s) + 1] = e /\ \A i \in 1..Len(s) : t[i] = s[i]
      /\ DOMAIN t = 1..(Len(s) + 1) /\ DOMAIN s = 1..Len(s) /\ Len(s) \in Nat
      OBVIOUS
<1>   HIDE DEF t
<1>2. DOMAIN t = DOMAIN s \cup {Len(s) + 1} /\ \A i \in DOMAIN s : t[i] = s[i]
      BY <1>1
<1>3. ToSet(t) \subseteq ToSet(s) \cup {e}
  <2>   SUFFICES ASSUME NEW i \in DOMAIN t PROVE t[i] \in ToSet(s) \cup {e}
        BY DEF ToSet
  <2>1. i \in 1..Len(s) \/ i = Len(s) + 1  BY <1>1
  <2>   QED  BY <1>1, <2>1 DEF ToSet
<1>4. ToSet(s) \cup {e} \subseteq ToSet(t)
  <2>1. \A i \in DOMAIN s : i \in DOMAIN t /\ t[i] = s[i]
        BY <1>1
  <2>2. e \in ToSet(t)
        BY <1>1 DEF ToSet
  <2>   QED  BY <2>1, <2>2 DEF ToSet
<1>5. IsInjective(s) /\ e \notin ToSet(s) => IsInjective(t)
  <2>1. \A i \in DOMAIN s : s[i] # e \/ e \in ToSet(s)
        BY DEF ToSet
  <2>2. \A i \in DOMAIN t : i \in DOMAIN s \/ i = Len(s) + 1
        BY <1>1
  <2>   QED  BY <1>1, <2>1, <2>2 DEF IsInjective
<1>   QED  BY <1>1, <1>3, <1>4, <1>5, <1>2 DEF t

\* The first and the others.
LEMMA Headed ==
  ASSUME NEW S, NEW s \in Seq(S), s # <<>>
  PROVE  /\ Head(s) \in S /\ Tail(s) \in Seq(S) /\ Len(Tail(s)) = Len(s) - 1
         /\ ToSet(s) = {Head(s)} \cup ToSet(Tail(s))
         /\ IsInjective(s) => Head(s) \notin ToSet(Tail(s)) /\ IsInjective(Tail(s))
<1>   DEFINE t == Tail(s)
<1>1. /\ t \in Seq(S) /\ Len(s) \in Nat \ {0} /\ Len(t) = Len(s) - 1 /\ Head(s) = s[1] /\ Head(s) \in S
      /\ \A i \in 1..Len(t) : t[i] = s[i + 1]
      /\ DOMAIN t = 1..(Len(s) - 1) /\ DOMAIN s = 1..Len(s)
      OBVIOUS
<1>   HIDE DEF t
<1>2. \A i \in DOMAIN s : i = 1 \/ (i - 1 \in DOMAIN t /\ s[i] = t[i - 1])
      BY <1>1
<1>3. \A i \in DOMAIN t : i + 1 \in DOMAIN s /\ t[i] = s[i + 1] /\ i + 1 # 1
      BY <1>1
<1>4. ToSet(s) = {Head(s)} \cup ToSet(t)
      BY <1>1, <1>2, <1>3 DEF ToSet
<1>5. IsInjective(s) => Head(s) \notin ToSet(t) /\ IsInjective(t)
  <2>   SUFFICES ASSUME IsInjective(s) PROVE Head(s) \notin ToSet(t) /\ IsInjective(t)
        OBVIOUS
  <2>1. 1 \in DOMAIN s /\ \A i, j \in DOMAIN s : s[i] = s[j] => i = j
        BY <1>1 DEF IsInjective
  <2>2. \A i \in DOMAIN t : t[i] # Head(s)
        BY <1>1, <1>3, <2>1
  <2>3. \A i, j \in DOMAIN t : t[i] = t[j] => i = j
    <3>   SUFFICES ASSUME NEW i \in DOMAIN t, NEW j \in DOMAIN t, t[i] = t[j] PROVE i = j
          OBVIOUS
    <3>1. i + 1 = j + 1
          BY <1>3, <2>1
    <3>   QED  BY <1>1, <3>1
  <2>   QED  BY <2>2, <2>3 DEF ToSet, IsInjective
<1>   QED  BY <1>1, <1>4, <1>5 DEF t

--------------------------------------------------------------------------------
(* Reading the graph                                                          *)

RequestFields == {"at", "dry", "channels", "queue", "seen", "graph", "refs", "set", "refusals"}

\* All but what is named stays as it was.
SameBut(p, q, fields) == DOMAIN p = RequestFields /\ \A f \in RequestFields \ fields : p[f] = q[f]

LEMMA BeginLoads ==
  ASSUME NEW q, IsRequest(q), Loading(q), q.at = "asked", NEW p, p.at = "reading", SameBut(p, q, {"at"})
  PROVE  IsRequest(p) /\ Loading(p)
BY DEF SameBut, RequestFields, IsRequest, Loading, Reading

\* A node without its version refers to nothing.
LEMMA ReadDocumentLoads ==
  ASSUME NEW q, IsRequest(q), Loading(q), q.at = "reading", q.queue # <<>>,
         NEW row \in RowType, NEW p, p.at = "read", SameBut(p, q, {"at", "graph"}),
         p.graph = WithNode(q.graph, Head(q.queue), Node(row, 0, <<>>))
  PROVE  IsRequest(p) /\ Loading(p)
<1>   DEFINE d == Head(q.queue)
             node == Node(row, 0, <<>>)
<1>1. /\ d \in Docs /\ d \in ToSet(q.queue)
      BY Headed DEF IsRequest
<1>2. node \in NodeType /\ node.refs = <<>> /\ Named(node.refs) = {}
      BY CascadeAssumption DEF Node, NodeType, Named, ToSet, Uids
<1>   HIDE DEF node
<1>3. /\ DOMAIN p.graph = DOMAIN q.graph \cup {d}
      /\ \A e \in DOMAIN p.graph : p.graph[e] = IF e = d THEN node ELSE q.graph[e]
      /\ p.graph \in [DOMAIN p.graph -> NodeType] /\ DOMAIN p.graph \subseteq Docs
      BY <1>1, <1>2 DEF WithNode, IsRequest, node
<1>4. IsRequest(p)
      BY <1>3 DEF SameBut, RequestFields, IsRequest, Reading
<1>5. Loading(p)
      BY <1>1, <1>2, <1>3 DEF SameBut, RequestFields, IsRequest, Loading
<1>   QED  BY <1>4, <1>5

LEMMA ReadVersionLoads ==
  ASSUME NEW q, IsRequest(q), Loading(q), q.at = "read", NEW refs \in Seq(Uids),
         NEW version \in 0..MaxVersion, NEW p, p.at = "referring", p.refs = refs,
         SameBut(p, q, {"at", "graph", "refs"}),
         p.graph = [q.graph EXCEPT ![Head(q.queue)].version = version]
  PROVE  IsRequest(p) /\ Loading(p)
<1>   DEFINE d == Head(q.queue)
<1>1. d \in DOMAIN q.graph
      BY DEF Loading
<1>2. /\ DOMAIN p.graph = DOMAIN q.graph
      /\ \A e \in DOMAIN q.graph : p.graph[e] \in NodeType /\ p.graph[e].refs = q.graph[e].refs
      /\ p.graph \in [DOMAIN p.graph -> NodeType]
  <2>1. /\ p.graph = [e \in DOMAIN q.graph |-> p.graph[e]]
        /\ \A e \in DOMAIN q.graph :
             p.graph[e] = IF e = d THEN [q.graph[d] EXCEPT !.version = version] ELSE q.graph[e]
        BY <1>1 DEF IsRequest
  <2>2. \A e \in DOMAIN q.graph : q.graph[e] \in NodeType
        BY DEF IsRequest
  <2>3. \A e \in DOMAIN q.graph : p.graph[e] \in NodeType /\ p.graph[e].refs = q.graph[e].refs
        BY <1>1, <2>1, <2>2 DEF NodeType
  <2>   QED  BY <2>1, <2>3
<1>3. IsRequest(p)
      BY <1>2 DEF SameBut, RequestFields, IsRequest, Reading
<1>4. Loading(p)
      BY <1>2 DEF SameBut, RequestFields, IsRequest, Loading
<1>   QED  BY <1>3, <1>4

LEMMA ReadReferenceLoads ==
  ASSUME NEW q, IsRequest(q), Loading(q), q.at = "referring", q.refs # <<>>,
         NEW ref \in Uids, NEW p, p.at = "referring", SameBut(p, q, {"at", "graph", "refs", "queue", "seen"}),
         p.refs = Tail(q.refs), p.graph = [q.graph EXCEPT ![Head(q.queue)].refs = Append(@, ref)],
         IF ref \in q.seen \cup {NoDocument} THEN p.queue = q.queue /\ p.seen = q.seen
         ELSE p.queue = Append(q.queue, ref) /\ p.seen = q.seen \cup {ref}
  PROVE  IsRequest(p) /\ Loading(p)
<1>   DEFINE d == Head(q.queue)
<1>1. d \in DOMAIN q.graph /\ q.queue # <<>>
      BY DEF Loading
<1>2. q.graph[d].refs \in Seq(Uids) /\ q.graph[d] \in NodeType
      BY <1>1 DEF IsRequest, NodeType
<1>3. /\ Append(q.graph[d].refs, ref) \in Seq(Uids)
      /\ ToSet(Append(q.graph[d].refs, ref)) = ToSet(q.graph[d].refs) \cup {ref}
      BY <1>2, Appended
<1>4. /\ DOMAIN p.graph = DOMAIN q.graph
      /\ \A e \in DOMAIN q.graph : p.graph[e] \in NodeType
      /\ \A e \in DOMAIN q.graph : Named(p.graph[e].refs) \subseteq Named(q.graph[e].refs) \cup ({ref} \ {NoDocument})
      /\ p.graph \in [DOMAIN p.graph -> NodeType]
  <2>1. /\ DOMAIN p.graph = DOMAIN q.graph
        /\ \A e \in DOMAIN q.graph : p.graph[e] = IF e = d THEN [q.graph[d] EXCEPT !.refs = Append(@, ref)] ELSE q.graph[e]
        /\ p.graph = [e \in DOMAIN q.graph |-> p.graph[e]]
        BY <1>1 DEF IsRequest
  <2>2. /\ [q.graph[d] EXCEPT !.refs = Append(@, ref)] \in NodeType
        /\ [q.graph[d] EXCEPT !.refs = Append(@, ref)].refs = Append(q.graph[d].refs, ref)
        BY <1>2, <1>3 DEF NodeType
  <2>3. \A e \in DOMAIN q.graph : q.graph[e] \in NodeType
        BY DEF IsRequest
  <2>4. \A e \in DOMAIN q.graph : p.graph[e] \in NodeType
        BY <2>1, <2>2, <2>3
  <2>5. p.graph \in [DOMAIN p.graph -> NodeType]
        BY <2>1, <2>4
  <2>6. \A e \in DOMAIN q.graph : Named(p.graph[e].refs) \subseteq Named(q.graph[e].refs) \cup ({ref} \ {NoDocument})
        BY <1>3, <2>1, <2>2 DEF Named
  <2>   QED  BY <2>1, <2>4, <2>5, <2>6
<1>5. Tail(q.refs) \in Seq(Uids)
      BY Headed DEF IsRequest
<1>6. CASE ref \in q.seen \cup {NoDocument}
  <2>1. IsRequest(p)
        BY <1>4, <1>5, <1>6 DEF SameBut, RequestFields, IsRequest, Reading
  <2>2. Loading(p)
        BY <1>1, <1>4, <1>6 DEF SameBut, RequestFields, Loading, Named
  <2>   QED  BY <2>1, <2>2
<1>7. CASE ref \notin q.seen \cup {NoDocument}
  <2>1. ref \in Docs /\ p.queue = Append(q.queue, ref) /\ p.seen = q.seen \cup {ref}
        BY <1>7 DEF Uids
  <2>2. /\ p.queue \in Seq(Docs) /\ p.queue # <<>> /\ Head(p.queue) = d
        /\ ToSet(p.queue) = ToSet(q.queue) \cup {ref}
    <3>1. q.queue \in Seq(Docs)  BY DEF IsRequest
    <3>   QED  BY <1>1, <2>1, <3>1, Appended
  <2>3. IsRequest(p)
        BY <1>4, <1>5, <2>1, <2>2 DEF SameBut, RequestFields, IsRequest, Reading
  <2>4. Loading(p)
        BY <1>1, <1>4, <2>1, <2>2 DEF SameBut, RequestFields, Loading, Named
  <2>   QED  BY <2>3, <2>4
<1>   QED  BY <1>6, <1>7

\* A node that is loaded leaves the queue.
LEMMA NodeLoads ==
  ASSUME NEW q, IsRequest(q), Loading(q), q.at = "referring", q.refs = <<>>,
         NEW p, p.at = "reading", SameBut(p, q, {"at", "queue"}), p.queue = Tail(q.queue)
  PROVE  IsRequest(p) /\ Loading(p)
<1>1. /\ q.queue # <<>> /\ Head(q.queue) \in DOMAIN q.graph /\ q.queue \in Seq(Docs)
      BY DEF Loading, IsRequest
<1>2. Tail(q.queue) \in Seq(Docs) /\ ToSet(q.queue) = {Head(q.queue)} \cup ToSet(Tail(q.queue))
      BY <1>1, Headed
<1>3. IsRequest(p)
      BY <1>2 DEF SameBut, RequestFields, IsRequest, Reading
<1>4. Loading(p)
      BY <1>1, <1>2 DEF SameBut, RequestFields, Loading
<1>   QED  BY <1>3, <1>4

\* Nothing is left to load: what was loaded refers to nothing else.
LEMMA LoadedIsClosed ==
  ASSUME NEW q, IsRequest(q), Loading(q), q.at = "reading", q.queue = <<>>, NEW p, p.at = "gathering",
         SameBut(p, q, {"at", "queue", "seen"}), p.queue = <<Root>>, p.seen = {Root}
  PROVE  IsRequest(p) /\ Walking(p)
<1>1. ToSet(q.queue) = {} /\ q.refs = <<>> /\ q.set = <<>> /\ q.refusals = <<>>
      BY DEF Loading, ToSet
<1>2. Closed(q.graph) /\ Root \in Docs
      BY <1>1 DEF Loading, Closed, IsRequest
<1>3. p.graph = q.graph /\ p.set = <<>> /\ p.refs = <<>> /\ p.refusals = <<>>
      BY <1>1 DEF SameBut, RequestFields
<1>4. /\ <<Root>> \in Seq(Docs) /\ ToSet(<<Root>>) = {Root} /\ ToSet(<<>>) = {}
      /\ IsInjective(<<Root>>) /\ IsInjective(<<>>)
      BY <1>2 DEF ToSet, IsInjective
<1>5. IsRequest(p)
      BY <1>2, <1>4 DEF SameBut, RequestFields, IsRequest
<1>6. TakenAlong(p) = {Root}
      BY <1>3, <1>4 DEF TakenAlong
<1>7. Apart(p) /\ Led(p) /\ Looked(p) /\ Forced(p)
      BY <1>3, <1>4, <1>6 DEF Apart, Led, Looked, Forced, Follows
<1>8. RefusedOnce(p)
      BY <1>2, <1>3, <1>4, <1>6 DEF RefusedOnce, Closed
<1>   QED  BY <1>2, <1>3, <1>5, <1>7, <1>8 DEF Walking

--------------------------------------------------------------------------------
(* The walk                                                                   *)

LEMMA VisitWalks ==
  ASSUME NEW q, IsRequest(q), Walking(q), q.at = "gathering", q.refs = <<>>, q.queue # <<>>,
         NEW p, SameBut(p, q, {"queue", "set", "refs"}), p.queue = Tail(q.queue),
         p.set = Append(q.set, Head(q.queue)), p.refs = q.graph[Head(q.queue)].refs
  PROVE  IsRequest(p) /\ Walking(p)
<1>   DEFINE d == Head(q.queue)
             N == Len(q.set)
<1>1. /\ q.queue \in Seq(Docs) /\ q.set \in Seq(Docs) /\ q.refusals \in Seq(Refusals) /\ N \in Nat
      /\ Apart(q) /\ Led(q) /\ RefusedOnce(q) /\ Looked(q) /\ Forced(q) /\ Closed(q.graph)
      BY DEF IsRequest, Walking
<1>2. /\ d \in Docs /\ Tail(q.queue) \in Seq(Docs)
      /\ ToSet(q.queue) = {d} \cup ToSet(Tail(q.queue))
      /\ d \notin ToSet(Tail(q.queue)) /\ IsInjective(Tail(q.queue))
      BY <1>1, Headed DEF Apart
<1>3. /\ p.set \in Seq(Docs) /\ Len(p.set) = N + 1 /\ p.set[N + 1] = d
      /\ \A n \in 1..N : p.set[n] = q.set[n]
      /\ ToSet(p.set) = ToSet(q.set) \cup {d} /\ d \notin ToSet(q.set) /\ IsInjective(p.set)
      /\ DOMAIN p.set = 1..(N + 1) /\ DOMAIN q.set = 1..N
      BY <1>1, <1>2, Appended DEF Apart
<1>4. TakenAlong(p) = TakenAlong(q)
      BY <1>2, <1>3 DEF TakenAlong
<1>5. /\ p.graph = q.graph /\ p.refusals = q.refusals /\ p.seen = q.seen /\ p.at = q.at
      /\ DOMAIN p = RequestFields /\ p.dry = q.dry /\ p.channels = q.channels
      BY DEF SameBut, RequestFields
<1>6. d \in DOMAIN q.graph /\ q.graph[d] \in NodeType
      BY <1>1, <1>2 DEF RefusedOnce, TakenAlong, IsRequest
<1>7. IsRequest(p)
      BY <1>1, <1>2, <1>3, <1>5, <1>6 DEF IsRequest, RequestFields, NodeType
<1>8. Apart(p)
  <2>1. p.set # <<>> /\ p.set[1] = Root
    <3>1. CASE q.set = <<>>
          BY <1>1, <1>3, <3>1 DEF Apart
    <3>2. CASE q.set # <<>>
          BY <1>1, <1>3, <3>2 DEF Apart
    <3>   QED  BY <3>1, <3>2
  <2>   QED  BY <1>1, <1>2, <1>3, <2>1 DEF Apart
<1>9. Led(p)
  <2>1. \A n \in 1..N : \A e : Refers(p, n, e) <=> Refers(q, n, e)
        BY <1>3, <1>5 DEF Refers
  <2>2. \A n \in 2..Len(p.set) : \E k \in 1..(n - 1) : Refers(p, k, p.set[n])
    <3>   SUFFICES ASSUME NEW n \in 2..Len(p.set) PROVE \E k \in 1..(n - 1) : Refers(p, k, p.set[n])
          OBVIOUS
    <3>1. Len(p.set) = N + 1 /\ N \in Nat
          BY <1>1, <1>3
    <3>2. n \in 2..(N + 1)
          BY <3>1
    <3>3. CASE n \in 2..N
      <4>1. p.set[n] = q.set[n] /\ \A k \in 1..(n - 1) : k \in 1..N
            BY <1>1, <1>3, <3>3
      <4>2. PICK k \in 1..(n - 1) : Refers(q, k, q.set[n])
            BY <1>1, <3>3 DEF Led
      <4>   QED  BY <2>1, <4>1, <4>2
    <3>4. CASE n = N + 1
      <4>1. q.set # <<>>  BY <1>1, <3>4
      <4>2. d # Root
            BY <1>1, <1>3, <4>1 DEF Apart, ToSet
      <4>3. PICK k \in 1..N : Refers(q, k, d)
            BY <1>1, <1>2, <1>3, <4>2 DEF Led
      <4>   QED  BY <1>1, <1>3, <2>1, <3>4, <4>3
    <3>5. n \in 2..N \/ n = N + 1
          BY <3>1, <3>2
    <3>   QED  BY <3>3, <3>4, <3>5
  <2>3. \A e \in ToSet(p.queue) \ {Root} : \E k \in DOMAIN p.set : Refers(p, k, e)
    <3>   SUFFICES ASSUME NEW e \in ToSet(p.queue) \ {Root} PROVE \E k \in DOMAIN p.set : Refers(p, k, e)
          OBVIOUS
    <3>1. PICK k \in 1..N : Refers(q, k, e)
          BY <1>1, <1>2, <1>3 DEF Led
    <3>   QED  BY <1>1, <1>3, <2>1, <3>1
  <2>   QED  BY <1>1, <1>4, <1>5, <2>2, <2>3 DEF Led
<1>10. RefusedOnce(p)
       BY <1>1, <1>3, <1>4, <1>5 DEF RefusedOnce
<1>11. Looked(p)
  <2>1. p.set[Len(p.set)] = d
        BY <1>3
  <2>2. p.refs # <<>> => ToSet(p.refs) \subseteq ToSet(p.graph[p.set[Len(p.set)]].refs)
        BY <1>5, <2>1
  <2>3. ASSUME NEW n \in DOMAIN p.set, NEW e \in ToSet(p.graph[p.set[n]].refs)
        PROVE  Answered(p, p.set[n], e) \/ (n = Len(p.set) /\ e \in ToSet(p.refs))
    <3>1. CASE n \in 1..N
      <4>1. Answered(q, q.set[n], e) \/ (n = N /\ e \in ToSet(q.refs))
            BY <1>1, <1>3, <1>5, <2>3, <3>1 DEF Looked
      <4>2. ToSet(q.refs) = {}
            BY DEF ToSet
      <4>   QED  BY <1>3, <1>5, <3>1, <4>1, <4>2 DEF Answered
    <3>2. CASE n = N + 1
          BY <1>3, <1>5, <2>1, <2>3, <3>2
    <3>   QED  BY <1>3, <3>1, <3>2
  <2>   QED  BY <2>2, <2>3 DEF Looked
<1>12. Forced(p)
       BY <1>1, <1>4, <1>5 DEF Forced
<1>   QED  BY <1>1, <1>5, <1>7, <1>8, <1>9, <1>10, <1>11, <1>12 DEF Walking

MeetsNext(p, q) == p = meets(q.graph, Last(q.set), [q EXCEPT !.refs = Tail(@)], Head(q.refs))

\* One reference: whatever becomes of it, the walk goes on as it should.
LEMMA MeetWalks ==
  ASSUME NEW q, IsRequest(q), Walking(q), q.at = "gathering", q.refs # <<>>,
         NEW p, MeetsNext(p, q)
  PROVE  IsRequest(p) /\ Walking(p) /\ SameBut(p, q, {"queue", "seen", "refs", "refusals"})
<1>   DEFINE N == Len(q.set)
             d == q.set[N]
             ref == Head(q.refs)
             refs == Tail(q.refs)
             gone == gate(q.graph[ref])
             missing == Refusal(ref, d, "missing")
             barred == Refusal(ref, d, gone)
<1>1. /\ q.queue \in Seq(Docs) /\ q.set \in Seq(Docs) /\ q.refusals \in Seq(Refusals) /\ N \in Nat
      /\ q.refs \in Seq(Uids) /\ q.seen \subseteq Docs /\ q.graph \in [DOMAIN q.graph -> NodeType]
      /\ Apart(q) /\ Led(q) /\ RefusedOnce(q) /\ Looked(q) /\ Forced(q) /\ Closed(q.graph) /\ DOMAIN q = RequestFields
      BY DEF IsRequest, Walking, RequestFields
<1>2. /\ q.set # <<>> /\ N \in 1..N /\ DOMAIN q.set = 1..N /\ d \in ToSet(q.set) /\ d \in Docs
      /\ Last(q.set) = d
      BY <1>1 DEF Apart, ToSet, Last
<1>3. /\ ref \in Uids /\ refs \in Seq(Uids) /\ ToSet(q.refs) = {ref} \cup ToSet(refs)
      BY <1>1, Headed
<1>4. /\ d \in TakenAlong(q) /\ d \in DOMAIN q.graph /\ TakenAlong(q) \subseteq Docs /\ NoDocument \notin Docs
      BY CascadeAssumption, <1>1, <1>2 DEF TakenAlong, RefusedOnce
<1>5. /\ ToSet(refs) \subseteq ToSet(q.graph[d].refs) /\ ref \in ToSet(q.graph[d].refs)
      /\ Refers(q, N, ref)
      BY <1>1, <1>2, <1>3 DEF Looked, Refers
<1>6. ref # NoDocument => ref \in Docs /\ ref \in DOMAIN q.graph
      BY <1>1, <1>3, <1>4, <1>5 DEF Closed, Named, Uids
<1>   HIDE DEF d, ref, refs, N
\* What is in common: of the references only this one is still to be answered.
<1>7. ASSUME NEW r, r.refs = refs, r.set = q.set, r.graph = q.graph, q.seen \subseteq r.seen,
             ToSet(q.refusals) \subseteq ToSet(r.refusals), Answered(r, d, ref)
      PROVE  Looked(r)
  <2>1. \A n \in DOMAIN q.set : \A e \in ToSet(q.graph[q.set[n]].refs) :
          Answered(q, q.set[n], e) => Answered(r, q.set[n], e)
        BY <1>7 DEF Answered
  <2>2. \A n \in DOMAIN q.set : \A e \in ToSet(q.graph[q.set[n]].refs) :
          Answered(q, q.set[n], e) \/ (n = N /\ e \in ToSet(q.refs))
        BY <1>1 DEF Looked, N
  <2>3. \A n \in DOMAIN q.set : \A e \in ToSet(q.graph[q.set[n]].refs) :
          Answered(r, q.set[n], e) \/ (n = N /\ e \in ToSet(refs))
        BY <1>3, <1>7, <2>1, <2>2 DEF d
  <2>   QED  BY <1>5, <1>7, <2>3 DEF Looked, N, d
<1>8.  /\ TakenAlong(q) \subseteq q.seen /\ q.seen \subseteq DOMAIN q.graph
       /\ \A e \in q.seen \ TakenAlong(q) :
            \E r \in ToSet(q.refusals) : r.document = e /\ r.reason = gate(q.graph[e])
       /\ \A r \in ToSet(q.refusals) :
            r.referrer \in ToSet(q.set) /\ r.document \notin TakenAlong(q) /\ r.document \in q.seen \cup {NoDocument}
       BY <1>1 DEF RefusedOnce
<1>9.  \A i, j \in DOMAIN q.refusals :
         q.refusals[i].document = q.refusals[j].document /\ q.refusals[i].document # NoDocument => i = j
       BY <1>1 DEF RefusedOnce
<1>10. q.refusals \in Seq(Refusals) /\ q.queue \in Seq(Docs) /\ IsInjective(q.queue)
       BY <1>1 DEF Apart
<1>11. CASE ref = NoDocument
  <2>1. p = [q EXCEPT !.refs = refs, !.refusals = Append(@, missing)]
        BY <1>1, <1>2, <1>11 DEF MeetsNext, meets, RequestFields, ref, refs
  <2>2. missing \in Refusals /\ missing.document = NoDocument /\ missing.referrer = d
        BY <1>2, <1>3, <1>11 DEF Refusal, Refusals
  <2>   HIDE DEF missing
  <2>3. /\ SameBut(p, q, {"refs", "refusals"}) /\ p.refs = refs /\ p.refusals = Append(q.refusals, missing)
        BY <1>1, <2>1 DEF SameBut, RequestFields
  <2>4. /\ p.queue = q.queue /\ p.set = q.set /\ p.seen = q.seen /\ p.graph = q.graph /\ p.at = q.at
        /\ p.dry = q.dry /\ p.channels = q.channels /\ DOMAIN p = RequestFields
        BY <2>3 DEF SameBut, RequestFields
  <2>5. /\ p.refusals \in Seq(Refusals) /\ Len(p.refusals) = Len(q.refusals) + 1
        /\ p.refusals[Len(q.refusals) + 1] = missing
        /\ DOMAIN p.refusals = DOMAIN q.refusals \cup {Len(q.refusals) + 1}
        /\ \A i \in DOMAIN q.refusals : p.refusals[i] = q.refusals[i]
        /\ ToSet(p.refusals) = ToSet(q.refusals) \cup {missing}
        BY <1>10, <2>2, <2>3, Appended
  <2>6. IsRequest(p)
        BY <1>3, <2>3, <2>4, <2>5 DEF IsRequest, RequestFields
  <2>7. TakenAlong(p) = TakenAlong(q)
        BY <2>4 DEF TakenAlong
  <2>8. Apart(p) /\ Led(p) /\ Forced(p)
        BY <1>1, <1>2, <2>4, <2>7 DEF Apart, Led, Forced, Refers, TakenAlong
  <2>9. Looked(p)
        BY <1>7, <1>11, <2>3, <2>4, <2>5 DEF Answered, missing
  <2>10. RefusedOnce(p)
    <3>1. /\ TakenAlong(p) \subseteq p.seen /\ p.seen \subseteq DOMAIN p.graph
          /\ \A e \in p.seen \ TakenAlong(p) :
               \E r \in ToSet(p.refusals) : r.document = e /\ r.reason = gate(p.graph[e])
          BY <1>8, <2>4, <2>5, <2>7
    <3>2. \A r \in ToSet(p.refusals) :
            r.referrer \in ToSet(p.set) /\ r.document \notin TakenAlong(p) /\ r.document \in p.seen \cup {NoDocument}
          BY <1>2, <1>4, <1>8, <2>2, <2>4, <2>5, <2>7
    <3>3. \A i, j \in DOMAIN p.refusals :
            p.refusals[i].document = p.refusals[j].document /\ p.refusals[i].document # NoDocument => i = j
      <4>1. \A i \in DOMAIN p.refusals : p.refusals[i].document # NoDocument =>
              i \in DOMAIN q.refusals /\ p.refusals[i] = q.refusals[i]
            BY <2>2, <2>5
      <4>   QED  BY <1>9, <4>1
    <3>   QED  BY <3>1, <3>2, <3>3 DEF RefusedOnce
  <2>11. SameBut(p, q, {"queue", "seen", "refs", "refusals"})
         BY <2>3 DEF SameBut
  <2>   QED  BY <1>1, <2>4, <2>6, <2>8, <2>9, <2>10, <2>11 DEF Walking
<1>12. CASE ref # NoDocument /\ ref \in q.seen
  <2>1. p = [q EXCEPT !.refs = refs]
        BY <1>1, <1>2, <1>12 DEF MeetsNext, meets, RequestFields, ref, refs
  <2>2. SameBut(p, q, {"refs"}) /\ p.refs = refs
        BY <1>1, <2>1 DEF SameBut, RequestFields
  <2>3. /\ p.queue = q.queue /\ p.set = q.set /\ p.seen = q.seen /\ p.graph = q.graph /\ p.at = q.at
        /\ p.dry = q.dry /\ p.channels = q.channels /\ DOMAIN p = RequestFields /\ p.refusals = q.refusals
        BY <2>2 DEF SameBut, RequestFields
  <2>4. IsRequest(p)
        BY <1>3, <2>2, <2>3 DEF IsRequest, RequestFields
  <2>5. TakenAlong(p) = TakenAlong(q)
        BY <2>3 DEF TakenAlong
  <2>6. Apart(p) /\ Led(p) /\ Forced(p)
        BY <1>1, <1>2, <2>3, <2>5 DEF Apart, Led, Forced, Refers, TakenAlong
  <2>7. RefusedOnce(p)
        BY <1>8, <1>9, <2>3, <2>5 DEF RefusedOnce
  <2>8. Looked(p)
        BY <1>7, <1>12, <2>2, <2>3 DEF Answered
  <2>9. SameBut(p, q, {"queue", "seen", "refs", "refusals"})
        BY <2>2 DEF SameBut
  <2>   QED  BY <1>1, <2>3, <2>4, <2>6, <2>8, <2>9, <2>7 DEF Walking
<1>13. CASE ref # NoDocument /\ ref \notin q.seen /\ gone # "passes"
  <2>1. p = [q EXCEPT !.refs = refs, !.seen = @ \cup {ref}, !.refusals = Append(@, barred)]
        BY <1>1, <1>2, <1>13 DEF MeetsNext, meets, RequestFields, ref, refs
  <2>2. barred \in Refusals /\ barred.document = ref /\ barred.referrer = d /\ barred.reason = gate(q.graph[ref])
        BY <1>2, <1>3, <1>13 DEF Refusal, Refusals, gate
  <2>   HIDE DEF barred, gone
  <2>3. /\ SameBut(p, q, {"refs", "seen", "refusals"}) /\ p.refs = refs /\ p.seen = q.seen \cup {ref}
        /\ p.refusals = Append(q.refusals, barred)
        BY <1>1, <2>1 DEF SameBut, RequestFields
  <2>4. /\ p.queue = q.queue /\ p.set = q.set /\ p.graph = q.graph /\ p.at = q.at
        /\ p.dry = q.dry /\ p.channels = q.channels /\ DOMAIN p = RequestFields
        BY <2>3 DEF SameBut, RequestFields
  <2>5. /\ p.refusals \in Seq(Refusals) /\ Len(p.refusals) = Len(q.refusals) + 1
        /\ p.refusals[Len(q.refusals) + 1] = barred
        /\ DOMAIN p.refusals = DOMAIN q.refusals \cup {Len(q.refusals) + 1}
        /\ \A i \in DOMAIN q.refusals : p.refusals[i] = q.refusals[i]
        /\ ToSet(p.refusals) = ToSet(q.refusals) \cup {barred}
        BY <1>10, <2>2, <2>3, Appended
  <2>6. IsRequest(p)
        BY <1>1, <1>3, <1>6, <1>13, <2>3, <2>4, <2>5 DEF IsRequest, RequestFields
  <2>7. TakenAlong(p) = TakenAlong(q) /\ ref \notin TakenAlong(q)
        BY <1>1, <1>13, <2>4 DEF TakenAlong, RefusedOnce
  <2>8. Apart(p) /\ Led(p) /\ Forced(p)
        BY <1>1, <1>2, <2>4, <2>7 DEF Apart, Led, Forced, Refers, TakenAlong
  <2>9. Looked(p)
        BY <1>7, <2>3, <2>4, <2>5 DEF Answered
  <2>10. RefusedOnce(p)
    <3>1. /\ TakenAlong(p) \subseteq p.seen /\ p.seen \subseteq DOMAIN p.graph
          BY <1>6, <1>13, <1>8, <2>3, <2>4, <2>7
    <3>2. \A e \in p.seen \ TakenAlong(p) :
            \E r \in ToSet(p.refusals) : r.document = e /\ r.reason = gate(p.graph[e])
          BY <1>8, <2>2, <2>3, <2>4, <2>5, <2>7
    <3>3. \A r \in ToSet(p.refusals) :
            r.referrer \in ToSet(p.set) /\ r.document \notin TakenAlong(p) /\ r.document \in p.seen \cup {NoDocument}
          BY <1>2, <1>8, <2>2, <2>3, <2>4, <2>5, <2>7
    <3>4. \A i, j \in DOMAIN p.refusals :
            p.refusals[i].document = p.refusals[j].document /\ p.refusals[i].document # NoDocument => i = j
      <4>1. \A i \in DOMAIN q.refusals : q.refusals[i] \in ToSet(q.refusals) /\ p.refusals[i] = q.refusals[i]
            BY <2>5 DEF ToSet
      <4>2. \A i \in DOMAIN q.refusals : p.refusals[i].document # ref
            BY <1>13, <1>8, <4>1
      <4>3. \A i \in DOMAIN p.refusals : i \in DOMAIN q.refusals \/ (i = Len(q.refusals) + 1 /\ p.refusals[i].document = ref)
            BY <2>2, <2>5
      <4>   QED  BY <1>9, <4>1, <4>2, <4>3
    <3>   QED  BY <3>1, <3>2, <3>3, <3>4 DEF RefusedOnce
  <2>11. SameBut(p, q, {"queue", "seen", "refs", "refusals"})
         BY <2>3 DEF SameBut
  <2>   QED  BY <1>1, <2>4, <2>6, <2>8, <2>9, <2>10, <2>11 DEF Walking
<1>14. CASE ref # NoDocument /\ ref \notin q.seen /\ gone = "passes"
  <2>1. p = [q EXCEPT !.refs = refs, !.seen = @ \cup {ref}, !.queue = Append(@, ref)]
        BY <1>1, <1>2, <1>14 DEF MeetsNext, meets, RequestFields, ref, refs
  <2>2. /\ SameBut(p, q, {"refs", "seen", "queue"}) /\ p.refs = refs /\ p.seen = q.seen \cup {ref}
        /\ p.queue = Append(q.queue, ref)
        BY <1>1, <2>1 DEF SameBut, RequestFields
  <2>3. /\ p.set = q.set /\ p.graph = q.graph /\ p.at = q.at /\ p.refusals = q.refusals
        /\ p.dry = q.dry /\ p.channels = q.channels /\ DOMAIN p = RequestFields
        BY <2>2 DEF SameBut, RequestFields
  <2>4. ref \in Docs /\ ref \in DOMAIN q.graph /\ ref \notin TakenAlong(q) /\ ref \notin ToSet(q.queue)
        BY <1>1, <1>6, <1>14 DEF RefusedOnce, TakenAlong
  <2>5. /\ p.queue \in Seq(Docs) /\ ToSet(p.queue) = ToSet(q.queue) \cup {ref} /\ IsInjective(p.queue)
        BY <1>10, <2>2, <2>4, Appended
  <2>6. IsRequest(p)
        BY <1>1, <1>3, <2>2, <2>3, <2>4, <2>5 DEF IsRequest, RequestFields
  <2>7. TakenAlong(p) = TakenAlong(q) \cup {ref}
        BY <2>3, <2>5 DEF TakenAlong
  <2>8. Apart(p)
        BY <1>1, <1>2, <2>3, <2>4, <2>5 DEF Apart, TakenAlong
  <2>9. Led(p)
    <3>1. \A e \in TakenAlong(p) \ {Root} : gate(p.graph[e]) = "passes"
          BY <1>1, <1>14, <2>3, <2>7 DEF Led
    <3>2. \A n \in 2..Len(p.set) : \E k \in 1..(n - 1) : Refers(p, k, p.set[n])
          BY <1>1, <2>3 DEF Led, Refers
    <3>3. \A e \in ToSet(p.queue) \ {Root} : \E k \in DOMAIN p.set : Refers(p, k, e)
          BY <1>1, <1>2, <1>5, <2>3, <2>5 DEF Led, Refers
    <3>   QED  BY <3>1, <3>2, <3>3 DEF Led
  <2>10. Looked(p)
         BY <1>7, <2>2, <2>3 DEF Answered
  <2>11. RefusedOnce(p)
    <3>1. /\ TakenAlong(p) \subseteq p.seen /\ p.seen \subseteq DOMAIN p.graph
          BY <1>8, <2>2, <2>3, <2>4, <2>7
    <3>2. \A e \in p.seen \ TakenAlong(p) :
            \E r \in ToSet(p.refusals) : r.document = e /\ r.reason = gate(p.graph[e])
          BY <1>8, <2>2, <2>3, <2>7
    <3>3. \A r \in ToSet(p.refusals) :
            r.referrer \in ToSet(p.set) /\ r.document \notin TakenAlong(p) /\ r.document \in p.seen \cup {NoDocument}
          BY <1>14, <1>8, <2>2, <2>3, <2>7
    <3>   QED  BY <1>9, <2>3, <3>1, <3>2, <3>3 DEF RefusedOnce
  <2>12. Forced(p)
    <3>1. ASSUME NEW T \in SUBSET DOMAIN q.graph, Follows(q.graph, T) PROVE ref \in T
      <4>1. d \in T
            BY <1>1, <1>4, <3>1 DEF Forced
      <4>   QED  BY <1>5, <1>14, <3>1, <4>1 DEF Follows, Named
    <3>   QED  BY <1>1, <2>3, <2>7, <3>1 DEF Forced
  <2>13. SameBut(p, q, {"queue", "seen", "refs", "refusals"})
         BY <2>2 DEF SameBut
  <2>   QED  BY <1>1, <2>3, <2>6, <2>8, <2>9, <2>10, <2>11, <2>12, <2>13 DEF Walking
<1>   QED  BY <1>11, <1>12, <1>13, <1>14

\* When the queue is empty, what was gathered is what goes along, and every
\* reference that is not followed is refused.
LEMMA DoneIsRight ==
  ASSUME NEW q, IsRequest(q), Walking(q), q.refs = <<>>, q.queue = <<>>
  PROVE  Right(q) /\ q.set # <<>> /\ \A d \in ToSet(q.set) : d \in DOMAIN q.graph
<1>1. /\ q.set \in Seq(Docs) /\ q.refusals \in Seq(Refusals) /\ q.graph \in [DOMAIN q.graph -> NodeType]
      /\ DOMAIN q.graph \subseteq Docs /\ NoDocument \notin Docs
      /\ Apart(q) /\ Led(q) /\ RefusedOnce(q) /\ Looked(q) /\ Forced(q) /\ Closed(q.graph)
      BY CascadeAssumption DEF IsRequest, Walking
<1>2. ToSet(q.queue) = {} /\ ToSet(q.refs) = {} /\ TakenAlong(q) = ToSet(q.set) /\ <<>> # <<Root>>
      BY DEF TakenAlong, ToSet
<1>3. q.set # <<>> /\ q.set[1] = Root /\ Head(q.set) = Root /\ IsInjective(q.set) /\ Root \in ToSet(q.set)
      BY <1>1, <1>2 DEF Apart, ToSet
<1>4. ToSet(q.set) \subseteq DOMAIN q.graph
      BY <1>1, <1>2 DEF RefusedOnce
<1>5. \A n \in DOMAIN q.set : \A e \in ToSet(q.graph[q.set[n]].refs) : Answered(q, q.set[n], e)
      BY <1>1, <1>2 DEF Looked
<1>6. \A d \in ToSet(q.set) : \A e \in ToSet(q.graph[d].refs) : Answered(q, d, e)
      BY <1>5 DEF ToSet
<1>7. \A e \in q.seen : e \in ToSet(q.set)
        \/ \E r \in ToSet(q.refusals) : r.document = e /\ r.reason = gate(q.graph[e])
      BY <1>1, <1>2 DEF RefusedOnce
<1>8. Follows(q.graph, ToSet(q.set))
  <2>1. \A r \in Refusals : r.reason # "passes"
        BY DEF Refusals
  <2>2. ToSet(q.refusals) \subseteq Refusals /\ q.seen \subseteq Docs
        BY <1>1, Held DEF IsRequest
  <2>   SUFFICES ASSUME NEW d \in ToSet(q.set), NEW e \in Named(q.graph[d].refs), gate(q.graph[e]) = "passes"
                 PROVE  e \in ToSet(q.set)
        BY <1>3 DEF Follows
  <2>3. e \in q.seen
        BY <1>6 DEF Named, Answered
  <2>   QED  BY <1>7, <2>1, <2>2, <2>3
<1>9. ToSet(q.set) = GoesAlong(q.graph)
  <2>1. GoesAlong(q.graph) =
          {d \in DOMAIN q.graph : \A T \in SUBSET DOMAIN q.graph : Follows(q.graph, T) => d \in T}
        BY DEF GoesAlong, Follows, Named
  <2>   QED  BY <1>1, <1>2, <1>4, <1>8, <2>1 DEF Forced
<1>10. \A n \in 2..Len(q.set) : \E k \in 1..(n - 1) : q.set[n] \in ToSet(q.graph[q.set[k]].refs)
       BY <1>1 DEF Led, Refers
<1>11. \A d \in ToSet(q.set) : \A e \in ToSet(q.graph[d].refs) :
         \/ e \in ToSet(q.set)
         \/ e = NoDocument /\ Refusal(e, d, "missing") \in ToSet(q.refusals)
         \/ \E r \in ToSet(q.refusals) : r.document = e /\ r.reason = gate(q.graph[e])
       BY <1>6, <1>7 DEF Answered
<1>12. \A r \in ToSet(q.refusals) : r.referrer \in ToSet(q.set) /\ r.document \notin ToSet(q.set)
       BY <1>1, <1>2 DEF RefusedOnce
<1>13. ASSUME NEW d \in Docs
       PROVE  Cardinality({i \in DOMAIN q.refusals : q.refusals[i].document = d}) <= 1
  <2>   DEFINE I == {i \in DOMAIN q.refusals : q.refusals[i].document = d}
  <2>1. \A i, j \in DOMAIN q.refusals :
          q.refusals[i].document = q.refusals[j].document /\ q.refusals[i].document # NoDocument => i = j
        BY <1>1 DEF RefusedOnce
  <2>2. \A i, j \in I : i = j
        BY <1>1, <2>1
  <2>   SUFFICES Cardinality(I) <= 1
        OBVIOUS
  <2>   HIDE DEF I
  <2>3. CASE I = {}
        BY <2>3, FS_EmptySet
  <2>4. CASE I # {}
    <3>1. PICK i \in I : I = {i}
          BY <2>2, <2>4
    <3>2. Cardinality({i}) = 1
          BY FS_Singleton
    <3>   QED  BY <3>1, <3>2
  <2>   QED  BY <2>3, <2>4
<1>   QED  BY <1>3, <1>4, <1>9, <1>10, <1>11, <1>12, <1>13 DEF Right

--------------------------------------------------------------------------------
(* Steps                                                                      *)

LEMMA CascadeStarts ==
  ASSUME CascadeInit
  PROVE  CascadeInv
<1>1. /\ request.at = "asked" /\ request.dry \in BOOLEAN /\ request.channels \in {"every", "own", "another"}
      /\ request.queue = <<Root>> /\ request.seen = {Root} /\ request.graph = <<>> /\ request.refs = <<>>
      /\ request.set = <<>> /\ request.refusals = <<>> /\ DOMAIN request = RequestFields
      BY DEF CascadeInit, RequestFields
<1>2. /\ <<Root>> \in Seq(Docs) /\ ToSet(<<Root>>) = {Root} /\ DOMAIN <<>> = {}
      BY CascadeAssumption DEF ToSet
<1>3. request.graph \in [DOMAIN request.graph -> NodeType] /\ DOMAIN request.graph \subseteq Docs
  <2>1. <<>> = [e \in {} |-> NodeType]
        OBVIOUS
  <2>   QED  BY <1>1, <2>1
<1>4. IsRequest(request)
      BY CascadeAssumption, <1>1, <1>2, <1>3 DEF IsRequest, RequestFields, Reading
<1>5. Walk(request)
      BY <1>1, <1>2 DEF Walk, Loading, Reading, Planned
<1>6. docs \in [Docs -> RowType] /\ DOMAIN content = Docs /\ \A d \in Docs : content[d] \in Contents[d]
      BY CascadeAssumption DEF CascadeInit
<1>7. scheduled = <<>> /\ told = <<>> /\ changes = 0 /\ fails \in BOOLEAN
      BY DEF CascadeInit
<1>8. CascadeTypes
      BY CascadeAssumption, <1>4, <1>6, <1>7 DEF CascadeTypes
<1>9. Scheduling /\ ReadVersionsExist
      BY <1>1, <1>7 DEF Scheduling, ReadVersionsExist
<1>   QED  BY <1>5, <1>8, <1>9 DEF CascadeInv

\* Before it is decided there are no jobs.
LEMMA NothingYet ==
  ASSUME CascadeInv, request.at \notin {"scheduling", "scheduled", "cut"}
  PROVE  scheduled = <<>> /\ told = <<>>
BY DEF CascadeInv, Scheduling, CascadeTypes

\* So a step that schedules nothing only has to keep the request as it should be.
LEMMA BeforeJobs ==
  ASSUME CascadeInv, UNCHANGED <<scheduled, told, system>>,
         request.at \in Reading \cup {"gathering"},
         request'.at \in Reading \cup {"gathering", "refused", "planned", "cut"},
         IsRequest(request'), Walk(request'), ReadVersionsExist'
  PROVE  CascadeInv'
<1>1. scheduled = <<>> /\ told = <<>> /\ scheduled' = <<>> /\ told' = <<>>
      BY NothingYet DEF Reading
<1>2. CascadeTypes'
      BY <1>1 DEF CascadeInv, CascadeTypes, system
<1>3. Scheduling'
  <2>1. request'.set \in Seq(Docs) /\ Len(request'.set) \in Nat
        BY DEF IsRequest
  <2>2. Len(<<>>) = 0 /\ DOMAIN <<>> = {}
        OBVIOUS
  <2>   QED  BY <1>1, <2>1, <2>2 DEF Scheduling, Reading
<1>   QED  BY <1>2, <1>3 DEF CascadeInv

\* The request with another state, and nothing else.
LEMMA GoesOn ==
  ASSUME IsRequest(request), NEW state \in Reading \cup {"gathering", "scheduling"} \cup Ended,
         Goes(state, request)
  PROVE  IsRequest(request') /\ request'.at = state /\ SameBut(request', request, {"at"})
BY DEF Goes, IsRequest, SameBut, RequestFields

LEMMA RefusedKeeps ==
  ASSUME CascadeInv, request.at \in Reading \cup {"gathering"},
         Goes("refused", request) \/ Goes("cut", request), UNCHANGED <<scheduled, told, system>>
  PROVE  CascadeInv'
<1>1. PICK state \in {"refused", "cut"} : Goes(state, request)
      OBVIOUS
<1>2. IsRequest(request') /\ request'.at = state /\ SameBut(request', request, {"at"})
      BY <1>1, GoesOn DEF CascadeInv, CascadeTypes, Ended
<1>3. ReadVersionsExist'
      BY <1>2 DEF CascadeInv, ReadVersionsExist, SameBut, RequestFields, system
<1>4. Walk(request')
      BY <1>2 DEF Walk, Reading, Planned
<1>   QED  BY <1>2, <1>3, <1>4, BeforeJobs

LEMMA BeginKeeps ==
  ASSUME CascadeInv, Begin
  PROVE  CascadeInv'
<1>1. IsRequest(request) /\ request.at = "asked" /\ Loading(request) /\ UNCHANGED <<scheduled, told, system>>
      BY DEF Begin, Refused, CascadeInv, CascadeTypes, Walk, Reading
<1>2. CASE Goes("reading", request)
  <2>1. IsRequest(request') /\ request'.at = "reading" /\ SameBut(request', request, {"at"})
        BY <1>1, <1>2, GoesOn DEF Reading
  <2>2. Loading(request')
        BY <1>1, <2>1, BeginLoads
  <2>3. Walk(request')
        BY <2>1, <2>2 DEF Walk, Reading, Planned
  <2>4. ReadVersionsExist'
        BY <1>1, <2>1 DEF CascadeInv, ReadVersionsExist, SameBut, RequestFields, system
  <2>   QED  BY <1>1, <2>1, <2>3, <2>4, BeforeJobs DEF Reading
<1>3. CASE Goes("refused", request)
      BY <1>1, <1>3, RefusedKeeps DEF Reading
<1>   QED  BY <1>2, <1>3 DEF Begin, Refused

LEMMA ReadDocumentKeeps ==
  ASSUME CascadeInv, ReadDocument
  PROVE  CascadeInv'
<1>   DEFINE d == Head(request.queue)
             graph == WithNode(request.graph, d, Node(docs[d], 0, <<>>))
<1>1. /\ IsRequest(request) /\ request.at = "reading" /\ request.queue # <<>> /\ Loading(request)
      /\ UNCHANGED <<scheduled, told, system>>
      BY DEF ReadDocument, Refused, CascadeInv, CascadeTypes, Walk, Reading
<1>2. CASE docs[d].there
  <2>1. /\ request'.at = "read" /\ request'.graph = graph /\ SameBut(request', request, {"at", "graph"})
        BY <1>1, <1>2 DEF ReadDocument, Goes, IsRequest, SameBut, RequestFields
  <2>2. d \in Docs /\ docs[d] \in RowType
        BY <1>1, Headed DEF IsRequest, CascadeInv, CascadeTypes
  <2>3. IsRequest(request') /\ Loading(request')
        BY <1>1, <2>1, <2>2, ReadDocumentLoads
  <2>4. Walk(request')
        BY <2>1, <2>3 DEF Walk, Reading, Planned
  <2>5. ReadVersionsExist'
    <3>1. \A e \in DOMAIN graph : graph[e].version <= docs[e].version
          BY CascadeAssumption, <2>2 DEF WithNode, Node, CascadeInv, ReadVersionsExist, RowType
    <3>   QED  BY <1>1, <2>1, <3>1 DEF ReadVersionsExist, system
  <2>   QED  BY <1>1, <2>1, <2>3, <2>4, <2>5, BeforeJobs DEF Reading
<1>3. CASE ~docs[d].there
      BY <1>1, <1>3, RefusedKeeps DEF ReadDocument, Refused, Reading
<1>   QED  BY <1>2, <1>3

LEMMA ReadVersionKeeps ==
  ASSUME CascadeInv, ReadVersion
  PROVE  CascadeInv'
<1>   DEFINE d == Head(request.queue)
             version == IF docs[d].there THEN docs[d].version ELSE 0
             refs == Refs(d, version)
             graph == [request.graph EXCEPT ![d].version = version]
<1>1. /\ IsRequest(request) /\ request.at = "read" /\ Loading(request) /\ request.queue # <<>>
      /\ d \in DOMAIN request.graph /\ d \in Docs /\ UNCHANGED <<scheduled, told, system>>
      BY DEF ReadVersion, CascadeInv, CascadeTypes, Walk, Reading, Loading, IsRequest
<1>2. /\ request'.at = "referring" /\ request'.graph = graph /\ request'.refs = refs
      /\ SameBut(request', request, {"at", "graph", "refs"})
      BY <1>1 DEF ReadVersion, Goes, IsRequest, SameBut, RequestFields
<1>3. docs[d] \in RowType /\ version \in 0..MaxVersion /\ version <= docs[d].version
      BY CascadeAssumption, <1>1 DEF CascadeInv, CascadeTypes, RowType
<1>4. refs \in Seq(Uids)
  <2>1. content[d] \in [1..MaxVersion -> Seq(Uids)] /\ MaxVersion \in Nat
        BY CascadeAssumption, <1>1 DEF CascadeInv, CascadeTypes, Uids
  <2>   HIDE DEF version
  <2>   QED  BY <1>3, <2>1 DEF Refs
<1>5. IsRequest(request') /\ Loading(request')
      BY <1>1, <1>2, <1>3, <1>4, ReadVersionLoads
<1>6. Walk(request')
      BY <1>2, <1>5 DEF Walk, Reading, Planned
<1>7. ReadVersionsExist'
  <2>1. \A e \in DOMAIN graph : graph[e].version <= docs[e].version
    <3>1. \A e \in DOMAIN request.graph : request.graph[e] \in NodeType /\ request.graph[e].version <= docs[e].version
          BY <1>1 DEF CascadeInv, ReadVersionsExist, IsRequest
    <3>   QED  BY <1>1, <1>3, <3>1 DEF NodeType
  <2>   QED  BY <1>1, <1>2, <2>1 DEF ReadVersionsExist, system
<1>   QED  BY <1>1, <1>2, <1>5, <1>6, <1>7, BeforeJobs DEF Reading

LEMMA ReadReferenceKeeps ==
  ASSUME CascadeInv, ReadReference
  PROVE  CascadeInv'
<1>   DEFINE d == Head(request.queue)
             uid == Head(request.refs)
             ref == IF uid \in Docs /\ docs[uid].there THEN uid ELSE NoDocument
             graph == [request.graph EXCEPT ![d].refs = Append(@, ref)]
<1>1. /\ IsRequest(request) /\ request.at = "referring" /\ Loading(request) /\ request.refs # <<>>
      /\ d \in DOMAIN request.graph /\ NoDocument \notin Docs /\ UNCHANGED <<scheduled, told, system>>
      BY CascadeAssumption DEF ReadReference, CascadeInv, CascadeTypes, Walk, Reading, Loading
<1>2. /\ request'.at = "referring" /\ request'.graph = graph /\ request'.refs = Tail(request.refs)
      /\ SameBut(request', request, {"at", "graph", "refs", "queue", "seen"})
      BY <1>1 DEF ReadReference, IsRequest, SameBut, RequestFields
<1>3. IF ref \in request.seen \cup {NoDocument} THEN request'.queue = request.queue /\ request'.seen = request.seen
      ELSE request'.queue = Append(request.queue, ref) /\ request'.seen = request.seen \cup {ref}
      BY <1>1 DEF ReadReference, IsRequest
<1>4. ref \in Uids
      BY DEF Uids
<1>   HIDE DEF ref
<1>5. IsRequest(request') /\ Loading(request')
      BY <1>1, <1>2, <1>3, <1>4, ReadReferenceLoads
<1>6. Walk(request')
      BY <1>2, <1>5 DEF Walk, Reading, Planned
<1>7. ReadVersionsExist'
  <2>1. \A e \in DOMAIN graph : graph[e].version <= docs[e].version
    <3>1. \A e \in DOMAIN request.graph : request.graph[e] \in NodeType /\ request.graph[e].version <= docs[e].version
          BY <1>1 DEF CascadeInv, ReadVersionsExist, IsRequest
    <3>   QED  BY <1>1, <3>1 DEF NodeType
  <2>   QED  BY <1>1, <1>2, <2>1 DEF ReadVersionsExist, system
<1>   QED  BY <1>1, <1>2, <1>5, <1>6, <1>7, BeforeJobs DEF Reading

LEMMA NodeLoadedKeeps ==
  ASSUME CascadeInv, NodeLoaded
  PROVE  CascadeInv'
<1>1. /\ IsRequest(request) /\ request.at = "referring" /\ Loading(request) /\ request.refs = <<>>
      /\ UNCHANGED <<scheduled, told, system>>
      BY DEF NodeLoaded, CascadeInv, CascadeTypes, Walk, Reading
<1>2. /\ request'.at = "reading" /\ request'.queue = Tail(request.queue)
      /\ SameBut(request', request, {"at", "queue"})
      BY <1>1 DEF NodeLoaded, Goes, IsRequest, SameBut, RequestFields
<1>3. IsRequest(request') /\ Loading(request')
      BY <1>1, <1>2, NodeLoads
<1>4. Walk(request')
      BY <1>2, <1>3 DEF Walk, Reading, Planned
<1>5. ReadVersionsExist'
      BY <1>1, <1>2 DEF CascadeInv, ReadVersionsExist, SameBut, RequestFields, system
<1>   QED  BY <1>1, <1>2, <1>3, <1>4, <1>5, BeforeJobs DEF Reading

LEMMA GraphLoadedKeeps ==
  ASSUME CascadeInv, GraphLoaded
  PROVE  CascadeInv'
<1>1. /\ IsRequest(request) /\ request.at = "reading" /\ Loading(request) /\ request.queue = <<>>
      /\ UNCHANGED <<scheduled, told, system>>
      BY DEF GraphLoaded, CascadeInv, CascadeTypes, Walk, Reading
<1>2. /\ request'.at = "gathering" /\ request'.queue = <<Root>> /\ request'.seen = {Root}
      /\ SameBut(request', request, {"at", "queue", "seen"})
      BY <1>1 DEF GraphLoaded, Goes, IsRequest, SameBut, RequestFields
<1>3. IsRequest(request') /\ Walking(request')
      BY <1>1, <1>2, LoadedIsClosed
<1>4. Walk(request')
      BY <1>2, <1>3 DEF Walk, Reading, Planned
<1>5. ReadVersionsExist'
      BY <1>1, <1>2 DEF CascadeInv, ReadVersionsExist, SameBut, RequestFields, system
<1>   QED  BY <1>1, <1>2, <1>3, <1>4, <1>5, BeforeJobs DEF Reading

LEMMA VisitKeeps ==
  ASSUME CascadeInv, Visit
  PROVE  CascadeInv'
<1>1. /\ IsRequest(request) /\ request.at = "gathering" /\ Walking(request)
      /\ request.refs = <<>> /\ request.queue # <<>> /\ UNCHANGED <<scheduled, told, system>>
      BY DEF Visit, CascadeInv, CascadeTypes, Walk
<1>2. /\ request'.at = "gathering" /\ request'.queue = Tail(request.queue)
      /\ request'.set = Append(request.set, Head(request.queue))
      /\ request'.refs = request.graph[Head(request.queue)].refs
      /\ SameBut(request', request, {"queue", "set", "refs"})
      BY <1>1 DEF Visit, IsRequest, SameBut, RequestFields
<1>3. IsRequest(request') /\ Walking(request')
      BY <1>1, <1>2, VisitWalks
<1>4. Walk(request')
      BY <1>2, <1>3 DEF Walk, Reading, Planned
<1>5. ReadVersionsExist'
      BY <1>1, <1>2 DEF CascadeInv, ReadVersionsExist, SameBut, RequestFields, system
<1>   QED  BY <1>1, <1>2, <1>3, <1>4, <1>5, BeforeJobs

LEMMA MeetKeeps ==
  ASSUME CascadeInv, Meet
  PROVE  CascadeInv'
<1>1. /\ IsRequest(request) /\ request.at = "gathering" /\ Walking(request)
      /\ request.refs # <<>> /\ UNCHANGED <<scheduled, told, system>>
      BY DEF Meet, CascadeInv, CascadeTypes, Walk
<1>2. MeetsNext(request', request)
      BY DEF Meet, MeetsNext
<1>3. /\ IsRequest(request') /\ Walking(request')
      /\ SameBut(request', request, {"queue", "seen", "refs", "refusals"})
      BY <1>1, <1>2, MeetWalks
<1>4. request'.at = "gathering" /\ request'.graph = request.graph
      BY <1>1, <1>3 DEF SameBut, RequestFields
<1>5. Walk(request')
      BY <1>3, <1>4 DEF Walk, Reading, Planned
<1>6. ReadVersionsExist'
      BY <1>1, <1>4 DEF CascadeInv, ReadVersionsExist, system
<1>   QED  BY <1>1, <1>3, <1>4, <1>5, <1>6, BeforeJobs

\* The policy is asked once, of everything that was refused.
LEMMA DecideKeeps ==
  ASSUME CascadeInv, Decide
  PROVE  CascadeInv'
<1>1. /\ IsRequest(request) /\ request.at = "gathering" /\ Walking(request) /\ UNCHANGED <<scheduled, told, system>>
      /\ request.refs = <<>> /\ request.queue = <<>>
      BY DEF Decide, CascadeInv, CascadeTypes, Walk
<1>2. Right(request) /\ request.set # <<>> /\ \A d \in ToSet(request.set) : d \in DOMAIN request.graph
      BY <1>1, DoneIsRight
<1>3. CASE Goes("refused", request)
      BY <1>1, <1>3, RefusedKeeps
<1>4. CASE /\ aborts(request.refusals)
           /\ Goes(IF request.dry THEN "planned" ELSE "refused", [request EXCEPT !.set = <<>>])
  <2>1. /\ request'.at \in {"planned", "refused"} /\ request'.set = <<>>
        /\ SameBut(request', request, {"at", "set"})
        BY <1>1, <1>4 DEF Goes, IsRequest, SameBut, RequestFields
  <2>2. IsRequest(request')
        BY <1>1, <2>1 DEF IsRequest, SameBut, RequestFields, Ended
  <2>3. Walk(request')
        BY <2>1 DEF Walk, Reading, Planned
  <2>4. ReadVersionsExist'
        BY <1>1, <2>1 DEF CascadeInv, ReadVersionsExist, SameBut, RequestFields, system
  <2>   QED  BY <1>1, <2>1, <2>2, <2>3, <2>4, BeforeJobs
<1>5. CASE /\ ~aborts(request.refusals) /\ request.graph[Root].version # 0
           /\ Goes(IF request.dry THEN "planned" ELSE "scheduling", request)
  <2>   DEFINE state == IF request.dry THEN "planned" ELSE "scheduling"
  <2>1. /\ request'.at = state /\ SameBut(request', request, {"at"}) /\ IsRequest(request')
        BY <1>1, <1>5, GoesOn DEF Ended
  <2>2. /\ request'.set = request.set /\ request'.graph = request.graph /\ request'.dry = request.dry
        /\ request'.refusals = request.refusals
        BY <2>1 DEF SameBut, RequestFields
  <2>3. Right(request')
        BY <1>2, <2>2 DEF Right
  <2>4. ~request.dry => CanRun(request')
    <3>1. \A d \in ToSet(request.set) \ {Root} : gate(request.graph[d]) = "passes"
          BY <1>1 DEF Walking, Led, TakenAlong
    <3>2. \A d \in ToSet(request.set) : request.graph[d].version # 0
          BY <1>5, <3>1 DEF gate
    <3>3. IsInjective(request.set)
          BY <1>2 DEF Right
    <3>   QED  BY <1>2, <2>2, <3>2, <3>3 DEF CanRun
  <2>5. Walk(request')
        BY <2>1, <2>2, <2>3, <2>4 DEF Walk, Reading, Planned
  <2>6. ReadVersionsExist'
        BY <1>1, <2>2 DEF CascadeInv, ReadVersionsExist, system
  <2>7. scheduled = <<>> /\ told = <<>> /\ scheduled' = <<>> /\ told' = <<>>
        BY <1>1, NothingYet
  <2>8. CascadeTypes'
        BY <1>1, <2>1, <2>7 DEF CascadeInv, CascadeTypes, system
  <2>9. fails' /\ ~request.dry => request'.refusals = <<>>
        BY <1>1, <1>5, <2>2 DEF aborts, system
  <2>10. Scheduling'
    <3>1. request'.set \in Seq(Docs) /\ Len(request'.set) \in Nat /\ request'.at \in {"planned", "scheduling"}
          /\ (request'.at = "scheduling" => ~request.dry)
          BY <2>1 DEF IsRequest
    <3>2. Len(<<>>) = 0 /\ DOMAIN <<>> = {}
          OBVIOUS
    <3>   QED  BY <2>7, <2>9, <3>1, <3>2 DEF Scheduling
  <2>   QED  BY <2>5, <2>6, <2>8, <2>10 DEF CascadeInv
<1>   QED  BY <1>3, <1>4, <1>5 DEF Decide

\* The next job is of the next document that goes along.
LEMMA EnqueueKeeps ==
  ASSUME CascadeInv, Enqueue
  PROVE  CascadeInv'
<1>   DEFINE n == Len(scheduled) + 1
             d == request.set[n]
             job == [document |-> d, version |-> request.graph[d].version, channels |-> channelsFor(d)]
<1>1. /\ IsRequest(request) /\ request.at = "scheduling" /\ CanRun(request) /\ request.set \in Seq(Docs)
      /\ scheduled \in Seq(RelatedJob) /\ told \in Seq(ToldType)
      /\ Len(scheduled) < Len(request.set) /\ Len(scheduled) \in Nat /\ Len(request.set) \in Nat
      /\ scheduled' = Append(scheduled, job) /\ UNCHANGED <<told, request, system>>
      BY DEF Enqueue, CascadeInv, CascadeTypes, Walk, IsRequest
<1>2. n \in DOMAIN request.set /\ d \in ToSet(request.set) /\ d \in Docs
      BY <1>1 DEF ToSet
<1>3. d \in DOMAIN request.graph /\ request.graph[d] \in NodeType /\ request.graph[d].version \in Nat
      BY CascadeAssumption, <1>1, <1>2 DEF CanRun, IsRequest, NodeType
<1>4. channelsFor(d) \in {0, Site[d]}
      BY DEF channelsFor
<1>5. job \in RelatedJob
      BY <1>2, <1>3, <1>4 DEF RelatedJob
<1>6. /\ scheduled' \in Seq(RelatedJob) /\ Len(scheduled') = n /\ DOMAIN scheduled' = DOMAIN scheduled \cup {n}
      /\ scheduled'[n] = job /\ \A i \in DOMAIN scheduled : scheduled'[i] = scheduled[i]
  <2>   HIDE DEF job
  <2>   QED  BY <1>1, <1>5, Appended
<1>7. CascadeTypes'
      BY <1>1, <1>6 DEF CascadeInv, CascadeTypes, system
<1>8. Walk(request') /\ ReadVersionsExist'
      BY <1>1 DEF CascadeInv, Walk, ReadVersionsExist, system
<1>9. Scheduling'
  <2>1. told = <<>>
    <3>1. Len(told) \in Nat /\ Len(told) <= Len(scheduled)
          BY <1>1 DEF CascadeInv, Scheduling
    <3>   QED  BY <1>1 DEF CascadeInv, Scheduling
  <2>2. told' = <<>> /\ Len(<<>>) = 0 /\ DOMAIN <<>> = {} /\ request' = request /\ fails' = fails
        BY <1>1, <2>1 DEF system
  <2>3. \A i \in DOMAIN scheduled' :
          /\ scheduled'[i].document = request.set[i]
          /\ scheduled'[i].version = request.graph[request.set[i]].version
          /\ scheduled'[i].channels \in {0, Site[request.set[i]]}
        BY <1>4, <1>6 DEF CascadeInv, Scheduling
  <2>4. fails => request.refusals = <<>>
        BY <1>1 DEF CascadeInv, Scheduling
  <2>5. Len(scheduled') <= Len(request.set) /\ 0 <= Len(scheduled')
        BY <1>1, <1>6
  <2>   QED  BY <1>1, <2>2, <2>3, <2>4, <2>5 DEF Scheduling
<1>   QED  BY <1>7, <1>8, <1>9 DEF CascadeInv

\* The next event is of the next job.
LEMMA RecordEventKeeps ==
  ASSUME CascadeInv, RecordEvent
  PROVE  CascadeInv'
<1>   DEFINE n == Len(told) + 1
             event == [document |-> scheduled[n].document, root |-> Root,
                       related |-> IF n = 1 THEN Tail(request.set) ELSE <<>>,
                       refusals |-> IF n = 1 THEN request.refusals ELSE <<>>]
<1>1. /\ IsRequest(request) /\ request.at = "scheduling" /\ CanRun(request) /\ request.set \in Seq(Docs)
      /\ scheduled \in Seq(RelatedJob) /\ told \in Seq(ToldType) /\ request.set # <<>>
      /\ Len(scheduled) = Len(request.set) /\ Len(told) \in Nat /\ Len(scheduled) \in Nat
      /\ n <= Len(scheduled) /\ n \in DOMAIN scheduled
      /\ told' = Append(told, event) /\ UNCHANGED <<scheduled, request, system>>
      BY DEF RecordEvent, CascadeInv, CascadeTypes, Walk, IsRequest, CanRun
<1>2. event \in ToldType
  <2>1. scheduled[n] \in RelatedJob
        BY <1>1
  <2>2. Tail(request.set) \in Seq(Docs) /\ request.refusals \in Seq(Refusals)
        BY <1>1, Headed DEF IsRequest
  <2>   QED  BY <2>1, <2>2 DEF RelatedJob, ToldType
<1>3. /\ told' \in Seq(ToldType) /\ Len(told') = n /\ DOMAIN told' = DOMAIN told \cup {n}
      /\ told'[n] = event /\ \A i \in DOMAIN told : told'[i] = told[i]
  <2>   HIDE DEF event
  <2>   QED  BY <1>1, <1>2, Appended
<1>4. CascadeTypes'
      BY <1>1, <1>3 DEF CascadeInv, CascadeTypes, system
<1>5. Walk(request') /\ ReadVersionsExist'
      BY <1>1 DEF CascadeInv, Walk, ReadVersionsExist, system
<1>6. Scheduling'
  <2>1. told'[1].refusals = request.refusals
    <3>1. CASE n = 1
          BY <1>3, <3>1
    <3>2. CASE n # 1
      <4>1. told # <<>> /\ 1 \in DOMAIN told
            BY <1>1, <3>2
      <4>   QED  BY <1>3, <4>1 DEF CascadeInv, Scheduling
    <3>   QED  BY <3>1, <3>2
  <2>2. \A i \in DOMAIN told' : told'[i].document = scheduled[i].document
        BY <1>3 DEF CascadeInv, Scheduling
  <2>3. request' = request /\ scheduled' = scheduled /\ fails' = fails
        BY <1>1 DEF system
  <2>4. Len(told') <= Len(scheduled)
        BY <1>1, <1>3
  <2>   HIDE DEF event, n
  <2>   QED  BY <1>1, <2>1, <2>2, <2>3, <2>4 DEF CascadeInv, Scheduling
<1>   QED  BY <1>4, <1>5, <1>6 DEF CascadeInv

LEMMA AnswerKeeps ==
  ASSUME CascadeInv, Answer
  PROVE  CascadeInv'
<1>1. /\ IsRequest(request) /\ request.at = "scheduling" /\ Len(told) = Len(request.set)
      /\ Goes("scheduled", request) /\ UNCHANGED <<scheduled, told, system>>
      BY DEF Answer, CascadeInv, CascadeTypes
<1>2. IsRequest(request') /\ request'.at = "scheduled" /\ SameBut(request', request, {"at"})
      BY <1>1, GoesOn DEF Ended
<1>3. /\ request'.set = request.set /\ request'.graph = request.graph /\ request'.dry = request.dry
      /\ request'.refusals = request.refusals
      BY <1>2 DEF SameBut, RequestFields
<1>4. CascadeTypes'
      BY <1>1, <1>2 DEF CascadeInv, CascadeTypes, system
<1>5. Walk(request')
      BY <1>1, <1>2, <1>3 DEF CascadeInv, Walk, Reading, Planned, Right, CanRun
<1>6. ReadVersionsExist'
      BY <1>1, <1>3 DEF CascadeInv, ReadVersionsExist, system
<1>7. Scheduling'
      BY <1>1, <1>2, <1>3 DEF CascadeInv, Scheduling, CanRun, system
<1>   QED  BY <1>4, <1>5, <1>6, <1>7 DEF CascadeInv

LEMMA CutKeeps ==
  ASSUME CascadeInv, Cut
  PROVE  CascadeInv'
<1>1. /\ IsRequest(request) /\ request.at \notin Ended
      /\ Goes("cut", request) /\ UNCHANGED <<scheduled, told, system>>
      BY DEF Cut, CascadeInv, CascadeTypes
<1>2. CASE request.at \in Reading \cup {"gathering"}
      BY <1>1, <1>2, RefusedKeeps
<1>3. CASE request.at = "scheduling"
  <2>1. IsRequest(request') /\ request'.at = "cut" /\ SameBut(request', request, {"at"})
        BY <1>1, GoesOn DEF Ended
  <2>2. /\ request'.set = request.set /\ request'.graph = request.graph /\ request'.dry = request.dry
        /\ request'.refusals = request.refusals
        BY <2>1 DEF SameBut, RequestFields
  <2>3. CascadeTypes'
        BY <1>1, <2>1 DEF CascadeInv, CascadeTypes, system
  <2>4. Walk(request')
        BY <2>1 DEF Walk, Reading, Planned
  <2>5. ReadVersionsExist'
        BY <1>1, <2>2 DEF CascadeInv, ReadVersionsExist, system
  <2>6. Scheduling'
        BY <1>1, <1>3, <2>1, <2>2 DEF CascadeInv, Scheduling, CanRun, system
  <2>   QED  BY <2>3, <2>4, <2>5, <2>6 DEF CascadeInv
<1>   QED  BY <1>1, <1>2, <1>3 DEF IsRequest

LEMMA RowsKept ==
  ASSUME MaxVersion \in Nat, NEW was \in RowType
  PROVE  /\ [was EXCEPT !.held = TRUE] \in RowType
         /\ was.version <= [was EXCEPT !.held = TRUE].version
         /\ was.version < MaxVersion => /\ [was EXCEPT !.held = FALSE, !.version = @ + 1] \in RowType
                                        /\ was.version <= [was EXCEPT !.held = FALSE, !.version = @ + 1].version
         /\ [was EXCEPT !.held = FALSE, !.there = was.version # 0] \in RowType
         /\ was.version <= [was EXCEPT !.held = FALSE, !.there = was.version # 0].version
         /\ [was EXCEPT !.publishable = ~@] \in RowType
         /\ was.version <= [was EXCEPT !.publishable = ~@].version
<1>1. was.version \in 0..MaxVersion /\ (was.version # 0) \in BOOLEAN /\ was.version <= was.version
      BY DEF RowType
<1>2. [was EXCEPT !.held = TRUE] \in RowType /\ was.version <= [was EXCEPT !.held = TRUE].version
      BY <1>1 DEF RowType
<1>3. ASSUME was.version < MaxVersion
      PROVE  /\ [was EXCEPT !.held = FALSE, !.version = @ + 1] \in RowType
             /\ was.version <= [was EXCEPT !.held = FALSE, !.version = @ + 1].version
  <2>1. was.version + 1 \in 0..MaxVersion /\ was.version <= was.version + 1
        BY <1>1, <1>3
  <2>2. [was EXCEPT !.held = FALSE, !.version = @ + 1].version = was.version + 1
        BY DEF RowType
  <2>3. [was EXCEPT !.held = FALSE, !.version = @ + 1] \in RowType
        BY <2>1 DEF RowType
  <2>   QED  BY <2>1, <2>2, <2>3
<1>4. was.version <= [was EXCEPT !.held = FALSE, !.there = was.version # 0].version
      BY <1>1 DEF RowType
<1>5. [was EXCEPT !.held = FALSE, !.there = was.version # 0] \in RowType
      BY <1>1 DEF RowType
<1>6. was.version <= [was EXCEPT !.publishable = ~@].version
      BY <1>1 DEF RowType
<1>7. [was EXCEPT !.publishable = ~@] \in RowType
      BY <1>1 DEF RowType
<1>   QED  BY <1>2, <1>3, <1>4, <1>5, <1>6, <1>7

\* What other people do never takes a version back.
LEMMA OthersKeep ==
  ASSUME CascadeInv, NEW d \in Docs,
         Checkout(d) \/ Checkin(d) \/ Revert(d) \/ Move(d)
  PROVE  CascadeInv'
<1>1. docs[d] \in RowType /\ MaxVersion \in Nat /\ MaxChanges \in Nat
      BY CascadeAssumption DEF CascadeInv, CascadeTypes
<1>2. PICK row : Change(d, row) /\ row \in RowType /\ docs[d].version <= row.version
  <2>   DEFINE was == docs[d]
  <2>1. was \in RowType
        BY DEF CascadeInv, CascadeTypes
  <2>2. /\ [was EXCEPT !.held = TRUE] \in RowType
        /\ was.version <= [was EXCEPT !.held = TRUE].version
        /\ Checkin(d) => /\ [was EXCEPT !.held = FALSE, !.version = @ + 1] \in RowType
                         /\ was.version <= [was EXCEPT !.held = FALSE, !.version = @ + 1].version
        /\ [was EXCEPT !.held = FALSE, !.there = was.version # 0] \in RowType
        /\ was.version <= [was EXCEPT !.held = FALSE, !.there = was.version # 0].version
        /\ [was EXCEPT !.publishable = ~@] \in RowType
        /\ was.version <= [was EXCEPT !.publishable = ~@].version
        BY <1>1, <2>1, RowsKept DEF Checkin
  <2>   QED  BY <2>2 DEF Checkout, Checkin, Revert, Move
<1>3. /\ docs' = [docs EXCEPT ![d] = row] /\ changes' = changes + 1 /\ changes < MaxChanges
      /\ UNCHANGED <<content, fails, request, scheduled, told>>
      BY <1>2 DEF Change
<1>4. CascadeTypes'
      BY <1>1, <1>2, <1>3 DEF CascadeInv, CascadeTypes
<1>5. ReadVersionsExist'
  <2>1. \A e \in DOMAIN request.graph :
          /\ e \in Docs /\ request.graph[e].version \in 0..MaxVersion /\ request.graph[e].version <= docs[e].version
          /\ docs[e].version \in 0..MaxVersion
        BY DEF CascadeInv, CascadeTypes, IsRequest, NodeType, ReadVersionsExist, RowType
  <2>2. \A e \in Docs : docs'[e] = IF e = d THEN row ELSE docs[e]
        BY <1>3 DEF CascadeInv, CascadeTypes
  <2>3. row.version \in 0..MaxVersion
        BY <1>2 DEF RowType
  <2>   QED  BY <1>1, <1>2, <1>3, <2>1, <2>2, <2>3 DEF ReadVersionsExist
<1>6. Walk(request') /\ Scheduling'
      BY <1>3 DEF CascadeInv, Scheduling
<1>   QED  BY <1>4, <1>5, <1>6 DEF CascadeInv

LEMMA CascadeStep ==
  ASSUME CascadeInv, [CascadeNext]_cascadeVars
  PROVE  CascadeInv'
<1>1. CASE UNCHANGED cascadeVars
      BY <1>1 DEF cascadeVars, CascadeInv, CascadeTypes, ReadVersionsExist, Scheduling
<1>2. CASE RequestStep
      BY <1>2, BeginKeeps, ReadDocumentKeeps, ReadVersionKeeps, ReadReferenceKeeps, NodeLoadedKeeps,
         GraphLoadedKeeps, VisitKeeps, MeetKeeps, DecideKeeps, EnqueueKeeps, RecordEventKeeps, AnswerKeeps DEF RequestStep
<1>3. CASE Cut
      BY <1>3, CutKeeps
<1>4. CASE \E d \in Docs : Checkout(d) \/ Checkin(d) \/ Revert(d) \/ Move(d)
      BY <1>4, OthersKeep
<1>   QED  BY <1>1, <1>2, <1>3, <1>4 DEF CascadeNext

\* The types the runs check.
LEMMA CascadeTypesHold ==
  ASSUME CascadeInv
  PROVE  CascadeTypeOK
<1>1. IsRequest(request) /\ scheduled \in Seq(RelatedJob) /\ told \in Seq(ToldType)
      BY DEF CascadeInv, CascadeTypes
<1>2. /\ ToSet(request.queue) \subseteq Docs /\ ToSet(request.set) \subseteq Docs
      /\ ToSet(request.refs) \subseteq Docs \cup {NoDocument}
  <2>1. request.queue \in Seq(Docs) /\ request.set \in Seq(Docs) /\ request.refs \in Seq(Uids)
        BY <1>1 DEF IsRequest
  <2>   QED  BY <2>1, Held DEF Uids
<1>3. \A d \in DOMAIN request.graph :
        /\ request.graph[d].row \in RowType /\ request.graph[d].version \in 0..MaxVersion
        /\ ToSet(request.graph[d].refs) \subseteq Docs \cup {NoDocument}
  <2>   SUFFICES ASSUME NEW d \in DOMAIN request.graph
                 PROVE  /\ request.graph[d].row \in RowType /\ request.graph[d].version \in 0..MaxVersion
                        /\ ToSet(request.graph[d].refs) \subseteq Docs \cup {NoDocument}
        OBVIOUS
  <2>1. request.graph[d] \in NodeType
        BY <1>1 DEF IsRequest
  <2>2. request.graph[d].refs \in Seq(Uids)
        BY <2>1 DEF NodeType
  <2>   QED  BY <2>1, <2>2, Held DEF NodeType, Uids
<1>4. /\ request.at \in {"asked", "reading", "read", "referring", "gathering", "scheduling"} \cup Ended
      /\ request.seen \subseteq Docs /\ DOMAIN request.graph \subseteq Docs /\ request.dry \in BOOLEAN
      /\ request.channels \in {"every", "own", "another"}
      BY <1>1 DEF IsRequest, Reading
<1>5. \A n \in DOMAIN scheduled : scheduled[n] \in RelatedJob
      BY <1>1
<1>6. Len(told) <= Len(scheduled)
      BY DEF CascadeInv, Scheduling
<1>   QED  BY <1>2, <1>3, <1>4, <1>5, <1>6 DEF CascadeInv, CascadeTypes, CascadeTypeOK, RelatedJob

LEMMA PolicyHolds ==
  ASSUME CascadeInv
  PROVE  PolicyIsKept
<1>1. /\ IsRequest(request) /\ scheduled \in Seq(RelatedJob) /\ told \in Seq(ToldType) /\ request.set \in Seq(Docs)
      /\ Len(scheduled) \in Nat /\ Len(told) \in Nat /\ Len(request.set) \in Nat
      /\ DOMAIN scheduled = 1..Len(scheduled) /\ DOMAIN told = 1..Len(told) /\ DOMAIN request.set = 1..Len(request.set)
      /\ Len(scheduled) <= Len(request.set) /\ Len(told) <= Len(scheduled)
      BY DEF CascadeInv, CascadeTypes, IsRequest, Scheduling
<1>2. /\ scheduled # <<>> => CanRun(request) /\ request.at \in {"scheduling", "scheduled", "cut"}
      /\ fails /\ scheduled # <<>> => request.refusals = <<>>
      BY DEF CascadeInv, Scheduling
<1>3. \A n \in DOMAIN scheduled :
        /\ scheduled[n].document = request.set[n]
        /\ scheduled[n].version = request.graph[request.set[n]].version
        /\ scheduled[n].channels \in {0, Site[request.set[n]]}
        /\ n \in DOMAIN request.set /\ request.set[n] \in ToSet(request.set) /\ scheduled # <<>>
  <2>1. \A n \in DOMAIN scheduled : n \in DOMAIN request.set /\ scheduled # <<>>
        BY <1>1
  <2>   QED  BY <2>1 DEF CascadeInv, Scheduling, ToSet
<1>4. JobsCanRun
  <2>1. ASSUME NEW n \in DOMAIN scheduled
        PROVE  /\ scheduled[n].version \in 1..docs[scheduled[n].document].version
               /\ scheduled[n].channels \in {0, Site[scheduled[n].document]}
    <3>   DEFINE d == request.set[n]
    <3>1. d \in DOMAIN request.graph /\ request.graph[d].version # 0
          BY <1>2, <1>3 DEF CanRun
    <3>2. /\ request.graph[d].version \in 0..MaxVersion /\ request.graph[d].version <= docs[d].version
          /\ docs[d].version \in 0..MaxVersion
          BY <1>1, <3>1 DEF CascadeInv, CascadeTypes, IsRequest, NodeType, ReadVersionsExist, RowType
    <3>   HIDE DEF d
    <3>3. scheduled[n].document = d /\ scheduled[n].version = request.graph[d].version
          /\ scheduled[n].channels \in {0, Site[d]}
          BY <1>3 DEF d
    <3>   QED  BY CascadeAssumption, <3>1, <3>2, <3>3
  <2>2. \A n, k \in DOMAIN scheduled : scheduled[n].document = scheduled[k].document => n = k
        BY <1>2, <1>3 DEF CanRun, IsInjective
  <2>   QED  BY <2>1, <2>2 DEF JobsCanRun
<1>5. request.dry => scheduled = <<>> /\ told = <<>>
      BY <1>1, <1>2 DEF CanRun
<1>6. ASSUME request.at = "scheduled"
      PROVE  /\ [n \in DOMAIN scheduled |-> scheduled[n].document] = request.set
             /\ [n \in DOMAIN told |-> told[n].document] = request.set
             /\ told[1].refusals = request.refusals
  <2>1. Len(told) = Len(request.set) /\ CanRun(request)
        BY <1>6 DEF CascadeInv, Scheduling, Walk
  <2>2. Len(scheduled) = Len(request.set) /\ Len(told) = Len(request.set) /\ told # <<>>
        BY <1>1, <2>1 DEF CanRun
  <2>3. \A n \in DOMAIN told : told[n].document = scheduled[n].document
        BY DEF CascadeInv, Scheduling
  <2>4. told[1].refusals = request.refusals
        BY <2>2 DEF CascadeInv, Scheduling
  <2>5. request.set = [n \in 1..Len(request.set) |-> request.set[n]]
        BY <1>1
  <2>6. DOMAIN scheduled = 1..Len(request.set) /\ DOMAIN told = 1..Len(request.set)
        BY <1>1, <2>2
  <2>7. /\ [n \in DOMAIN scheduled |-> scheduled[n].document] = [n \in 1..Len(request.set) |-> request.set[n]]
        /\ [n \in DOMAIN told |-> told[n].document] = [n \in 1..Len(request.set) |-> request.set[n]]
        BY <1>3, <2>3, <2>6
  <2>   QED  BY <2>4, <2>5, <2>7
<1>   QED  BY <1>2, <1>4, <1>5, <1>6 DEF PolicyIsKept

LEMMA GatheredHolds ==
  ASSUME CascadeInv
  PROVE  GatheredIsRight
<1>   SUFFICES ASSUME request.at \in {"planned", "scheduling"}, request.set # <<>>, scheduled = <<>>
               PROVE  Right(request)
      BY DEF GatheredIsRight, Right
<1>   QED  BY DEF CascadeInv, Walk, Planned

\* The inductive invariant of a request that schedules a publish.
THEOREM CascadeInvariant == CascadeSpec => []CascadeInv
<1>1. CascadeInit => CascadeInv
      BY CascadeStarts
<1>2. CascadeInv /\ [CascadeNext]_cascadeVars => CascadeInv'
      BY CascadeStep
<1>   QED  BY <1>1, <1>2, PTL DEF CascadeSpec

\* Every variable of the cascade keeps its type, whatever is edited meanwhile.
THEOREM CascadeTypeCorrect == CascadeSpec => []CascadeTypeOK
<1>1. CascadeInv => CascadeTypeOK
      BY CascadeTypesHold
<1>   QED  BY <1>1, CascadeInvariant, PTL

\* Whatever the references between any number of documents, and whatever was
\* edited while they were read: what LoadGraph and Gather plan is each document
\* that goes along by the rule, once and after one that refers to it, and every
\* reference that is not followed is refused, once and with its reason.
THEOREM GatheringIsRight == CascadeSpec => []GatheredIsRight
<1>1. CascadeInv => GatheredIsRight
      BY GatheredHolds
<1>   QED  BY <1>1, CascadeInvariant, PTL

\* Service.Publish schedules versions that exist, once for each document and on
\* channels of its site, nothing beside a refusal under "fail", nothing in a dry
\* run, and answers only when every job and every event is there.
THEOREM ThePolicyIsKept == CascadeSpec => []PolicyIsKept
<1>1. CascadeInv => PolicyIsKept
      BY PolicyHolds
<1>   QED  BY <1>1, CascadeInvariant, PTL
================================================================================
