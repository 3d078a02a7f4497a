------------------------------- MODULE Publishing -------------------------------
(***************************************************************************)
(* Publishing: the publisher's two jobs (internal/publish/publish.go), the *)
(* rows they record (internal/store/publish.go) and the output tree they   *)
(* write (internal/publish/tree.go).                                       *)
(*                                                                         *)
(* A publish reads and renders with no transaction open, then records its  *)
(* rows and writes its files inside one, the files last.  The files are    *)
(* not in the transaction: readers of the tree see each as it is renamed   *)
(* into place, a failed publish puts them back after the transaction and   *)
(* the store's one writer are gone, and a crash puts nothing back.         *)
(*                                                                         *)
(* JobQueue models the queue.  Here a job is open until it is finished or  *)
(* given up on and has at most one runner that the row names; schedules,   *)
(* priorities and backoff make any order of the open jobs possible.  The   *)
(* address of a document depends on its slug, cover date, filing and the   *)
(* channel's format, and its file on the channel's file name and extension *)
(* besides.  Any of them may change between two publishes: each publish    *)
(* finds some address in each channel and some file for it.                *)
(***************************************************************************)
EXTENDS Integers, Sequences, FiniteSets

CONSTANTS
  Document,
  Channel,       \* output channels of the site
  Selection,     \* the sets of them a publish may be asked for
  Address,       \* URIs
  AddressIn(_),  \* those a channel's formats give documents
  PathsOf(_, _), \* the files a channel writes an address to, now or when its
                 \* file name, extension or domain is another
  Worker, NoOne, \* who runs jobs, and the NULL of lease_owner
  NoPage,        \* what a path with no file holds
  NoPath,        \* the temporary file of a worker that has none
  MaxVersions,   \* bound: versions checked in of a document
  MaxPages,      \* bound: pages ever asked for, one for each channel of a publish
  MaxTroubles    \* bound: steps that fail, processes that die, runners overtaken

ASSUME PublishingAssumption ==
  /\ NoOne \notin Worker
  /\ IsFiniteSet(Channel)
  /\ Selection \subseteq (SUBSET Channel) \ {{}}
  /\ MaxVersions \in Nat /\ MaxPages \in Nat /\ MaxTroubles \in Nat

VARIABLES
  newest,     \* [Document -> Nat]: its newest checked-in version
  live,       \* [Document -> Nat]: documents.live_version_id, 0 for NULL
  resources,  \* the rows of published_resources
  files,      \* [Path -> Page \cup {NoPage}]: the output tree
  temps,      \* the paths whose temporary file exists
  jobs,       \* publish and expire jobs
  batch,      \* [Worker -> a batch]: what each worker is doing
  troubles,   \* how many steps failed, processes died and runners were overtaken
  leftBehind  \* history, which no step reads: files that rows gave up for others

rowVars == <<newest, live, resources, leftBehind>>
vars    == <<newest, live, resources, files, temps, jobs, batch, troubles, leftBehind>>

Path == UNION {PathsOf(c, a) : c \in Channel, a \in Address}

ASSUME NoPathAssumption == NoPath \notin Path

\* The bytes of a page, as far as anybody can tell them apart.
Page == [document : Document, channel : Channel, version : Nat]

Resource ==
  [document : Document, channel : Channel, uri : Address, path : Path, version : Nat]

JobType ==
  [kind : {"publish"}, document : Document, version : Nat,
   channels : SUBSET Channel, open : BOOLEAN, runner : Worker \cup {NoOne}]
  \cup
  [kind : {"expire"}, path : Path, open : BOOLEAN, runner : Worker \cup {NoOne}]

Step == {"idle", "rendered", "writing", "undoing", "removing", "recording", "done", "failed"}

\* pages: what the publish rendered.  todo: of those, what it has not begun to
\* put in the tree.  undo: what each path it began with held before.  order:
\* of those paths, the ones it has written.  temp: the path whose temporary
\* file it opened and has not removed yet; renamed: that file is in place.
IsBatch(b) ==
  /\ DOMAIN b = {"step", "job", "pages", "todo", "undo", "order", "temp", "renamed"}
  /\ b.step \in Step /\ b.job \in Nat
  /\ b.pages \subseteq Resource /\ b.todo \subseteq b.pages
  /\ DOMAIN b.undo \subseteq Path /\ \A p \in DOMAIN b.undo : b.undo[p] \in Page \cup {NoPage}
  /\ b.order \subseteq DOMAIN b.undo
  /\ b.temp \in Path \cup {NoPath} /\ b.renamed \in BOOLEAN

Idle == [step |-> "idle", job |-> 0, pages |-> {}, todo |-> {}, undo |-> <<>>,
         order |-> {}, temp |-> NoPath, renamed |-> FALSE]

TypeOK ==
  /\ newest \in [Document -> Nat]
  /\ live \in [Document -> Nat]
  /\ resources \subseteq Resource
  /\ files \in [Path -> Page \cup {NoPage}]
  /\ temps \subseteq Path
  /\ jobs \in Seq(JobType)
  /\ DOMAIN batch = Worker /\ \A w \in Worker : IsBatch(batch[w])
  /\ troubles \in Nat
  /\ leftBehind \subseteq Path

Init ==
  /\ newest = [d \in Document |-> 0]
  /\ live = [d \in Document |-> 0]
  /\ resources = {}
  /\ files = [p \in Path |-> NoPage]
  /\ temps = {}
  /\ jobs = <<>>
  /\ batch = [w \in Worker |-> Idle]
  /\ troubles = 0
  /\ leftBehind = {}

PageOf(r) == [document |-> r.document, channel |-> r.channel, version |-> r.version]

\* Inside the store's transaction, which one worker at a time can be.
Writing == {w \in Worker : batch[w].step = "writing"}

Troubled == troubles < MaxTroubles /\ troubles' = troubles + 1

--------------------------------------------------------------------------------
(* Editors and the queue                                                      *)

CheckIn(d) ==
  /\ newest[d] < MaxVersions
  /\ Writing = {}
  /\ newest' = [newest EXCEPT ![d] = @ + 1]
  /\ UNCHANGED <<live, resources, leftBehind, files, temps, jobs, batch, troubles>>

PagesAskedFor ==
  {asked \in (DOMAIN jobs) \X Channel :
     jobs[asked[1]].kind = "publish" /\ asked[2] \in jobs[asked[1]].channels}

\* A publish pins the version that is the newest when it is asked for.
Schedule(d, channels) ==
  /\ newest[d] > 0
  /\ Cardinality(PagesAskedFor) + Cardinality(channels) <= MaxPages
  /\ Writing = {}
  /\ jobs' = Append(jobs, [kind |-> "publish", document |-> d, version |-> newest[d],
                           channels |-> channels, open |-> TRUE, runner |-> NoOne])
  /\ UNCHANGED <<rowVars, files, temps, batch, troubles>>

\* An idle worker claims an open job: one nobody runs, or one whose runner has
\* outlived its lease and is still at work.
Claim(w, j, kind) ==
  /\ batch[w].step = "idle"
  /\ jobs[j].kind = kind
  /\ jobs[j].open
  /\ Writing = {}
  /\ jobs' = [jobs EXCEPT ![j].runner = w]
  /\ IF jobs[j].runner = NoOne THEN UNCHANGED troubles ELSE Troubled

\* The worker reports: only the runner the row names settles the job, and a
\* failure leaves it open to be retried or was its last attempt.
Report(w) ==
  LET j == batch[w].job ok == batch[w].step = "done" IN
  /\ batch[w].step \in {"done", "failed"}
  /\ Writing = {}
  /\ \E open \in BOOLEAN :
       /\ ok => ~open
       /\ jobs' = IF jobs[j].runner = w
                    THEN [jobs EXCEPT ![j].open = open, ![j].runner = NoOne]
                    ELSE jobs
  /\ batch' = [batch EXCEPT ![w] = Idle]
  /\ UNCHANGED <<rowVars, files, temps, troubles>>

\* The process dies with every worker in it: the transaction is rolled back
\* and what is in the tree stays, temporary files too.
Crash ==
  /\ Troubled
  /\ jobs' = [j \in DOMAIN jobs |-> [jobs[j] EXCEPT !.runner = NoOne]]
  /\ batch' = [w \in Worker |-> Idle]
  /\ UNCHANGED <<rowVars, files, temps>>

--------------------------------------------------------------------------------
(* The publish job                                                            *)

\* Publisher.Publish up to its transaction: everything is read and rendered.
Render(w, j) ==
  /\ Claim(w, j, "publish")
  /\ \E at \in [jobs[j].channels -> Address], file \in [jobs[j].channels -> Path] :
       /\ \A c \in jobs[j].channels : at[c] \in AddressIn(c) /\ file[c] \in PathsOf(c, at[c])
       /\ LET pages == {[document |-> jobs[j].document, channel |-> c, uri |-> at[c],
                         path |-> file[c], version |-> jobs[j].version] : c \in jobs[j].channels}
          IN batch' = [batch EXCEPT ![w] =
            [Idle EXCEPT !.step = "rendered", !.job = j, !.pages = pages, !.todo = pages]]
  /\ UNCHANGED <<rowVars, files, temps>>

\* A template fails, or the document is filed nowhere: nothing was written.
RenderFails(w) ==
  /\ batch[w].step = "rendered"
  /\ Troubled
  /\ batch' = [batch EXCEPT ![w] = [Idle EXCEPT !.step = "failed", !.job = batch[w].job]]
  /\ UNCHANGED <<rowVars, files, temps, jobs>>

\* Slip: the upsert takes over whatever row is there.
TakenNever(r) == FALSE

\* The row with r's channel and address is another document's.
Taken(r) == \E s \in resources : /\ s.channel = r.channel /\ s.uri = r.uri
                                 /\ s.document # r.document

\* Slip: the live version is moved before the transaction that may roll back.
OpenTxMovingLive(w) ==
  LET j == jobs[batch[w].job] IN
  /\ batch[w].step = "rendered"
  /\ Writing = {}
  /\ live' = [live EXCEPT ![j.document] = j.version]
  /\ batch' = [batch EXCEPT ![w].step =
       IF \E r \in batch[w].pages : Taken(r) THEN "failed" ELSE "writing"]
  /\ UNCHANGED <<newest, resources, leftBehind, files, temps, jobs, troubles>>

\* store.Publish up to its callback.  An address another document has is
\* refused before a byte is written.
OpenTx(w) ==
  /\ batch[w].step = "rendered"
  /\ Writing = {}
  /\ batch' = [batch EXCEPT ![w].step =
       IF \E r \in batch[w].pages : Taken(r) THEN "failed" ELSE "writing"]
  /\ UNCHANGED <<rowVars, files, temps, jobs, troubles>>

\* Paths begun and not written yet: at most one.
Begun(w) == DOMAIN batch[w].undo \ batch[w].order

\* Batch.Put reads what is there, to be able to undo; a path it has read before
\* is an error.
ReadOld(w, r) ==
  LET p == r.path old == batch[w].undo IN
  /\ batch[w].step = "writing"
  /\ Begun(w) = {} /\ batch[w].temp = NoPath
  /\ r \in batch[w].todo
  /\ batch' =
       IF p \in DOMAIN old THEN [batch EXCEPT ![w].step = "undoing"]
       ELSE [batch EXCEPT ![w].undo = [q \in DOMAIN old \cup {p} |-> IF q = p THEN files[p] ELSE old[q]],
                          ![w].todo = @ \ {r}]
  /\ UNCHANGED <<rowVars, files, temps, jobs, troubles>>

\* The temporary file is created with O_EXCL: one that is there is an error.
CreateTemp(w) ==
  /\ batch[w].step = "writing"
  /\ batch[w].temp = NoPath
  /\ \E p \in Begun(w) :
       IF p \in temps
         THEN /\ batch' = [batch EXCEPT ![w].step = "undoing"]
              /\ UNCHANGED temps
         ELSE /\ batch' = [batch EXCEPT ![w].temp = p]
              /\ temps' = temps \cup {p}
  /\ UNCHANGED <<rowVars, files, jobs, troubles>>

\* The rename: a reader sees the page that was there or the whole new one.
RenameTemp(w) ==
  LET p == batch[w].temp IN
  /\ batch[w].step = "writing"
  /\ p # NoPath /\ ~batch[w].renamed
  /\ p \in temps
  /\ \E r \in batch[w].pages : r.path = p /\ files' = [files EXCEPT ![p] = PageOf(r)]
  /\ batch' = [batch EXCEPT ![w].renamed = TRUE, ![w].order = @ \cup {p}]
  /\ temps' = temps \ {p}
  /\ UNCHANGED <<rowVars, jobs, troubles>>

\* The deferred removal, which finds nothing unless another worker has made a
\* temporary file of that name since.
SweepTemp(w) ==
  /\ batch[w].renamed
  /\ temps' = temps \ {batch[w].temp}
  /\ batch' = [batch EXCEPT ![w].renamed = FALSE, ![w].temp = NoPath]
  /\ UNCHANGED <<rowVars, files, jobs, troubles>>

\* A write or the commit fails; the temporary file is removed on the way out.
\* So does a rename whose temporary file another worker has swept away.
WriteFails(w) ==
  /\ batch[w].step = "writing"
  /\ ~batch[w].renamed
  /\ IF batch[w].temp \in temps \cup {NoPath} THEN Troubled ELSE UNCHANGED troubles
  /\ temps' = temps \ {batch[w].temp}
  /\ batch' = [batch EXCEPT ![w].step = "undoing", ![w].temp = NoPath]
  /\ UNCHANGED <<rowVars, files, jobs>>

\* Slip: only the rows a publish writes again are replaced.
SupersededAddresses(w) ==
  {r \in resources : \E s \in batch[w].pages :
     r.document = s.document /\ r.channel = s.channel /\ r.uri = s.uri}

\* Rows this publish replaces or no longer produces, in the channels it covers.
Superseded(w) ==
  {r \in resources : \E s \in batch[w].pages :
     r.document = s.document /\ r.channel = s.channel}

\* Slip: an address the publish produces in another channel is kept here too.
StaleAcrossChannels(w) == {r \in Superseded(w) : \A s \in batch[w].pages : r.uri # s.uri}

\* Of those, the addresses it no longer produces: each gets an expire job.
Stale(w) == {r \in Superseded(w) : \A s \in batch[w].pages :
               ~(r.channel = s.channel /\ r.uri = s.uri)}

\* The upsert puts the new file's path in the row of an address it produces again,
\* and nothing is done about the file the row named.
Renamed(w) == {r \in Superseded(w) : \E s \in batch[w].pages :
                 r.channel = s.channel /\ r.uri = s.uri /\ r.path # s.path}

CommitTx(w) ==
  LET b == batch[w] j == jobs[b.job] paths == {r.path : r \in Stale(w)}
      expire(p) == [kind |-> "expire", path |-> p, open |-> TRUE, runner |-> NoOne]
  IN
  /\ b.step = "writing"
  /\ b.todo = {} /\ Begun(w) = {} /\ b.temp = NoPath
  /\ resources' = (resources \ Superseded(w)) \cup b.pages
  /\ live' = [live EXCEPT ![j.document] = j.version]
  /\ \E order \in [1..Cardinality(paths) -> paths] :
       /\ \A p \in paths : \E i \in DOMAIN order : order[i] = p
       /\ jobs' = jobs \o [i \in DOMAIN order |-> expire(order[i])]
  /\ batch' = [batch EXCEPT ![w] = [Idle EXCEPT !.step = "done", !.job = b.job]]
  /\ leftBehind' = (leftBehind \cup {r.path : r \in Renamed(w)}) \ {s.path : s \in b.pages}
  /\ UNCHANGED <<newest, files, temps, troubles>>

\* Slip: what was not there is restored as an empty file.
UndoRemoveToEmpty(w, p) ==
  /\ batch[w].step = "undoing"
  /\ batch[w].temp = NoPath
  /\ p \in batch[w].order
  /\ batch[w].undo[p] = NoPage
  /\ files' = [files EXCEPT ![p] = NoPath]
  /\ batch' = [batch EXCEPT ![w].order = @ \ {p}]
  /\ UNCHANGED <<rowVars, temps, jobs, troubles>>

\* Batch.Rollback, with the transaction and the writer gone: a file that was
\* not there is removed, a page that was is written back like any other, and
\* what fails is reported and stepped over.  Its order, newest first, is left
\* out: the paths differ.
UndoRemove(w, p) ==
  /\ batch[w].step = "undoing"
  /\ batch[w].temp = NoPath
  /\ p \in batch[w].order
  /\ batch[w].undo[p] = NoPage
  /\ files' = [files EXCEPT ![p] = NoPage]
  /\ batch' = [batch EXCEPT ![w].order = @ \ {p}]
  /\ UNCHANGED <<rowVars, temps, jobs, troubles>>

UndoTemp(w, p) ==
  /\ batch[w].step = "undoing"
  /\ batch[w].temp = NoPath
  /\ p \in batch[w].order
  /\ batch[w].undo[p] # NoPage
  /\ p \notin temps
  /\ batch' = [batch EXCEPT ![w].temp = p]
  /\ temps' = temps \cup {p}
  /\ UNCHANGED <<rowVars, files, jobs, troubles>>

UndoRename(w) ==
  LET p == batch[w].temp IN
  /\ batch[w].step = "undoing"
  /\ p # NoPath /\ ~batch[w].renamed
  /\ p \in temps
  /\ files' = [files EXCEPT ![p] = batch[w].undo[p]]
  /\ temps' = temps \ {p}
  /\ batch' = [batch EXCEPT ![w].renamed = TRUE, ![w].order = @ \ {p}]
  /\ UNCHANGED <<rowVars, jobs, troubles>>

\* A temporary file is in the way or was swept away, or the file system fails.
UndoFails(w, p) ==
  LET b == batch[w] IN
  /\ b.step = "undoing"
  /\ ~b.renamed
  /\ p \in b.order /\ b.temp \in {p, NoPath}
  /\ IF b.undo[p] # NoPage /\ (p \in temps <=> b.temp = NoPath)
       THEN UNCHANGED troubles ELSE Troubled
  /\ temps' = IF b.temp = p THEN temps \ {p} ELSE temps
  /\ batch' = [batch EXCEPT ![w].order = @ \ {p}, ![w].temp = NoPath]
  /\ UNCHANGED <<rowVars, files, jobs>>

Undone(w) ==
  /\ batch[w].step = "undoing"
  /\ batch[w].order = {} /\ batch[w].temp = NoPath
  /\ batch' = [batch EXCEPT ![w] = [Idle EXCEPT !.step = "failed", !.job = batch[w].job]]
  /\ UNCHANGED <<rowVars, files, temps, jobs, troubles>>

--------------------------------------------------------------------------------
(* The expire job                                                             *)

StartExpire(w, j) ==
  /\ Claim(w, j, "expire")
  /\ batch' = [batch EXCEPT ![w] = [Idle EXCEPT !.step = "removing", !.job = j]]
  /\ UNCHANGED <<rowVars, files, temps>>

\* The file goes, whatever it holds and whoever's it is by now.
RemoveFile(w) ==
  /\ batch[w].step = "removing"
  /\ files' = [files EXCEPT ![jobs[batch[w].job].path] = NoPage]
  /\ batch' = [batch EXCEPT ![w].step = "recording"]
  /\ UNCHANGED <<rowVars, temps, jobs, troubles>>

RemoveFails(w) ==
  /\ batch[w].step = "removing"
  /\ Troubled
  /\ batch' = [batch EXCEPT ![w].step = "failed"]
  /\ UNCHANGED <<rowVars, files, temps, jobs>>

\* The event is a transaction of its own, which may fail.
RecordExpiry(w) ==
  /\ batch[w].step = "recording"
  /\ \/ Writing = {} /\ UNCHANGED troubles /\ batch' = [batch EXCEPT ![w].step = "done"]
     \/ Troubled /\ batch' = [batch EXCEPT ![w].step = "failed"]
  /\ UNCHANGED <<rowVars, files, temps, jobs>>

--------------------------------------------------------------------------------

Next ==
  \/ \E d \in Document : CheckIn(d)
  \/ \E d \in Document, channels \in Selection : Schedule(d, channels)
  \/ Crash
  \/ \E w \in Worker, j \in DOMAIN jobs : Render(w, j) \/ StartExpire(w, j)
  \/ \E w \in Worker :
       \/ RenderFails(w) \/ OpenTx(w)
       \/ \E r \in batch[w].todo : ReadOld(w, r)
       \/ CreateTemp(w) \/ RenameTemp(w) \/ SweepTemp(w) \/ WriteFails(w) \/ CommitTx(w)
       \/ \E p \in batch[w].order : UndoRemove(w, p) \/ UndoTemp(w, p) \/ UndoFails(w, p)
       \/ UndoRename(w) \/ Undone(w)
       \/ RemoveFile(w) \/ RemoveFails(w) \/ RecordExpiry(w)
       \/ Report(w)

Spec == Init /\ [][Next]_vars

--------------------------------------------------------------------------------
(* Properties                                                                 *)

\* A document has one address in a channel and an address one document,
\* however many publishes of it, in whatever channels, were under way at once,
\* each having worked out its addresses before the others committed.
OneAddressPerChannel ==
  \A r, s \in resources :
    r.channel = s.channel /\ (r.document = s.document \/ r.uri = s.uri) => r = s

\* What is live is recorded: the live version of a document, set when a
\* publish commits and nowhere else, is the version of one of its rows, and
\* no row is of a version that was not checked in.
LiveIsRecorded ==
  /\ \A d \in Document : live[d] # 0 =>
       \E r \in resources : r.document = d /\ r.version = live[d]
  /\ \A r \in resources : r.version \in 1..newest[r.document] /\ live[r.document] # 0

\* What a check of the tree reports: paths of rows without a file, and files that
\* no row claims.  Nothing acts on it.
Compare(rows, present) ==
  LET claimed == {r.path : r \in rows}
  IN  [missing |-> claimed \ present, unknown |-> present \ claimed]

Reconcile == Compare(resources, {p \in Path : files[p] # NoPage})

InFlight(p) == \E w \in Worker : p \in batch[w].order

\* An expire job that is still open will remove it.
Expiring(p) == \E j \in DOMAIN jobs : jobs[j].kind = "expire" /\ jobs[j].open /\ jobs[j].path = p

\* What the settings of the channels have to keep for the two properties below,
\* whatever they are changed to: no file is one of two channels, or of two
\* addresses of one.
FilesAreDistinct ==
  \A c, e \in Channel : \A a \in AddressIn(c), b \in AddressIn(e) :
    PathsOf(c, a) \cap PathsOf(e, b) # {} => c = e /\ a = b

\* While nothing has failed: a file no row names is about to be expired, or a
\* publish that has not committed yet wrote it, or the row that named it was
\* published to the same address again under another file name.  Only that last
\* one, which nothing ever removes (NothingIsLeftBehind), is no business of a
\* job: however many publishes of the document, in whatever channels, ran into
\* each other, every address it left has its job.
OrphansAreExpiring ==
  troubles = 0 =>
    \A p \in Reconcile.unknown : InFlight(p) \/ Expiring(p) \/ p \in leftBehind

\* While nothing has failed: the tree never serves, at an address a row names,
\* a page other than the one the row records.
PagesMatchRows ==
  troubles = 0 =>
    \A r \in resources :
      InFlight(r.path) \/ files[r.path] \in {NoPage, PageOf(r)}

(***************************************************************************)
(* Not so.  internal/store/publish.go:31 says that "the rows describe      *)
(* exactly the files that exist".  An expire job outlives the row it was   *)
(* scheduled for: when the document goes back to the address before the    *)
(* job has run, the job deletes the page that is live there.               *)
(***************************************************************************)
LiveFilesExist ==
  \A p \in Reconcile.missing : InFlight(p)

(***************************************************************************)
(* Not so either, though nothing has failed.  Which rows are stale is      *)
(* asked of their addresses (store/publish.go:204), and the file is the    *)
(* address with the channel's file name and extension (domain/uri.go:247), *)
(* which UpdateOutputChannel changes.  The next publish writes the new     *)
(* file, the upsert puts its path in the row, and the old file stays.      *)
(***************************************************************************)
NothingIsLeftBehind ==
  troubles = 0 => leftBehind \cap Reconcile.unknown = {}
================================================================================
