# Specifications of bricolage

Bricolage is a content management system in one Go process over one SQLite
database: editors check documents out and in, a workflow moves them towards
publication, and background workers render them into a tree of files that a web
server serves. These modules model the parts of it whose correctness depends on
*when* things happen (requests that act on what they read a moment ago, workers
that are overtaken, killed and restarted, command lines killed half way, a file
tree that is in no transaction) and the pure answers that are easy to get almost
right (diffs, addresses, schemas, grants).

All paths below are relative to `src/internal/` unless they start with `src/`.

## The system

Three facts shape everything.

* **One writer.** `store.DB.Write` holds a mutex around the single write
  connection, `store.DB.Tx` wraps an immediate transaction around that
  (`store/store.go:137-181`). A transaction is therefore one atomic action of a
  model, and so is a single UPDATE.
* **Services read outside.** A service method looks rows up on a reader
  connection, checks them, reads the clock, and only then asks the store to
  write. Between the two anything may commit. A service method is therefore at
  least two actions.
* **Leases, not locks.** An edit lease and a job lease are columns with an
  expiry. Nobody clears an expired one; every statement that takes or uses one
  compares it with a clock reading its caller made before it waited for the
  writer.

A fourth shows up in several components: **row ids come back**. `INTEGER PRIMARY
KEY` without `AUTOINCREMENT` gives a new row one more than the greatest id in
use, so the id a request read may be another row's when it writes.

| component | state it keeps | operations | what is hard |
|---|---|---|---|
| job queue (`store/jobs.go`, `jobs/queue.go`, `domain/job.go`) | `jobs` rows: schedule, priority, lease, attempts, outcome; events | enqueue, claim, extend, complete, fail, release, retry | expired leases, late reports, attempts counted in two places, starvation |
| worker pool (`jobs/pool.go`, `jobs/handler.go`) | each worker's claimed job | claim, dispatch, report, shut down | cancellation during a handler, a process that dies and returns under its old name |
| documents (`store/documents.go`, `service/documents.go`) | documents, versions, edit lease | create, checkout, update, check in, cancel, revert | stale reads before each write, pointer bookkeeping, deletion and row id reuse |
| workflow (`workflow/engine.go`, `store/workflow.go`) | state, assignee, due date | available, do | guards over facts other components write; a publish job in the same transaction |
| approvals, comments (`service/approvals.go`, `service/comments.go`) | approvals per version and state; threads | approve, withdraw, comment, resolve | recorded from facts read outside; row and event written separately |
| assignment and queues (`service/queue.go`, `store/queue.go`) | assignee and due date | assign, unassign, set due, list | races with transitions that clear them; a limit applied beside a permission |
| scheduling a publish (`service/publish.go`, `publish/graph.go`, `publish/gather.go`) | jobs | publish, dry run | a graph read at several instants; a cascade that is cut off half way |
| publisher (`publish/publish.go`, `store/publish.go`, `publish/tree.go`) | `published_resources`, `live_version_id`, the output tree | publish, expire, compare | files written inside a transaction they are not part of; rollback after it; crashes; expire jobs that outlive their reason |
| events and alerts (`events/`, `store/alerts.go`, `service/alerts.go`, `domain/alert.go`) | events, cursor, rules, notifications | record, dispatch a batch, mark read, edit rules | two dispatchers, deliveries after the commit, rules read apart from events |
| sessions, invitations, grants (`service/sessions.go`, `invitations.go`, `grants.go`, `authz/`) | users, sessions, invitations by token hash, roles, grants | sign in, resolve, log out, invite, revoke, redeem, grant, assign | two redemptions, expiry and revocation in between; granting more than one holds |
| sites, categories, channels (`service/structure.go`, `service/categories.go`, `store/categories.go`) | categories with stored paths, filings, domains, formats | create, move, delete, file, update | paths of a moved subtree, races on ids, addresses that change in silence |
| addresses (`domain/uri.go`, `domain/strftime.go`, `domain/category.go`) | none | build, validate, normalise | tokens beside slashes, missing values |
| content and diffs (`domain/content.go`, `related.go`, `diff.go`, `web/content.go`) | none | check, draw, read back, compare | what a form can carry; runs and trimming |
| rendering and preview (`render/`, `service/render.go`) | parsed templates; the scratch tree | render, preview | templates edited meanwhile; files killed half way |
| server (`server/`, `src/cmd/cmsd`) | listeners, workers' context | serve, drain, stop | the one order of shutdown |
| database and its command lines (`store/store.go`, `open.go`, `backup.go`, `src/cmd/cmsdb`) | the file, its version, its rows | init, migrate, seed, bootstrap, back up | two at once, one killed, run again |
| transports (`api/`, `web/`, `edge/`, `server/`) | none | route, attribute, authenticate, answer | who a request is from; which failure becomes which answer |
| command line client (`src/cmd/earl`), configuration | none | - | - |

How they interact: services call the store and enqueue jobs (a direct publish
through `jobs.Queue.Enqueue`, a transition inside its own transaction); the pool
claims jobs and calls the publisher's handlers; the publisher records rows
through `store.Publish`, which calls back into the publisher to write the files
and enqueues expire jobs; everything that changes state records an event; the
dispatcher reads events after they are committed. Handlers, JSON and HTML alike,
ask the same services. The server owns the workers' context and closes the
database last.

## The modules

| module | models | run | proofs |
|---|---|---|---|
| `WorkQueue` | what a queue of jobs promises, with no clock, lease or attempt in it | | |
| `JobQueue` | the job queue and the worker pool; implements `WorkQueue` | `jobqueue`, `jobqueue_liveness` | `JobQueue_proofs` |
| `Documents` | documents, versions, the edit lease | `documents` | `Documents_proofs` |
| `Publishing` | the publisher's two jobs, rows, files, rollback, crashes, and the comparison of tree and rows | `publishing` | `Publishing_proofs` |
| `Editorial` | workflow, approvals, comments, assignment, and the versions they are about | `editorial` | `Editorial_proofs` |
| `Cascade` | scheduling a publish with everything the document refers to | `cascade` | `Publishing_proofs` |
| `EventFeed` | what the alert dispatcher promises | | |
| `AlertRules`, `Alerts` | a rule over an event; the spine, the rules, the dispatchers; implements `EventFeed` | `alerts` | `Alerts_proofs` |
| `Authz`, `Invitations`, `Access` | grants over subjects; accounts and invitations; the requests that use them | `access` | `Access_proofs` |
| `SiteTree` | what a hierarchy of categories promises | | |
| `Addresses`, `Sites` | paths and formats; categories, filings and settings that change; implements `SiteTree` | `sites` | `Editorial_proofs` |
| `Rendering` | template lookup and cache, previews, restarts | `previews` | `Rendering_proofs` |
| `Server` | one process: serving, draining, closing | `deployment` | `Deployment_proofs` |
| `Deployment` | the database file under command lines, beside a `Server` | `deployment` | `Deployment_proofs` |
| `Texts`, `Diff`, `Content`, `Queues` | pure answers: word diffs, schemas and the editor's form, lists | `answers` | |
| `Edge` | what every request goes through before and after its handler | `answers` | `Deployment_proofs` |
| `Handlers`, `Api`, `Pages` | the routes of both faces as the service calls they make, in order | `answers` | `Deployment_proofs` |
| `Answers` | one question and its answer, over all of the pure modules | `answers` | `Deployment_proofs` (requests only) |

`MC...` modules give the constants values. A variable or a field that exists only
for the properties is said to be one where it is declared.

Three proof modules are about two components each, one after the other and neither
resting on the other: `Publishing_proofs` about `Publishing` and about `Cascade`, which
schedules the jobs that `Publishing` runs, `Editorial_proofs` about `Editorial` and
about `Sites`, which files the documents that `Editorial` moves, and `Deployment_proofs`
about `Deployment` and about `Answers`, what the server that is deployed says to
whoever asks. So that both can be extended at once, `Cascade`, `Sites` and `Answers`
name what every specification has after themselves: `CascadeInit`, `SitesSpec`,
`AnswersNext` and so on.

### JobQueue

`jobs[id]` is a row, `lastEvent[id]` the newest event about it. A worker `w` is at
`pc[w]`, holds the copy `held[w]` of the row its claim returned and will use the
clock reading `at[w]` in its next statement.

| action | code |
|---|---|
| `Enqueue`, `Retry` | `store.EnqueueJob`; `Queue.Retry` with `store.RetryJob` |
| `Poll` | `Queue.Claim` reads the clock |
| `Claim`, `ClaimNothing` | `claimSQL`: first ready row in the order priority, schedule, id; the attempt is counted here |
| `ExtendLease` | `store.ExtendLease` |
| `HandlerReturns` | `Pool.execute` decides what to report: complete, fail, or release when the context has ended |
| `Complete`, `Fail`, `Release` | `store.finish` with its three UPDATEs; matched on the owner, so a worker that was overtaken changes nothing |
| `Cancel`, `Stop`, `Crash`, `Restart` | the pool's context ends; the loop returns; the process dies; systemd starts it again under the same worker names |

Two details are kept because properties hang on them. `Queue.Fail` chooses between
"failed" and "abandoned" from the copy the claim returned, and the UPDATE decides
from the row. And the owner is a *name*: after a restart a worker may be the owner
of a row it knows nothing of.

### Documents

`documents[id]` is a row with its lease, its pointer `current` and its versions.
`requests[r]` is a request between its reads and its transaction: `Begin`,
`BeginCheckin` and `BeginUpdateDraft` are the service's half (the lookup, the
validation, the new draft worked out from the old one, the clock), `Checkout`,
`UpdateDraft`, `Checkin`, `CancelCheckout` and `Revert` the store's. A refused
request writes nothing and is `Refuse`. `history` remembers which documents the
events filed under a row id are about; `NextId` is SQLite's choice of a row id.

### Publishing

`resources` are the rows of `published_resources`, `files` the tree, `temps` the
paths whose `.publish-*` file exists. `batch[w]` is what worker `w` is doing: the
pages it rendered, what it has not yet put in the tree, what each path held before
and which it has written. Steps of a publish: `Render` (everything
`Publisher.Publish` does before its transaction), `OpenTx` (the store's writer is
taken, the collisions are refused), `ReadOld`, `CreateTemp`, `RenameTemp`,
`SweepTemp` for each file, `CommitTx`; on an error `UndoRemove`, `UndoTemp`,
`UndoRename`, `UndoFails`, `Undone`, *after* the writer is free. Steps of an expire:
`StartExpire`, `RemoveFile`, `RecordExpiry`. `Crash` kills every worker between any
two of these and leaves the tree as it is. Writing holds the writer from `OpenTx`
to `CommitTx`: every other action that writes the database waits (`Writing = {}`).
`Compare` and `Reconcile` are `publish/reconcile.go`: the files no row names and the
rows without a file, which two properties are stated with.

The queue is abstract here: an open job may be claimed by anybody in any order, by
a second worker too when the first outlives its lease, and a job settles only for
the runner its row names. `JobQueue` shows where that comes from. Which address a
document gets, and which file the address is written to, is abstract too: every publish
finds some address in each channel (`Addresses` says how they are built) and one of the
files the channel may write that address to (`PathsOf`), for the file is the address
with the channel's file name and extension, and `UpdateOutputChannel` changes both. A
row keeps the file it was written with, and the upsert of the same address puts another
over it, as the code does. `leftBehind` remembers the files rows gave up that way.

### Editorial

One document: its `state`, `assignee`, `lockedBy`, `versions`, the rows of
`approvals`, how many `threads` are open and which versions comments name
(`discussed`), and what publish jobs are pinned to (`pins`). `requests[r]` is what a
request has read. Two variables exist for the properties alone: `approved` remembers
which version was current when a sign-off was last required, and `told` is the bag of
approvals the history tells of.

| action | code |
|---|---|
| `Checkout`, `UpdateDraft`, `Checkin`, `LeaseEnds`, `Revert` | `store/documents.go`, one step each: their races are `Documents`' business |
| `Do` | `Engine.Do` in `store.ApplyTransition`: facts, `Check` with `GuardHolds`, state and assignee, cleared approvals, the publish job |
| `Assign` | `Service.Assign`, `Service.Unassign` |
| `BeginApproving`, then `CreateApproval` or `WithdrawApproval` | `Service.mayApprove`, then the store's row and event |
| `BeginCommenting`, `CreateComment`, `ResolveComment` | `Service.Comment`, `ResolveComment` |
| `BeginPublish`, `PinVersion`, `EnqueuePublish` | `Service.Publish`: the state, then the version, then the job |

A transition is one action because its facts are read inside the transaction that
writes. An approval is two, and its second has an outcome in which only the first
statement was executed (`Interrupted`): `DB.Write` begins no transaction, and it
interrupts the connection when the request's context ends. What the request reads is
read in one step, though `mayApprove` looks up the document and the version
separately. `PrivilegeOf(u, s)` is what a person's grants resolve to while the
document is in state `s`, for grants may be scoped to a state; grants do not change
here. A row or an event of a comment is not modelled, only what guards and deletions
ask of comments.

### Cascade

`docs[d]` is a document's row as others see it, `content[d]` what its version refers
to, `request` the one request: the graph it has loaded so far, the set it gathered,
the refusals, what it has still to look at (`queue`, `refs`), and how far it has come;
`scheduled` the jobs it has put into the queue, `told` the events.

| action | code |
|---|---|
| `Begin` | the root's checks, before anything is loaded |
| `ReadDocument`, `ReadVersion`, `ReadReference`, `NodeLoaded`, `GraphLoaded` | `LoadGraph`: node after node, the row, then the version, then one by one the documents it refers to; each is a read of its own |
| `Visit`, `Meet` | `publish.Gather` over what was loaded: a node of the walk, a reference of it |
| `Decide` | the root's pin, the "fail" policy and the dry run |
| `Enqueue`, `RecordEvent`, `Answer` | the loop of `Service.Publish`: one transaction for each job, one for each event |
| `Cut` | the request's context ends before any of them |
| `Checkout`, `Checkin`, `Revert`, `Move` | other people, on any document, meanwhile |

The walk is checked against a definition by closure (`GoesAlong`): the least set that
has the root and, with each member, whatever it refers to and may go along.

### Alerts

`events` is the spine, `cursor` what has been evaluated, `rules` the rows by id,
`notes` the inbox, `sent` the mails that left. `passes[d]` is the copy of events and
rules that dispatcher `d` holds in mid-pass.

| action | code |
|---|---|
| `Transition` | something is done to the watched document: its row and its event in one transaction |
| `CreateAlertRule`; `ReadRule`, then `UpdateAlertRule` or `DeleteAlertRule` | `service/alerts.go` with `store/alerts.go`: validated on the way in, written whole |
| `Dispatch(d)` | `Dispatcher.Once` in its five steps: pending events, then active rules, then the evaluation, `DB.Deliver` with its compare-and-swap of the cursor, then what is mailed |
| `Crash(d)` | the process dies in mid-pass |
| `MarkNotificationRead` | the inbox |

`AlertRules` is `domain/alert.go`: values are compared as numbers where both are
numbers and as text otherwise, a NaN is equal to nothing, and a field is looked for
with the actor, in the payload and in the subject, in this order. `EventFeed` is what
the migration that made the cursor promises.

### Access

`grants`, `roles`, `sessions` and the accounts and `invitations` of module
`Invitations`; `requests[r]` is what a request holds between its reads and its
write: who it is from, what they held, what it is about.

| action | code |
|---|---|
| `SignIn`, `FindSession`, `DropExpired`, `Authenticate`, `Logout` | `service/sessions.go` and the middleware's lookups |
| `BeginInvitation`, `CreateInvitation`; `BeginRevocation`, `RevokeInvitation`; `BeginRedemption`, `Redeem` | `service/invitations.go` around the UPDATEs that name 'pending' |
| `CreateUser`, `grantAdminRole` | `src/cmd/cmsdb/identity.go`, and an account made by hand |
| `CreateGrant`; `BeginAssigning`, `AssignRole` | `service/grants.go` with `authz.CanGrant` |
| `Tell`, `GiveUp` | the event that follows a `DB.Write`, which a request that is cut off does not reach |

`Authz` is `authz/` over scopes: six attributes that a scope may constrain or leave
open, and a category with everything below it or without. A grant records who made it
and what they held (`by`), for `GrantsWithinReach` alone.

### Sites

`categories` are the rows with their stored paths, `filed[d]` the categories of a
document, the primary first, and `site`, `channel` and `fixedUri` what else an address
is made of. A category is found in one step (`FindCategory`, `ReadFiling`), which any
other request may overtake, and found again by its id in the transaction:
`CreateCategory`, `MoveCategory` with `moveSubtree`, `DeleteCategory`, `FileDocument`;
`UpdateSite`, `UpdateElementType` and `UpdateOutputChannel` are single steps.
`Address(d)` is what `Addresses` builds of all that. `SiteTree` keeps no paths at
all: there a category is where the walk up from it leads.

### Rendering

`tree` is the tree of templates, `cache` what the engine has parsed, `scratch` the
previews, `requests[r]` a request on its way.

| action | code |
|---|---|
| `Preview`, `Place`, `Lookup` | `service/render.go`: the version, the categories it is filed in, the first candidate that exists |
| `Hit`, `Miss`, `Parse`, `Keep` | `Engine.template`: the map under its mutex, the parse outside it, kept in production only |
| `Execute`, `Create`, `Write`, `Rename`, `Answered` | the render in memory, then a temporary file under the checksum's name |
| `Edit`, `Revise` | somebody edits a template or the document |
| `NewServer`, `Stop` | a process starts, in either mode, with an empty cache; or is killed anywhere |

A kill leaves what was written; a power cut is not modelled (there is no fsync before
the rename). SHA-256 is taken to be one to one. The publisher renders with the same
engine, in `Publishing`.

### Server and Deployment

`Server` is `Server.Serve`: `phase`, how the end was asked for (`way`), the state of
every request and worker (`client`), and the readers and the writer of the database.
`Arrive`, `Answer`, `Claim`, `Report`, `StopWorking`, `Read`, `Write` and `Return` are
the clients; `Signal`, `RequestShutdown`, `ListenerFails`, `BeginDrain`, `DrainOver`,
`StopWorkers`, `LeaveServe` the server's one way out; `CloseReaders`, `ReadersClosed`,
`CloseWriter` are `DB.Close` with its checkpoint.

`Deployment` extends it with the file (`file`, `rows`, `partial`, `named`) and the
commands `proc[p]` of `cmsdb`: a list of commands to give each, one after another.

| action | code |
|---|---|
| `Open`, `InitLooks`, `Create`, `Reopen`, `Stamp` | `cmd/cmsdb/db.go`, `store/open.go`: what `init` makes, and what every open asks of a file |
| `Apply` | one migration in its own transaction |
| `Look`, `Insert` | `seed` and `bootstrap`: each row looked for, then made, with the schema's UNIQUE constraints |
| `GetsNoLock` | a writer elsewhere outlasts the busy timeout |
| `BackupLooks`, `RemovePartial`, `BeginCopy`, `EndCopy`, `Check`, `Rename` | `store/backup.go` |
| `Kill` | any command between any two of these |

### Answers, Edge, Api, Pages

Nothing in these changes state: a `question` is asked and `given` is the answer, so
the one run goes through every bounded input. `Diff` is the word diff with its
trimming, its matrix and its fallback when the matrix would be too large; `Content` a
schema's check, the references a publish follows, and the editor's form, the browser
that shows it and submits it, and back; `Queues` the list query and the saved queues; `Addresses` the expansion of a format. A content question has two schemas, what the
type was at the check-in and what it is when a publish reads the references.

The browser is modelled after what `web/templates/pages/editor.gohtml` puts on the page
(`Control`, `Submitted`): a text area submits a line break as a return and a line feed
and drops one that begins its text, a line of text drops its breaks, a box for an
address or a number refuses what is none, and then nothing is submitted.

`Edge` takes a request from the socket to its answer: `ClientIP` through trusted
proxies, the middleware against other sites' pages, the bearer token or the cookie,
the handler, `StatusFor` or a page's notice. A route is a record of `Handlers`: its
steps in their order (`"input"` or a method of the service), which of them fill a
panel only, and what success answers. `Api!Routes` and `Pages!Routes` are the
registers, read off every handler in `api/` and `web/`. In the model any step may fail
with any of the service's failures. What a step does when it succeeds is another
module's business.

## What the runs check

| run | properties | shows |
|---|---|---|
| `jobqueue` | `FinishedIsFinal` `LeaseRespected` `ImplementsWorkQueue` | late, overtaken, cancelled, killed and restarted workers never undo an outcome or use somebody else's lease, and the queue does what `WorkQueue` promises |
| `jobqueue_liveness` | `EventuallyFinished` | once outages and arrivals have ended and attempts fit in their leases, every job is completed or given up on |
| `documents` | `CheckedInIsForever` `LiveLeaseProtects` | requests acting on stale reads never change a checked-in version or get past a live lease |
| `publishing` | `OneAddressPerChannel` `OrphansAreExpiring` `PagesMatchRows` `LiveIsRecorded` | concurrent publishes keep addresses apart and record what is live, whatever fails; until something fails they serve what they record and forget no file but one whose address got another file name |
| `editorial` | `EventsAccountForRows` `NothingScheduledUnapproved` `SignedContentIsFixed` `SignOffCounts` | approvals keep to the content they were given for, moves count real sign-offs, and what is scheduled was approved |
| `cascade` | `GatheredIsRight` `PolicyIsKept` | what goes along with a document is what the rule says, and what is answered as scheduled is scheduled, can run and is told |
| `alerts` | `EveryWatchedEventIsTold` `MailIsSentOnce` `FeedSpec` `EveryEventIsEvaluated` | no watched event is passed over or told of twice by dispatchers that race and die while rules change |
| `access` | `GrantsWithinReach` `AccountsMatchInvitations` `HistoryExplainsInvitations` | nobody hands out more than they hold, an invitation makes one account and an address has one open invitation, and the history says what became of it |
| `sites` | `PathsAreTheTree` `AddressChangesAreTold` `TreeSpec` | stored paths stay the walk up the tree, and no address changes in silence |
| `previews` | `PreviewIsWhole` `RendersAreCurrent` | a render uses a template that was there, and whoever opens a preview finds a whole page |
| `deployment` | `NobodyIsCutOff` `PromisesAreKept` `BackupIsWhole` `ShutdownEnds` | commands keep their promises after a kill, a backup is whole, and the shutdown waits for whom it can and ends |
| `answers` | `DiffIsRight` `ContentIsKept` `ReferencesAreReadable` `ListIsWhole` `NoDoubledSlash` `AddressIsWitnessed` `OnlyOurPagesAreObeyed` `AnswersAreTrue` | the pure answers against plain definitions, and every route's answer against what was done |

Every state machine also states its `TypeOK`. `Documents.CurrentIsNewest`,
`Editorial.PinsAreCheckedIn`, `Alerts.StoredRulesAreValid` and
`Answers.NearestTemplate` hold on the instances above too; so do `RowsConsistent`,
`OwnerHasLatestAttempt` and `EventsMatchRows` of `JobQueue`. No run lists these, for
the properties that are listed depend on them or say more; several are theorems.

Deadlock is not checked: every model stops when its bounded counters are used up,
and a server ends.

### Known disagreements

Each of these is a definition in the module, marked "Not so", with what was found
while modelling. No run expects them to hold.

* `JobQueue.AttemptsWithinLimit`. Counting the attempt in the claim is "what stops a
  job that kills its worker from being retried forever" (`store/jobs.go:168`). The
  claim counts and never compares; only `FailJob` does, which a dead worker never
  calls.
* `Documents.CheckedInIsValid`. "A working draft may be invalid ... and a checked-in
  version may not" (`service/documents.go:226-229`). The draft is validated before the
  transaction that closes it, and the lease's holder may have an update in flight.
* `Documents.NoLostUpdate`. "Two edits to different fields do not overwrite one
  another" (`service/documents.go:155-157`). The update is applied to a copy read
  before the transaction, which then writes every column.
* `Documents.HistoryIsOwn`. "A deleted document still has a history"
  (`store/documents.go:852-855`). It is filed under a row id that the next document
  gets.
* `Publishing.LiveFilesExist`. "The rows describe exactly the files that exist"
  (`store/publish.go:31-33`). An expire job removes a path that is live again.
* `Publishing.NothingIsLeftBehind`. The same line, the other way round. What is stale is
  asked of a document's addresses (`store/publish.go:204`); after `UpdateOutputChannel`
  changed a channel's file name or extension (`service/structure.go:131-156`) a publish
  to the same address writes another file, the upsert puts its path in the row
  (`store/publish.go:250`), and the old file stays with no row and no expire job, though
  nothing failed.
* `Editorial.EveryChangeIsTold`. "A state change and the event recording it are one
  change ... Everything in this package that writes more than one row goes through
  here" (`store/store.go:157-161`, of `DB.Tx`). Approvals and comments go through
  `DB.Write`. `EventsAccountForRows` is the same claim while nothing is cut off, and
  holds.
* `Cascade.NoPageWithoutItsRelatives`. "A page that goes live linking to a document
  that did not is the failure the policy exists to prevent"
  (`service/publish.go:245-248`). A request cut off between two jobs has scheduled the
  root, which the queue publishes alone.
* `Alerts.AbsentIsLeftAlone`. An absent field of a PATCH is left alone
  (`service/alerts.go`, `AlertRuleInput`); the whole row is written from a copy that
  another PATCH may have overtaken.
* `Alerts.NoteNamesItsRule`. A notification names "the rule that produced it"
  (`domain/alert.go`); the id of a deleted rule is given to the next one.
* `Alerts.OneLinePerPerson`. "Two rules that resolve to the same person through
  different targets ... are one line in an inbox, which is what the index says"
  (`store/alerts.go:296-300`). The index is of the user, the event and the rule, and the
  inbox gets a line for each rule; `EveryWatchedEventIsTold` says that, of each rule.
* `Access.NobodyElseIsSignedOut`. A session is deleted by a row id that another
  session may have by then (`store/sessions.go:97`).
* `Answers.SlugIsItself`. A token "expands to the version's slug" (`domain/uri.go:30`);
  a slug that spells a date conversion becomes the date.
* `Answers.WhatIsRightIsSaved`. A url is "an absolute URL or a path beginning with /"
  (`domain/content.go`); the editor's box for it is an `input` of type url, and a browser
  submits no form in which such a box holds a path. The same goes for a number beyond
  what the box or `ParseInt` takes.
* `Answers.EveryAnswerIsTrue`. Two pages are left out of `AnswersAreTrue`: signing in
  answers 401 to every failure (`web/auth.go:112-126`), and a new invitation's page
  fails if the list on it cannot be read, after the invitation was made
  (`web/invitations.go:121`).
* `Rendering.ParsedOnce`. Production "parses each once" (`render/engine.go`). Two
  requests that find nothing kept both parse, and the older template may replace the
  newer.

Others are worth knowing and contradict no document outright. A text block of several
lines that was not written in the editor comes back with returns in it from a save in
which nobody typed (`Answers.BlocksAreKept`): `web/content.go:105` strips them of
repeatable fields and line 119 of nothing else. A schema may be changed under the
versions that were checked in against it, and one document field that repeats where it
did not makes every publish of them, or through them, an error
(`Answers.ReferencesOutliveSchemas`; `publish/graph.go:89`, `service/structure.go:311`). A
document may leave its publishable state between `Service.Publish`'s look at it and the
job (`Editorial.ScheduledWhilePublishable`; `service/publish.go:165`). The job of a transition
may be pinned to a version *newer* than the one that was signed off: an approved
document can be checked out, changed and checked in before it is published, and
`approved -> published` counts no approvals. `clear_approvals` clears the current
version only, so that approvals of a version which a revert makes current again still
count. Two seeds at once may double grants or, with different domains, make two sites;
an `init` killed before it stamps leaves a file that is refused for ever; a seed killed
before it files the sample document never files it. A listener that fails returns past
the wait for the workers. `PromisesAreKept`, `BackupIsWhole` and `NobodyIsCutOff` say
where they leave these out.

### Bounds, and why they are enough

* `jobqueue`: two workers are enough to overtake and be overtaken, two jobs to have
  an order, a clock that outlasts a lease and a backoff, one outage (a crash or a
  cancelled context) on top of leases that run out under healthy workers, one retry.
  A limit of two attempts is reached both before and after a retry.
  `jobqueue_liveness`: the same without the retry. Two priorities make one job wait for
  the other, and a lease of one tick runs out under running handlers as often as the
  clock allows, which is beyond the limit of attempts.
* `documents`: two editors and two requests in flight make every pair of stale
  operations meet; one row id that a second document may come to have; two versions,
  so that a draft follows a checked-in version; a lease of one tick and two ticks, so
  that a lease may run out and be taken again.
* `publishing`: two workers and two documents; a web channel of one address, for which
  they compete, and one in print of two, so that a document can change its address
  there, one of which may be written under either of two extensions. Publishes are of
  print or of both channels and ask for three pages altogether, that is three publishes
  in print or one there and one of both; one of both writes two files, so that one may
  be in place when the other fails. One thing goes wrong. Expire jobs come as commits
  make them.
* `editorial`: a publisher and a writer, who may approve in review and only read
  afterwards; two versions, one of which follows the one that was approved; one open
  thread, one publish job and one write cut off. One request in flight races all the
  actions that are single steps. A second would add nothing but pairs of approvals,
  withdrawals and comments, whose reads do not depend on each other's writes. States
  after a write was cut off are checked and not searched further (`Uncut`): they
  differ from others in `told` alone, which no action reads.
* `cascade`: every graph of a root and two more documents, cycles, dead references
  and a document of another site among them, under both policies; one change by
  others, of any kind at any moment. Three documents are enough for a reference to a
  document that is reached twice, and for one that is refused and one that is not.
* `alerts`: two dispatchers and a batch of two, so that one's copy is overtaken in
  mid-batch by the other; two rules, one of which may take the other's id; one request
  that holds a rule meanwhile; one crash.
* `access`: an administrator, an editor who holds one section and is denied what is
  live, and somebody to be invited; two requests of four ever, so that a redemption
  meets a revocation, another redemption or an account made by hand; scopes inside,
  above and beside the editor's; one tick that ends sessions and invitations.
* `sites`: four categories in a depth of three, two names, so that subtrees of two
  move and names collide; two requests; a document in two categories; two domains and
  two formats to change between.
* `previews`: two requests, one category with two candidate directories, three
  sources of which one does not parse and one fails on one text, three settings of the
  server, two edits, two starts. The third request, the third edit and further
  categories are covered by the proofs.
* `deployment`: six situations, in each of which the commands of a working day are
  given in any order, two at a time, one killed; a request and a worker, so that both
  may be inside when the budget runs out, and the database closes under either.
* `answers`: texts of up to four words of two or three of three, with a matrix that
  is too small for some of them (`MaxCells`), so that trimming, walk and fallback all
  happen; schemas of one or two fields of every type, repeatable or not, each left as it
  is or with its document fields changed later, with content of every kind, line breaks
  and returns within and around it; three documents on a list under limits of two and three; categories
  to a depth of two in eight formats, with category tokens first, last, beside slashes
  and beside each other; every route with every sender,
  credential and setting, and every failure of every step.

Every bound is a constant of the module, named `Max...`, and a guard of the action
it bounds, or a set of inputs of the MC module.

### Fairness

* `jobqueue_liveness`: time passes; each worker's loop goes round and its handler
  returns (`Pool.loop` ends only with its context, and a report is bounded by
  `reportTimeout`); a process that went down comes back (`src/deploy/cms.service`,
  `Restart=on-failure`). All are weak. Nobody has to retry, enqueue or extend a lease.
  The clock runs freely up to `MaxNow`. Beyond, it goes on only when no worker is busy
  and a job has to wait for its time or for a dead worker's lease (`QuietTick`, weakly
  fair): from then on attempts fit in their leases, which is what the heartbeat of
  `jobs/queue.go` is for. Without that, and with outages or arrivals without end, the
  code promises nothing: a claim compares no attempts, and more urgent jobs go first.
* `alerts`: each dispatcher's pass goes on, weakly (`Dispatcher.Run` is a loop on a
  ticker that only its context ends). Crashes are bounded; nobody has to write events.
* `deployment`: a statement comes back (weak), the server takes its way out (weak),
  the drain's budget runs out in the end (weak; it is a timer), and the closing of the
  writer is *strongly* fair, for the mutex of a Go program hands itself to a waiter
  that others keep overtaking. No request has to be answered and no job has to end.
* Every other specification has no fairness and no liveness property.

## What is proved

The proof modules hold for every value of the constants that satisfy the modules'
named assumptions. These say what the constants are (`JobQueue`: bounds are numbers;
`Alerts`: targets name people there are, and the rules and events of the start are
valid; `Deployment`: every command has the fields it takes, every row of `seed` and
`bootstrap` its table, and roles, users, assignments and filings the UNIQUE constraint
the schema gives them; `Answers`: an address that cannot be read is nobody's, somebody
is at the server's socket, a browser says of the page that made it ask what `Headers`
says and attaches no token on its own, and a host that the proxy asks for is one of
ours), and TLC evaluates them on every instance. Three theorems are
under a condition besides, a named definition, which the `MC` module asserts of the
instance that is checked:

* `FilesAreDistinct` (`NoFileIsForgotten`, `ServedAsRecorded`): two channels, or two
  addresses of one, never write to one file, under none of the file names and extensions
  they may ever have. That is up to the settings of the channels; the code asks it of
  nobody.
* `PublishingNeedsApproval` (`NothingScheduledUnapproved`): every transition into a
  publishable state from another asks for sign-offs, as the seeded workflow does. The
  property is about such workflows only.

| theorem | states |
|---|---|
| `JobQueue_proofs!TypeCorrect` | `Spec => []TypeOK` |
| `JobQueue_proofs!RowsAreConsistent`, `OwnersAreLatest`, `EventsAgree` | `Spec => []RowsConsistent`, `[]OwnerHasLatestAttempt`, `[]EventsMatchRows` |
| `JobQueue_proofs!FinishedStaysFinished`, `LeasesAreRespected` | `Spec => FinishedIsFinal`, `Spec => LeaseRespected` |
| `JobQueue_proofs!Implements` | `Spec => ImplementsWorkQueue` |
| `Documents_proofs!TypeCorrect` | `Spec => [](TypeOK /\ CurrentIsNewest)` |
| `Documents_proofs!CheckedInStays`, `LiveLeasesProtect` | `Spec => CheckedInIsForever`, `Spec => LiveLeaseProtects` |
| `Publishing_proofs!AddressesStayApart`, `WhatIsLiveIsRecorded` | `Spec => []OneAddressPerChannel`, `Spec => []LiveIsRecorded` |
| `Publishing_proofs!NoFileIsForgotten`, `ServedAsRecorded` | `Spec => []OrphansAreExpiring`, `Spec => []PagesMatchRows`, where `FilesAreDistinct` |
| `Publishing_proofs!CascadeTypeCorrect`, `GatheringIsRight`, `ThePolicyIsKept` | `CascadeSpec => []CascadeTypeOK`, `CascadeSpec => []GatheredIsRight`, `CascadeSpec => []PolicyIsKept` |
| `Editorial_proofs!TypeCorrect`, `SignedContentStays`, `SignOffsCount` | `Spec => []TypeOK`, `Spec => SignedContentIsFixed`, `Spec => SignOffCounts` |
| `Editorial_proofs!EventsAccount`, `PinsStayCheckedIn`, `NothingUnapproved` | `Spec => []EventsAccountForRows`, `[]PinsAreCheckedIn`, `[]NothingScheduledUnapproved` |
| `Editorial_proofs!SitesTypeCorrect`, `PathsFollowTheTree` | `SitesSpec => []SitesTypeOK`, `SitesSpec => []PathsAreTheTree` |
| `Editorial_proofs!AddressChangesAreRecorded`, `SitesImplementTheTree` | `SitesSpec => AddressChangesAreTold`, `SitesSpec => TreeSpec` |
| `Alerts_proofs!TypeCorrect`, `SentOnce`, `WatchersAreTold`, `StoredRulesStayValid` | `Spec => []TypeOK`, `[]MailIsSentOnce`, `[]EveryWatchedEventIsTold`, `[]StoredRulesAreValid` |
| `Alerts_proofs!DispatchersImplementTheFeed` | `Spec => FeedSpec` |
| `Access_proofs!CanGrantIsWithinReach` | an actor whom `CanGrant` passes is allowed, at every subject the scope matches, what the grant needs |
| `Access_proofs!NobodyExceedsTheirReach` | `Spec => []GrantsWithinReach` |
| `Access_proofs!AccountsAndInvitationsAgree`, `HistoryIsKept` | `Spec => []AccountsMatchInvitations`, `Spec => []HistoryExplainsInvitations` |
| `Rendering_proofs!TemplatesAreCurrent`, `PreviewsAreWhole` | `Spec => []RendersAreCurrent`, `Spec => []PreviewIsWhole` |
| `Deployment_proofs!ShutdownWaits`, `TypeCorrect` | `Spec => []NobodyIsCutOff`, `Spec => []TypeOK` |
| `Deployment_proofs!PromisesHold`, `BackupsAreWhole` | `Spec => []PromisesAreKept`, `Spec => BackupIsWhole` |
| `Deployment_proofs!NobodyChoosesTheirAddress` | `AnswersSpec => []AddressIsWitnessed` |
| `Deployment_proofs!OnlyOurPagesChangeThings`, `AnswersTellTheTruth` | `AnswersSpec => []OnlyOurPagesAreObeyed`, `[]AnswersAreTrue` |

**The queue.** `TypeOK` alone is not inductive: a report reads the row its worker
holds, so `Typed` adds that a busy worker holds a row of the table. What the safety
invariants need together is `IInv`: `Typed`, clock readings that are not in the
future, consistent rows, owners on their latest attempt and events that match rows.
They lean on each other. `EventsMatchRows` holds in the step `Fail` because the event
is chosen from the worker's copy, `failed_at` from the row, and
`OwnerHasLatestAttempt` says the two counts are one whenever the report is accepted.
`OwnerHasLatestAttempt` holds because only a claim raises the count, and the claim
that does so names another owner or replaces the worker's copy. `FinishedIsFinal`
follows from `RowsConsistent`: a finished row names no owner, so no report matches
it. `LeaseRespected` needs the clock readings: a claim takes over a lease that ended
before its reading, and the reading is not later than the real time. The refinement
maps each action to an action of `WorkQueue` or to a stutter; its invariant `RInv`
adds that an idle worker holds nothing and that the table stays within its bound.

**Documents.** The invariant `DInv` says that every row is `Sound` (its pointer is at
its newest version, at most that one open, an owner exactly with an expiry) and that a
request in flight asked something, of a row id, with a clock reading that is not in
the future. What a request *believes* about the row is not in it: the store's
statements look again, and the proof is that what they look at is enough. Each write is
one of five changes of a row (locked, released, replaced draft, appended, removed),
each of which has its lemma; `RowsChange` says that nothing else changes one. Since a
reading is never later than the clock, a lease that is over by the reading is over.

**Publishing.** `PInv` adds three things to the two properties. A job to publish names a
version that was checked in and at least one channel. A batch that is about to be
recorded has one page for each channel of its job, all of the job's document and
version. And whoever holds the writer holds it alone, at addresses that are nobody
else's: `OpenTx` looked when it took the writer, and no other batch can add a row until
it is given back. So a commit replaces its document's rows by one per channel at
free addresses, of the version that it makes live. That the rows it leaves number
at least one rests on the batch's pages not being empty; the proof assumes finitely
many channels, which keeps the table finite: a commit queues the expire jobs in some
order, one for each address it drops.

What the tree holds rests on a second invariant, `Smooth`, which is kept while
`troubles` is 0 (`SmoothInv`). Until something fails, only the one who holds the writer
has anything in flight, what they have in flight is what their `order` says, the one
temporary file is theirs, and every job that is being done has the one runner its row
names. So a file is in flight, or is a row's page, or some expire job that is not yet
past its removal is about to take it, or its row was published to the same address under
another file name (`leftBehind`): these are the four ways `Remembered` lists, and
each action moves a path from one to another. A commit turns in flight into a row's
and a dropped row's file into a job's, or, if the address is kept and the file is not,
into what is left behind; the removal of the expire job itself is the one
that needs care, for the path may belong to a row again by then: it is left out of
`PagesMatchRows` as a missing page (see `LiveFilesExist`), never as a wrong one.
`FilesAreDistinct` makes the file of a page nobody else's.

**Editorial.** `IInv` rests on two facts. Only the newest version is ever open, and a
request that approves, or withdraws, or publishes read a version that is checked in;
`Keeps` says that no action changes or removes a version that is, so what was
read stays as it was until it is written. `approved`, which remembers the version of
the last required sign-off, is therefore 0 or a version that is checked in for good
(`PinsAreCheckedIn`). Events account for approvals because each row that is written or
goes, goes with its event, unless the write is cut off; that a checkout which is
cancelled takes approvals along untold cannot be, for no approval is of a draft.
`SignOffCounts` is about moves to *another* state: a transition from a state to
itself may ask for sign-offs and clear none.

**The cascade.** The rows change while the graph is read, so `CascadeInv` claims nothing of
the documents, only of what was read of them. Until the graph is loaded, whatever was met
is loaded or in the queue (`Loading`), and when the queue is empty nothing refers out of the
graph (`Closed`). While it is walked, what was visited and what is in the queue are apart
and met once (`Apart`), each but the root passes its gate and is referred to by something
visited before it (`Led`), whatever else was met is refused once and with its reason
(`RefusedOnce`), and every reference of what was visited is taken along, refused or still
to be looked at (`Looked`). That is one half of `GatheredIsRight`: the set is closed under
the rule. `Forced` is the other: whatever was visited or queued is in *every* set that is
closed, so the set is the least one. There is no induction over a sequence in this: the
model takes the walk one reference at a time, as the code does, and each step keeps
the invariant. `PolicyIsKept` needs in addition that a pin is one the document has
(versions only grow, and a document that has one does not go away) and that jobs and
events follow the set in its order (`Scheduling`).

**The tree.** What a request read is the id of a row that may be another category's by now,
so `SitesInv` claims only its type, and everything of the rows: `IsTree` says of each but
the root that its parent is a row and its path the parent's with its own name, and that
no two paths are equal. The property is stated an edge at a time and so is its proof. A
move rewrites the paths that begin with the old one; `ChildRewritten` says that a child's
rewritten path is its parent's rewritten path with the same name, but for the row that moves
itself. It rests on two facts: a child's path begins with another's exactly if it is that
path or its parent's path begins with it (`PrefixOfChild`), and, the paths being different,
only the row that moves has the old path. The refinement is by deciding from paths what
`SiteTree` decides by walking: the rows whose paths begin with c's are a set with c that
has the children of its members, so they contain the subtree, and a move that is not refused
does not go into it; a sibling of the same name would have the same path. That an address
never changes in silence follows action by action: what is filed, moved, deleted or
renamed says so, a deleted category has nothing filed in it, and a new row's id is nobody's
(`NewId`). `SitesAssumption` asks that there are ids, a domain and a format.

**Alerts.** A pass reads events, then rules, then writes. `Sound` says what its copy is:
the events from the cursor it read to where its batch ends; `Sees`, that a rule
which has stood unchanged since before them is in the copy of the rules, as it is. The
compare-and-swap moves the cursor only if it is still where the pass began, so a
delivery is of events no other pass has delivered: `Behind` (every note is of an event
the cursor has passed) and `Outgoing` (what is about to be mailed is of such events, in
one pass's hands, and not yet sent) give `MailIsSentOnce`. Requests and transitions
are summarised by one relation, `WorldMoves` (events are appended, rules that were
not touched stay, ids are given with the number of events there are), so that the
invariant is shown against it once. In the refinement a delivery is the abstract
`Take` of the events between the two cursors, and everything else a stutter.

**Grants.** `CanGrant` decides over *scopes*, `Resolve` over *subjects*. Two lemmas
connect them: a scope that covers another matches whatever that one matches, and
two scopes that match one subject intersect. The first makes the actor's grant
count at every subject the new grant reaches; the second makes the actor's denials count
when the grant is judged, so that the privilege `Delegable` finds is no more than what
`Resolve` gives at the subject. The invariant adds that grants, and what a
request holds of them, are typed.

**Invitations.** `Accounts` is about rows alone: the tokens of open invitations differ,
no address has two open ones, an account that names an invitation has its address and
that invitation is redeemed. An account made by hand names none and may stand beside an
open invitation for its address, which nobody can then take up. `Asks` says what a request in flight knows: the id it read
is that of an invitation there is, for rows of invitations are never deleted and their
ids do not come back. `History` counts the events told: each invitation's creation
once, and the one end its row has, once, for both are written with the row, and the
UPDATEs that name 'pending' make an end happen once. An account that an invitation
made was told of with it; one that was made by hand is told of afterwards, by a request
that `AfterTheWrite` says has that to tell.

**Previews.** `RInv`: variables are typed; the histories `had` hold what the tree and
the cache hold; and each request at work is sound, that is, every candidate it passed
was absent at some moment since it began, and a source in its hands, or in the cache
when the server keeps it, is in the history its mode allows. `SInv`, over it, is that
a name in the scratch tree that opens holds its whole page, and that a request whose
rename is done finds its preview. Only a rename makes a name that opens; and when
the same bytes are there already, it replaces them by themselves.

**Shutdown.** `SInv`: the order of the phases (nobody is told before the drain, the
readers stay open until the server has left, and before that no client is broken)
and that what was waited for stays done: requests come in only while the server
serves, and a worker that has gone does not come back. Commands leave these
variables alone or are the server's own start and close.

**Commands.** `CInv` is about each command by itself, whatever runs beside it: it is at
one of its own places (`Placed`), and on its way it has done what it is past (`SoFar`:
the file is stamped, the rows before its step are there, and at the end all it
promised). The others cannot take this back, for every step `Grows`: no row goes, no
mark, no version, and where there was a backup there is one. `OneByOne` adds what
needs commands of one kind to run one after another (`Alone`; as long as `crossed` is
false): what is about to be inserted without a constraint is not there yet, since its
look, for a seed's rows and a bootstrap's are of different tables; and a scratch file
that passed the check is still the one that is renamed. That a rename gives the name
to a whole file and that nothing is doubled follow.

**Answers.** One question is asked and answered, so the invariants say what the answer
is: `AttributedWhenAsked`, `ServedWhenAsked`. *To whom*: the header that reaches the
server is the sender's claims followed by all of the way but its last address, so a
stranger on the way stands further right in it than any claim does
(`NearestIsWitnessed`); if the last is the only one, the server's peer is no proxy and
the header is not read. *Whose page*: a browser that another site's page makes ask
always says so, by the site or by the origin, so `CrossOrigin` lets through what is
safe, and no handler of a safe method changes anything. That is a fact of the
registers, and the most of the proof: every handler is `WellMade` (a GET changes
nothing, only signing in and redeeming an invitation are open to anyone, nothing that
changes is a panel), and one that changes something `ChangesLast`, but for
`createInvitation`; the development routes are `Tidy` instead, for one of them shuts the
server down on a GET. *What became of it* (`Ran`, `Served`): an answer is a refusal
exactly if a step stopped the handler, whose steps before it changed nothing; and
because the change is the last step, two handlers that make the same change stop at
the same step of the same failure and go through the same `StatusFor`.

Only model-checked: `EventuallyFinished`, `EveryEventIsEvaluated`, `ShutdownEnds`,
for liveness is out of the prover's reach; and five properties of `answers`:
`DiffIsRight`, `ContentIsKept`, `ReferencesAreReadable`, `ListIsWhole`, `NoDoubledSlash`.
The diff, the content's conversions, the lists and the addresses fold over sequences or
sort them, and what a fold computes of every sequence needs an induction over data.

## Not modelled

* `src/cmd/earl`, an HTTP client: it sends one request and prints what comes back.
* The formats of requests, bodies and pages; `ValidateReturnTo`; password hashing;
  which panels a page has beyond what its handler asks for.
* Configuration, but for what decides the environment the server runs in.
* What `cmsdb` reports and checks without writing, listings and filters of jobs,
  users and events, `Engine.Available` (it reports what `Do` would answer), due dates
  in `Editorial`.
* The privilege checks of `JobQueue`, `Documents` and `Sites`: a request there is one its user
  may make, or gives up. `Access` has the checks.
* What each migration's SQL does: the modules have the tables as they are at the end.
* Power cuts: what a process wrote before it was killed is there.

## Plan

1. Larger instances where proofs are out of reach: longer texts and deeper categories in
   `answers`, more than two commands in `deployment`'s liveness.
2. A second request in `Cascade`: two publishes of documents that refer to each other
   schedule the same documents twice, which the model has one request too few to show.
3. The grants of `Access` over the subtrees of `Sites`: both read the stored path alone,
   so a category that moves takes documents from one grant to another, and no
   composed model says what a request in flight may still do then.
