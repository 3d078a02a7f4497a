------------------------------- MODULE Documents -------------------------------
(***************************************************************************)
(* Documents, their versions and the edit lease: the operations of         *)
(* internal/service/documents.go over internal/store/documents.go.         *)
(*                                                                         *)
(* The store runs each change as one transaction under one writer.  The    *)
(* service does not: a request looks the document up, reads and checks its *)
(* draft and reads the clock outside any transaction, and only then asks   *)
(* the store to write.  Whatever the other requests do in between has      *)
(* happened when the transaction starts.                                   *)
(***************************************************************************)
EXTENDS Integers, SequencesExt

CONSTANTS
  User, NoUser,  \* who may edit, and the NULL of locked_by
  Request,       \* requests the server may be serving at once
  Field,         \* the parts of a draft that an update names
  Value,         \* what a field may hold
  Blank,         \* what a new document's fields hold
  Valid(_),      \* domain.ValidateContent, of a version's fields
  LockLease,     \* how long a checkout is good for
  MaxRows,       \* bound: documents at a time
  MaxUids,       \* bound: documents ever created
  MaxVersions,   \* bound: versions of a document
  MaxNow         \* bound: the clock

ASSUME DocumentsAssumption ==
  /\ NoUser \notin User
  /\ Blank \in Value
  /\ LockLease \in Nat \ {0}
  /\ MaxRows \in Nat /\ MaxUids \in Nat /\ MaxVersions \in Nat \ {0} /\ MaxNow \in Nat

VARIABLES
  now,        \* the clock
  documents,  \* the table by row id; no row is a document whose uid is NoUid
  requests,   \* [Request -> what the request has read and is about to write]
  created,    \* how many documents were ever created, and the latest one's uid
  history     \* [DocId -> SUBSET Uid]: which documents the events filed under
              \* a row id are about

vars == <<now, documents, requests, created, history>>

DocId  == 1..MaxRows
NoUid  == 0
Never  == -1   \* the NULL of lock_expires_at
Fields == [Field -> Value]

Version == [fields : Fields, checkedIn : BOOLEAN]

Document == [uid : Nat, lockedBy : User \cup {NoUser}, lockExpiresAt : Nat \cup {Never},
             current : Nat, versions : Seq(Version)]

NoDocument == [uid |-> NoUid, lockedBy |-> NoUser, lockExpiresAt |-> Never,
               current |-> 0, versions |-> <<>>]

Op == {"none", "Checkout", "UpdateDraft", "Checkin", "CancelCheckout", "Revert"}

\* "updated" is the whole draft an UpdateDraft will write: what it read, with
\* the fields it names replaced.
RequestState == [op : Op, user : User \cup {NoUser}, id : Nat, uid : Nat, at : Nat,
                 named : SUBSET Field, updated : Fields]

Free == [op |-> "none", user |-> NoUser, id |-> 0, uid |-> NoUid, at |-> 0,
         named |-> {}, updated |-> [f \in Field |-> Blank]]

TypeOK ==
  /\ now \in Nat
  /\ documents \in [DocId -> Document]
  /\ requests \in [Request -> RequestState]
  /\ created \in Nat
  /\ history \in [DocId -> SUBSET Nat]

Init ==
  /\ now = 0
  /\ documents = [d \in DocId |-> NoDocument]
  /\ requests = [r \in Request |-> Free]
  /\ created = 0
  /\ history = [d \in DocId |-> {}]

--------------------------------------------------------------------------------
(* What the store asks of a row                                               *)

Exists(d) == documents[d].uid # NoUid

Drafts(d)    == {n \in DOMAIN documents[d].versions : ~documents[d].versions[n].checkedIn}
CheckedIn(d) == {n \in DOMAIN documents[d].versions : documents[d].versions[n].checkedIn}

HasDraft(d) == Drafts(d) # {}
Draft(d)    == CHOOSE n \in Drafts(d) : TRUE

LatestCheckedIn(d) == Max(CheckedIn(d))

\* Slip: the UPDATE asks for a live lease and not for whose it is.
LeaseHeldByAnyone(d, u, t) == documents[d].lockExpiresAt > t

\* The conditions on the UPDATEs of Checkout, holdLease/releaseLease, revertable.
Unlocked(d, t)      == documents[d].lockedBy = NoUser \/ documents[d].lockExpiresAt <= t

LeaseHeld(d, u, t) == documents[d].lockedBy = u /\ documents[d].lockExpiresAt > t

Revertable(d, u, t) == documents[d].lockedBy = u \/ Unlocked(d, t)

\* Slip: Go's zero user id is written where NULL belongs.
ReleasedToZero(d) == [d EXCEPT !.lockedBy = 0, !.lockExpiresAt = Never]

Locked(d, u, t) == [d EXCEPT !.lockedBy = u, !.lockExpiresAt = t + LockLease]

Released(d) == [d EXCEPT !.lockedBy = NoUser, !.lockExpiresAt = Never]

\* The event names the document by uid and is filed under the row's id.
RecordEvent(d, uid) == history' = [history EXCEPT ![d] = @ \cup {uid}]

--------------------------------------------------------------------------------
(* Creation, and time                                                         *)

Tick ==
  /\ now < MaxNow
  /\ now' = now + 1
  /\ UNCHANGED <<documents, requests, created, history>>

\* "id INTEGER PRIMARY KEY" with no AUTOINCREMENT: one more than the largest
\* id there is, so the largest id is used again after its row is deleted.
NextId == Max({0} \cup {d \in DocId : Exists(d)}) + 1

CreateDocument(fields) ==
  /\ created < MaxUids
  /\ NextId \in DocId
  /\ created' = created + 1
  /\ documents' = [documents EXCEPT ![NextId] =
       [NoDocument EXCEPT !.uid = created', !.current = 1,
                          !.versions = <<[fields |-> fields, checkedIn |-> FALSE]>>]]
  /\ RecordEvent(NextId, created')
  /\ UNCHANGED <<now, requests>>

--------------------------------------------------------------------------------
(* A request reads: the document by its uid, the draft, the clock             *)

Begin(r, u, d, op) ==
  /\ requests[r].op = "none"
  /\ Exists(d)
  /\ requests' = [requests EXCEPT ![r] =
       [Free EXCEPT !.op = op, !.user = u, !.id = d, !.uid = documents[d].uid, !.at = now]]
  /\ UNCHANGED <<now, documents, created, history>>

BeginLocking(r, u, d) ==
  \E op \in {"Checkout", "CancelCheckout", "Revert"} : Begin(r, u, d, op)

\* The draft is refused unless it is valid: the one place a schema is enforced.
BeginCheckin(r, u, d) ==
  /\ HasDraft(d)
  /\ Valid(documents[d].versions[Draft(d)].fields)
  /\ Begin(r, u, d, "Checkin")

\* DraftUpdate.Apply: the named fields replaced in the draft as it was read.
BeginUpdateDraft(r, u, d, named, value) ==
  /\ requests[r].op = "none"
  /\ Exists(d)
  /\ HasDraft(d)
  /\ named # {}
  /\ requests' = [requests EXCEPT ![r] =
       [op |-> "UpdateDraft", user |-> u, id |-> d, uid |-> documents[d].uid,
        at |-> now, named |-> named,
        updated |-> [f \in Field |-> IF f \in named THEN value
                                     ELSE documents[d].versions[Draft(d)].fields[f]]]]
  /\ UNCHANGED <<now, documents, created, history>>

--------------------------------------------------------------------------------
(* The transaction                                                            *)

\* Request r writes row d of its document, and answers.
Commit(r, row) ==
  /\ documents' = [documents EXCEPT ![requests[r].id] = row]
  /\ RecordEvent(requests[r].id, requests[r].uid)
  /\ requests' = [requests EXCEPT ![r] = Free]
  /\ UNCHANGED <<now, created>>

Checkout(r) ==
  LET d == requests[r].id row == documents[d] n == Len(row.versions) IN
  /\ requests[r].op = "Checkout"
  /\ Exists(d)
  /\ Unlocked(d, requests[r].at)
  /\ HasDraft(d) \/ n < MaxVersions
  /\ Commit(r, Locked(
       IF HasDraft(d) THEN row
       ELSE [row EXCEPT !.current = n + 1,
                        !.versions = Append(@, [fields |-> @[LatestCheckedIn(d)].fields,
                                                checkedIn |-> FALSE])],
       requests[r].user, requests[r].at))

UpdateDraft(r) ==
  LET d == requests[r].id IN
  /\ requests[r].op = "UpdateDraft"
  /\ Exists(d)
  /\ LeaseHeld(d, requests[r].user, requests[r].at)
  /\ HasDraft(d)
  /\ Commit(r, Locked([documents[d] EXCEPT !.versions[Draft(d)].fields = requests[r].updated],
                      requests[r].user, requests[r].at))

Checkin(r) ==
  LET d == requests[r].id IN
  /\ requests[r].op = "Checkin"
  /\ Exists(d)
  /\ LeaseHeld(d, requests[r].user, requests[r].at)
  /\ HasDraft(d)
  /\ Commit(r, Released([documents[d] EXCEPT
       !.versions[Draft(d)].checkedIn = TRUE,
       !.current = Max(CheckedIn(d) \cup {Draft(d)})]))

CancelCheckout(r) ==
  LET d == requests[r].id IN
  /\ requests[r].op = "CancelCheckout"
  /\ Exists(d)
  /\ LeaseHeld(d, requests[r].user, requests[r].at)
  /\ Commit(r, Released(documents[d]))

\* Slips: the pointer is left at the version that went, and the document goes
\* with its draft whatever was checked in.
RevertLeavingPointer(r) ==
  LET d == requests[r].id row == documents[d] IN
  /\ requests[r].op = "Revert"
  /\ Exists(d)
  /\ Revertable(d, requests[r].user, requests[r].at)
  /\ HasDraft(d)
  /\ Commit(r, IF CheckedIn(d) = {} THEN NoDocument
               ELSE Released([row EXCEPT !.versions = RemoveAt(@, Draft(d))]))

RevertDeletingDocument(r) ==
  LET d == requests[r].id IN
  /\ requests[r].op = "Revert"
  /\ Exists(d)
  /\ Revertable(d, requests[r].user, requests[r].at)
  /\ HasDraft(d)
  /\ Commit(r, NoDocument)

\* The document goes with its draft when it was never checked in.  Releasing a
\* lease that is nobody's, or no longer live, is no error here.
Revert(r) ==
  LET d == requests[r].id row == documents[d] u == requests[r].user t == requests[r].at IN
  /\ requests[r].op = "Revert"
  /\ Exists(d)
  /\ Revertable(d, u, t)
  /\ HasDraft(d)
  /\ LET kept == [row EXCEPT !.versions = RemoveAt(@, Draft(d)),
                             !.current = LatestCheckedIn(d)]
     IN Commit(r, IF CheckedIn(d) = {} THEN NoDocument
                  ELSE IF LeaseHeld(d, u, t) THEN Released(kept) ELSE kept)

\* Refused, failed or given up: nothing was written.
Refuse(r) ==
  /\ requests[r].op # "none"
  /\ requests' = [requests EXCEPT ![r] = Free]
  /\ UNCHANGED <<now, documents, created, history>>

Write(r) ==
  Checkout(r) \/ UpdateDraft(r) \/ Checkin(r) \/ CancelCheckout(r) \/ Revert(r)

Next ==
  \/ Tick
  \/ \E fields \in Fields : CreateDocument(fields)
  \/ \E r \in Request, u \in User, d \in DocId :
       \/ BeginLocking(r, u, d)
       \/ BeginCheckin(r, u, d)
       \/ \E named \in SUBSET Field, value \in Value : BeginUpdateDraft(r, u, d, named, value)
  \/ \E r \in Request : Write(r) \/ Refuse(r)

Spec == Init /\ [][Next]_vars

--------------------------------------------------------------------------------
(* Properties                                                                 *)

\* Every document has a version; its current version is the newest one; at
\* most the newest is an open draft; a lock has an owner exactly when it has
\* an expiry.  Checkout, check-in and revert each move the pointer by hand.
CurrentIsNewest ==
  \A d \in DocId : Exists(d) =>
    LET row == documents[d] IN
    /\ row.versions # <<>>
    /\ row.current = Len(row.versions)
    /\ Drafts(d) \subseteq {Len(row.versions)}
    /\ row.lockedBy = NoUser <=> row.lockExpiresAt = Never

\* A version once checked in is there for ever, unchanged: what a publish
\* pins can be trusted.  Revert deletes documents and versions, never these.
CheckedInIsForever ==
  [][\A d \in DocId : \A n \in CheckedIn(d) :
       /\ n \in DOMAIN documents'[d].versions
       /\ documents'[d].versions[n] = documents[d].versions[n]]_vars

\* While a lease is live by the real clock, only a request of its holder
\* changes the draft, the versions or the lease, whatever the other requests
\* read before it was taken.
LiveLeaseProtects ==
  [][\A d \in DocId :
       /\ documents[d].lockedBy # NoUser
       /\ documents[d].lockExpiresAt > now
       /\ documents'[d] # documents[d]
       => \E r \in Request : /\ requests[r].user = documents[d].lockedBy
                             /\ requests[r].id = d
                             /\ requests'[r] = Free]_vars

\* A version is valid against its element type's schema once it is checked in.
CheckedInIsValid ==
  \A d \in DocId : \A n \in CheckedIn(d) : Valid(documents[d].versions[n].fields)

\* An update changes the fields it names and no other
\* (internal/service/documents.go:155-157).
NoLostUpdate ==
  [][\A d \in DocId : \A f \in Field :
       LET n == Len(documents[d].versions) IN
       /\ Exists(d) /\ documents'[d].uid = documents[d].uid
       /\ Len(documents'[d].versions) = n
       /\ documents'[d].versions[n].fields[f] # documents[d].versions[n].fields[f]
       => \E r \in Request : /\ requests[r].op = "UpdateDraft" /\ f \in requests[r].named
                             /\ requests'[r] = Free]_vars

\* The events filed under a document's row id are events of that document
\* (internal/store/documents.go:852: a deleted document keeps its history).
HistoryIsOwn ==
  \A d \in DocId : Exists(d) => history[d] \subseteq {documents[d].uid}
================================================================================
