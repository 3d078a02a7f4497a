------------------------------- MODULE Editorial -------------------------------
(***************************************************************************)
(* The editorial life of one document: the workflow engine                 *)
(* (internal/workflow/engine.go over internal/store/workflow.go), and the  *)
(* approvals, comments and assignments its guards read                     *)
(* (internal/service and internal/store: approvals.go, comments.go,        *)
(* queue.go), beside the checkouts and check-ins that change what they are *)
(* about.                                                                  *)
(*                                                                         *)
(* A transition reads its facts, decides and writes in one transaction.    *)
(* An approval, a comment and a publish on request do not: the state and   *)
(* the version they are about are read before, in one step here.  The row  *)
(* of an approval and its event are two statements with no transaction     *)
(* around them: a cancelled request or a dying process may leave the row   *)
(* without the event.  Documents models how checkouts and check-ins race   *)
(* each other; here each is one step.                                      *)
(***************************************************************************)
EXTENDS Integers, Sequences, FiniteSets, Bags, Functions

CONSTANTS
  User, NoUser,         \* people, and the NULL of assigned_to and locked_by
  PrivilegeOf(_, _),    \* what a person's grants come to over the document in a state
  State, InitialState,
  Publishable,          \* the states with workflow_states.publishable set
  RequiredApprovals(_), \* workflow_states.required_approvals
  Workflow,             \* the rows of workflow_transitions
  Filled,               \* the sets of fields a draft may have filled in
  Request,              \* requests the server may be serving at once
  MaxVersions,          \* bound: versions of the document
  MaxThreads,           \* bound: threads open at once
  MaxPins,              \* bound: publish jobs
  MaxInterrupts         \* bound: writes cut off between their two statements

Read == 1
Edit == 2
Publish == 5

Guard == {"note_required", "assignee_only", "approvals_met", "not_locked",
          "comments_resolved", "has_slug", "has_cover_date", "has_checked_in_version"}

Effect == {"clear_assignee", "assign_to_actor", "clear_approvals", "set_due_in", "publish"}

Transition == [from : State, to : State, privilege : Read..Publish,
               guards : SUBSET Guard, effects : SUBSET Effect]

\* Workflow.Validate, Transition.Validate and UNIQUE (from_state, to_state).
ValidWorkflow ==
  /\ Workflow \subseteq Transition
  /\ \A s, t \in Workflow : s.from = t.from /\ s.to = t.to => s = t
  /\ \A t \in Workflow :
       /\ ~({"clear_assignee", "assign_to_actor"} \subseteq t.effects)
       /\ "publish" \in t.effects =>
            t.to \in Publishable /\ "has_checked_in_version" \in t.guards

ASSUME EditorialAssumption ==
  /\ NoUser \notin User
  /\ \A u \in User, s \in State : PrivilegeOf(u, s) \in 0..Publish
  /\ InitialState \in State /\ Publishable \subseteq State
  /\ \A s \in State : RequiredApprovals(s) \in Nat
  /\ ValidWorkflow
  /\ Filled \subseteq SUBSET {"slug", "cover_date"}
  /\ MaxVersions \in Nat \ {0} /\ MaxThreads \in Nat
  /\ MaxPins \in Nat /\ MaxInterrupts \in Nat

VARIABLES
  state,      \* documents.state
  assignee,   \* documents.assigned_to
  lockedBy,   \* who holds a live edit lease
  versions,   \* the versions; the newest is the current one; none: deleted
  approvals,  \* the rows of approvals
  threads,    \* how many comment threads are open
  discussed,  \* the versions that comments name
  pins,       \* what the publish jobs ever enqueued are pinned to
  approved,   \* the version current when a sign-off was last required, or 0
  told,       \* the bag of approvals that events say were given and neither
              \* withdrawn nor cleared by a transition since
  requests,   \* [Request -> what it has read]
  interrupts  \* how many writes were cut off

draftVars == <<lockedBy, versions>>
talkVars  == <<threads, discussed>>
signVars  == <<approvals, told>>
moveVars  == <<state, assignee, pins, approved>>
vars == <<state, assignee, lockedBy, versions, approvals, threads, discussed, pins,
          approved, told, requests, interrupts>>

Version == [checkedIn : BOOLEAN, filled : Filled]

Approval == [version : 1..MaxVersions, state : State, user : User]

\* by: a transition or a request.  approved: what was, when it was pinned.
Pin == [version : Nat, by : {"transition", "request"}, approved : Nat]

Op == {"none", "approve", "withdraw", "comment", "publish"}

RequestState == [op : Op, user : User \cup {NoUser}, state : State, version : Nat]

Free == [op |-> "none", user |-> NoUser, state |-> InitialState, version |-> 0]

TypeOK ==
  /\ state \in State
  /\ assignee \in User \cup {NoUser}
  /\ lockedBy \in User \cup {NoUser}
  /\ versions \in Seq(Version)
  /\ approvals \subseteq Approval
  /\ threads \in Nat
  /\ discussed \subseteq 1..MaxVersions
  /\ pins \subseteq Pin
  /\ approved \in Nat
  /\ IsABag(told) /\ BagToSet(told) \subseteq Approval
  /\ requests \in [Request -> RequestState]
  /\ interrupts \in Nat

\* A document starts in its workflow's initial state with its first draft.
Init ==
  /\ state = InitialState
  /\ assignee = NoUser
  /\ lockedBy = NoUser
  /\ \E f \in Filled : versions = <<[checkedIn |-> FALSE, filled |-> f]>>
  /\ approvals = {}
  /\ threads = 0
  /\ discussed = {}
  /\ pins = {}
  /\ approved = 0
  /\ told = EmptyBag
  /\ requests = [r \in Request |-> Free]
  /\ interrupts = 0

\* Grants may be scoped to a state; a denial comes to nothing.
MayIn(u, s, privilege) == PrivilegeOf(u, s) >= privilege
May(u, privilege) == MayIn(u, state, privilege)

Current   == Len(versions)
HasDraft  == versions # <<>> /\ ~versions[Current].checkedIn
CheckedIn == {n \in DOMAIN versions : versions[n].checkedIn}

LatestCheckedIn == CHOOSE n \in CheckedIn : \A m \in CheckedIn : m <= n

Interrupted == interrupts < MaxInterrupts /\ interrupts' = interrupts + 1

--------------------------------------------------------------------------------
(* The draft                                                                  *)

Checkout(u) ==
  /\ versions # <<>> /\ May(u, Edit)
  /\ lockedBy = NoUser
  /\ \/ HasDraft /\ UNCHANGED versions
     \/ /\ ~HasDraft /\ Current < MaxVersions
        /\ versions' = Append(versions, [versions[Current] EXCEPT !.checkedIn = FALSE])
  /\ lockedBy' = u
  /\ UNCHANGED <<moveVars, signVars, talkVars, requests, interrupts>>

UpdateDraft(u, filled) ==
  /\ lockedBy = u /\ HasDraft
  /\ versions' = [versions EXCEPT ![Current].filled = filled]
  /\ UNCHANGED <<lockedBy, moveVars, signVars, talkVars, requests, interrupts>>

Checkin(u) ==
  /\ lockedBy = u /\ HasDraft
  /\ versions' = [versions EXCEPT ![Current].checkedIn = TRUE]
  /\ lockedBy' = NoUser
  /\ UNCHANGED <<moveVars, signVars, talkVars, requests, interrupts>>

\* CancelCheckout, or the lease runs out: the draft stays.
LeaseEnds ==
  /\ lockedBy # NoUser
  /\ lockedBy' = NoUser
  /\ UNCHANGED <<versions, moveVars, signVars, talkVars, requests, interrupts>>

\* The draft goes, and the document with it if that was all there was.  Its
\* approvals go with it.  Its comments do not: a comment that names the draft
\* fails the deletion, for comments.version_id is a foreign key.
Revert(u) ==
  /\ HasDraft /\ May(u, Edit)
  /\ lockedBy \in {u, NoUser}
  /\ Current \notin discussed
  /\ versions' = SubSeq(versions, 1, Current - 1)
  /\ approvals' = {a \in approvals : a.version # Current}
  /\ lockedBy' = NoUser
  /\ UNCHANGED <<moveVars, talkVars, told, requests, interrupts>>

--------------------------------------------------------------------------------
(* Transitions                                                                *)

\* Slip: sign-offs of other versions count too.
ApprovalsOfAnyVersion(s) == {a.user : a \in {b \in approvals : b.state = s}}

\* Who signed off on the current version in a state.
ApprovalsByState(s) == {a.user : a \in {b \in approvals : b.state = s /\ b.version = Current}}

GuardHolds(g, u, note) ==
  \/ g = "note_required"   /\ note
  \/ g = "assignee_only"   /\ assignee \in {u, NoUser}
  \/ g = "approvals_met"   /\ Cardinality(ApprovalsByState(state)) >= RequiredApprovals(state)
  \/ g = "not_locked"      /\ lockedBy = NoUser
  \/ g = "comments_resolved"      /\ threads = 0
  \/ g = "has_slug"               /\ "slug" \in versions[Current].filled
  \/ g = "has_cover_date"         /\ "cover_date" \in versions[Current].filled
  \/ g = "has_checked_in_version" /\ CheckedIn # {}

\* The one function that Available and Do share.
Check(t, u, note) == May(u, t.privilege) /\ \A g \in t.guards : GuardHolds(g, u, note)

\* Due dates, which "set_due_in" sets, are left out: nothing but a reader asks for them.
AssigneeAfter(t, u) ==
  IF "clear_assignee" \in t.effects THEN NoUser
  ELSE IF "assign_to_actor" \in t.effects THEN u
  ELSE assignee

\* Slip: the current version is pinned, which may be the working draft.
PinCurrent(by) == [version |-> Current, by |-> by, approved |-> approved]

\* The newest checked-in version, never the document.
PinLatest(by) == [version |-> LatestCheckedIn, by |-> by, approved |-> approved]

\* The transitions out of a state that count approvals.
Counting(s) == {t \in Workflow : t.from = s /\ "approvals_met" \in t.guards}

\* The transition the request names by where it goes, looked up from the state the
\* transaction reads: facts, decision, state and assignment, approvals, event, job.
Do(u, t, note) ==
  /\ versions # <<>> /\ May(u, Read)
  /\ t.from = state
  /\ Check(t, u, note)
  /\ state' = t.to
  /\ assignee' = AssigneeAfter(t, u)
  /\ IF "clear_approvals" \in t.effects
       THEN /\ approvals' = {a \in approvals : a.version # Current}
            /\ told' = Restrict(told, {a \in BagToSet(told) : a.version # Current})
       ELSE UNCHANGED signVars
  /\ IF "publish" \in t.effects
       THEN pins' = pins \cup {PinLatest("transition")} /\ Cardinality(pins') <= MaxPins
       ELSE UNCHANGED pins
  /\ approved' = IF t \in Counting(state) /\ RequiredApprovals(state) > 0 THEN Current ELSE approved
  /\ UNCHANGED <<draftVars, talkVars, requests, interrupts>>

\* Assign and Unassign: they never touch the state.
Assign(u, v) ==
  /\ versions # <<>> /\ May(u, Edit)
  /\ assignee' = v
  /\ UNCHANGED <<state, pins, approved, draftVars, signVars, talkVars, requests, interrupts>>

--------------------------------------------------------------------------------
(* Approvals                                                                  *)

\* ApprovalPrivilege: the lowest that any of them asks for.
MayApprove(u, s) == \E t \in Counting(s) : MayIn(u, s, t.privilege)

\* A request's reads.
Begin(r, u, read) ==
  /\ requests[r].op = "none"
  /\ versions # <<>> /\ May(u, Read)
  /\ requests' = [requests EXCEPT ![r] = read]
  /\ UNCHANGED <<draftVars, moveVars, signVars, talkVars, interrupts>>

\* Slip: a working draft may be approved.
BeginApprovingDrafts(r, u, op) ==
  /\ MayApprove(u, state)
  /\ Begin(r, u, [op |-> op, user |-> u, state |-> state, version |-> Current])

\* mayApprove.
BeginApproving(r, u, op) ==
  /\ MayApprove(u, state)
  /\ ~HasDraft
  /\ Begin(r, u, [op |-> op, user |-> u, state |-> state, version |-> Current])

Key(r) == [version |-> requests[r].version, state |-> requests[r].state,
           user |-> requests[r].user]

Answer(r) == requests' = [requests EXCEPT ![r] = Free]

\* Slip: the event is recorded whether or not there was a row to write.
CreateApprovalAlwaysTold(r) ==
  /\ requests[r].op = "approve"
  /\ approvals' = approvals \cup {Key(r)}
  /\ told' = told (+) SetToBag({Key(r)})
  /\ Answer(r)
  /\ UNCHANGED <<draftVars, moveVars, talkVars, interrupts>>

\* INSERT ... ON CONFLICT DO NOTHING, and the event if that wrote a row.
CreateApproval(r) ==
  /\ requests[r].op = "approve"
  /\ approvals' = approvals \cup {Key(r)}
  /\ \/ Key(r) \in approvals /\ UNCHANGED <<told, interrupts>>
     \/ /\ Key(r) \notin approvals
        /\ \/ told' = told (+) SetToBag({Key(r)}) /\ UNCHANGED interrupts
           \/ Interrupted /\ UNCHANGED told
  /\ Answer(r)
  /\ UNCHANGED <<draftVars, moveVars, talkVars>>

WithdrawApproval(r) ==
  /\ requests[r].op = "withdraw"
  /\ approvals' = approvals \ {Key(r)}
  /\ \/ Key(r) \notin approvals /\ UNCHANGED <<told, interrupts>>
     \/ /\ Key(r) \in approvals
        /\ \/ told' = told (-) SetToBag({Key(r)}) /\ UNCHANGED interrupts
           \/ Interrupted /\ UNCHANGED told
  /\ Answer(r)
  /\ UNCHANGED <<draftVars, moveVars, talkVars>>

--------------------------------------------------------------------------------
(* Comments                                                                   *)

BeginCommenting(r, u) == Begin(r, u, [Free EXCEPT !.op = "comment", !.version = Current])

\* The row names the version that was read, which must be there still.  It
\* opens a thread, or is a reply, which does not open its thread again.
CreateComment(r) ==
  LET version == requests[r].version IN
  /\ requests[r].op = "comment"
  /\ version \in DOMAIN versions
  /\ \/ threads < MaxThreads /\ threads' = threads + 1
     \/ discussed # {} /\ UNCHANGED threads
  /\ discussed' = discussed \cup {version}
  /\ Answer(r)
  /\ UNCHANGED <<draftVars, moveVars, signVars, interrupts>>

\* Slip: a thread resolved before is resolved again.
ResolveCommentAgain ==
  /\ discussed # {}
  /\ threads' = threads - 1
  /\ UNCHANGED <<discussed, draftVars, moveVars, signVars, requests, interrupts>>

\* A thread is resolved by who opened it or by whoever may edit.  Replies are
\* refused, and a thread resolved before is left as it is.
ResolveComment ==
  /\ threads > 0
  /\ threads' = threads - 1
  /\ UNCHANGED <<discussed, draftVars, moveVars, signVars, requests, interrupts>>

--------------------------------------------------------------------------------
(* A publish on request                                                       *)

\* Slip: any state will do.
BeginPublishAnywhere(r, u) ==
  /\ May(u, Publish)
  /\ Begin(r, u, [Free EXCEPT !.op = "publish"])

\* Service.Publish asks the document's state, and reads what to pin afterwards.
BeginPublish(r, u) ==
  /\ May(u, Publish)
  /\ state \in Publishable
  /\ Begin(r, u, [Free EXCEPT !.op = "publish"])

PinVersion(r) ==
  /\ requests[r].op = "publish" /\ requests[r].version = 0
  /\ CheckedIn # {}
  /\ requests' = [requests EXCEPT ![r].version = LatestCheckedIn]
  /\ UNCHANGED <<draftVars, moveVars, signVars, talkVars, interrupts>>

EnqueuePublish(r) ==
  LET v == requests[r].version IN
  /\ requests[r].op = "publish" /\ v # 0
  /\ pins' = pins \cup {[version |-> v, by |-> "request", approved |-> approved]}
  /\ Cardinality(pins') <= MaxPins
  /\ Answer(r)
  /\ UNCHANGED <<state, assignee, approved, draftVars, signVars, talkVars, interrupts>>

\* Refused, cancelled, or nothing to pin: nothing is written.
Refuse(r) ==
  /\ requests[r].op # "none"
  /\ Answer(r)
  /\ UNCHANGED <<draftVars, moveVars, signVars, talkVars, interrupts>>

--------------------------------------------------------------------------------

Next ==
  \/ LeaseEnds \/ ResolveComment
  \/ \E u \in User :
       \/ Checkout(u) \/ Checkin(u) \/ Revert(u)
       \/ \E filled \in Filled : UpdateDraft(u, filled)
       \/ \E t \in Workflow, note \in BOOLEAN : Do(u, t, note)
       \/ \E v \in User \cup {NoUser} : Assign(u, v)
  \/ \E r \in Request :
       \/ \E u \in User : \/ \E op \in {"approve", "withdraw"} : BeginApproving(r, u, op)
                          \/ BeginCommenting(r, u) \/ BeginPublish(r, u)
       \/ CreateApproval(r) \/ WithdrawApproval(r) \/ CreateComment(r)
       \/ PinVersion(r) \/ EnqueuePublish(r) \/ Refuse(r)

Spec == Init /\ [][Next]_vars

--------------------------------------------------------------------------------
(* Properties                                                                 *)

\* What somebody signed off on stays as it was: however late the approval is
\* written, and whoever edits, reverts or checks in meanwhile, the version it
\* is of never changes and never goes away while the approval stands.
SignedContentIsFixed ==
  [][\A a \in approvals' :
       /\ a.version \in DOMAIN versions'
       /\ a.version \in DOMAIN versions => versions'[a.version] = versions[a.version]]_vars

\* A move to another state that asks for sign-off is made from a checked-in version that enough
\* different people, each allowed to make that move, signed off on.
SignOffCounts ==
  [][\A t \in Counting(state) :
       state' = t.to /\ state' # state /\ RequiredApprovals(state) > 0 =>
         /\ Current \in CheckedIn
         /\ \E signers \in SUBSET User :
              /\ Cardinality(signers) >= RequiredApprovals(state)
              /\ \A u \in signers :
                   /\ MayApprove(u, state)
                   /\ [version |-> Current, state |-> state, user |-> u] \in approvals]_vars

(***************************************************************************)
(* Not so.  internal/store/store.go:157-161 says that "a state change and  *)
(* the event recording it are one change", and that "everything in this    *)
(* package that writes more than one row goes through" DB.Tx.  Approvals   *)
(* and comments go through DB.Write, which has no transaction: cut off     *)
(* between its statements, an approval or its withdrawal stands and no     *)
(* event tells of it.                                                      *)
(***************************************************************************)
EveryChangeIsTold == told = SetToBag(approvals)

\* As long as no write was cut off every approval has its event and every event
\* its approval: racing and repeated approvals and withdrawals, and transitions
\* that clear approvals meanwhile, tell no more than what they did.
EventsAccountForRows == interrupts = 0 => EveryChangeIsTold

\* A publish job is pinned to a version that is checked in, now and for ever,
\* and is never older than the version that was signed off on.  It may be newer:
\* an approved document can be checked out, changed and checked in again before
\* the move that publishes it.
PinsAreCheckedIn ==
  \A p \in pins : p.version \in CheckedIn /\ (p.by = "transition" => p.version >= p.approved)

\* Whoever enters the publishable states must pass a move that requires sign-offs.
PublishingNeedsApproval ==
  /\ InitialState \notin Publishable
  /\ \A t \in Workflow : t.from \notin Publishable /\ t.to \in Publishable =>
       "approvals_met" \in t.guards /\ RequiredApprovals(t.from) > 0

\* Under such a process, of which the default workflow is one, nothing is
\* scheduled, by a move or on request, of a document that was never signed off:
\* a publish request reads the state, and what it pins, before it enqueues.
NothingScheduledUnapproved == PublishingNeedsApproval => (pins # {} => approved # 0)

\* Not so: what is scheduled on request is of a document that may be published
\* then (internal/service/publish.go:165 asks the state, and the jobs are written
\* many reads later): it may have moved back meanwhile.
ScheduledWhilePublishable ==
  [][(\E p \in pins' \ pins : p.by = "request") => state \in Publishable]_vars
================================================================================
