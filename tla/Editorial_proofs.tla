---------------------------- MODULE Editorial_proofs ----------------------------
(***************************************************************************)
(* What the editorial process guarantees for any workflow that validates,  *)
(* any people and grants, and any number of requests: what was signed off  *)
(* on stays as it was, sign-offs count, events account for the approvals,  *)
(* and what is scheduled is checked in and was approved.                   *)
(*                                                                         *)
(* The last part is about Sites: the tree of categories that documents are *)
(* filed in.                                                               *)
(***************************************************************************)
EXTENDS Editorial, Sites, FiniteSetTheorems, SequenceTheorems, WellFoundedInduction, TLAPS

--------------------------------------------------------------------------------
(* The invariant                                                              *)

\* Only the newest version is ever open.
Versions ==
  /\ versions \in Seq(Version) /\ Len(versions) <= MaxVersions
  /\ \A n \in 1..Len(versions) : n < Len(versions) => versions[n].checkedIn

Signed(a) == a \in Approval /\ a.version \in CheckedIn /\ MayApprove(a.user, a.state)

\* What a request read is of a version that is checked in, and so of one that stays.
Asks(q) ==
  /\ q \in RequestState
  /\ q.op \in {"approve", "withdraw"} =>
       Signed([version |-> q.version, state |-> q.state, user |-> q.user])
  /\ q.op = "publish" => q.version \in CheckedIn \cup {0}

Scheduled == pins \subseteq Pin /\ approved \in CheckedIn \cup {0} /\ PinsAreCheckedIn

Spoken == IsABag(told) /\ BagToSet(told) \subseteq Approval /\ EventsAccountForRows

\* Whoever was let through to publish found a document that was signed off.
Approved ==
  PublishingNeedsApproval =>
    /\ state \in Publishable => approved # 0
    /\ \A r \in Request : requests[r].op = "publish" => approved # 0
    /\ pins # {} => approved # 0

Rest ==
  /\ state \in State /\ assignee \in User \cup {NoUser} /\ lockedBy \in User \cup {NoUser}
  /\ threads \in Nat /\ discussed \subseteq 1..MaxVersions /\ interrupts \in Nat

IInv ==
  /\ Versions /\ Rest
  /\ \A a \in approvals : Signed(a)
  /\ requests \in [Request -> RequestState] /\ \A r \in Request : Asks(requests[r])
  /\ Scheduled /\ Spoken /\ Approved

\* What a step leaves of the versions.
Keeps == \A n \in CheckedIn : n \in CheckedIn' /\ versions'[n] = versions[n]

LEMMA VersionsAreNumbered ==
  ASSUME Versions
  PROVE  /\ DOMAIN versions = 1..Current /\ Current \in Nat /\ CheckedIn \subseteq 1..Current
         /\ versions # <<>> <=> Current # 0
         /\ \A n \in 1..Current : versions[n] \in Version /\ versions[n].checkedIn \in BOOLEAN
<1>1. versions \in Seq(Version)
      BY DEF Versions
<1>2. \A n \in 1..Current : versions[n] \in Version
      BY <1>1 DEF Current
<1>   QED  BY <1>1, <1>2 DEF Current, CheckedIn, Version

LEMMA LatestIsGreatest ==
  ASSUME Versions, CheckedIn # {}
  PROVE  LatestCheckedIn \in CheckedIn /\ \A m \in CheckedIn : m <= LatestCheckedIn
<1>1. PICK n \in CheckedIn : TRUE
      OBVIOUS
<1>2. \E k \in CheckedIn : \A m \in CheckedIn : m <= k
  <2>1. CASE versions[Current].checkedIn
    <3>1. Current \in CheckedIn
          BY <1>1, <2>1, VersionsAreNumbered DEF CheckedIn
    <3>   QED  BY <3>1, VersionsAreNumbered
  <2>2. CASE ~versions[Current].checkedIn
    <3>1. n # Current /\ n \in 1..Current
          BY <1>1, <2>2, VersionsAreNumbered DEF CheckedIn
    <3>2. Current - 1 \in 1..Current /\ versions[Current - 1].checkedIn
          BY <3>1, VersionsAreNumbered DEF Versions, Current
    <3>3. Current - 1 \in CheckedIn
          BY <3>2, VersionsAreNumbered DEF CheckedIn
    <3>4. \A m \in CheckedIn : m \in 1..Current /\ m # Current
          BY <2>2, VersionsAreNumbered DEF CheckedIn
    <3>   QED  BY <3>2, <3>3, <3>4, VersionsAreNumbered
  <2>   QED  BY <2>1, <2>2
<1>   QED  BY <1>2 DEF LatestCheckedIn

\* Enough sign-offs, where any are required, are sign-offs of a checked-in version
\* by people who may approve.
LEMMA SignOffsAreReal ==
  ASSUME IInv, RequiredApprovals(state) > 0,
         Cardinality(ApprovalsByState(state)) >= RequiredApprovals(state)
  PROVE  /\ Current \in CheckedIn
         /\ ApprovalsByState(state) \subseteq User
         /\ \A u \in ApprovalsByState(state) :
              /\ MayApprove(u, state)
              /\ [version |-> Current, state |-> state, user |-> u] \in approvals
<1>1. ASSUME NEW u \in ApprovalsByState(state)
      PROVE  /\ u \in User /\ MayApprove(u, state) /\ Current \in CheckedIn
             /\ [version |-> Current, state |-> state, user |-> u] \in approvals
  <2>1. PICK a \in approvals : a.state = state /\ a.version = Current /\ u = a.user
        BY DEF ApprovalsByState
  <2>2. Signed(a)
        BY DEF IInv
  <2>3. a = [version |-> Current, state |-> state, user |-> u]
        BY <2>1, <2>2 DEF Signed, Approval
  <2>   QED  BY <2>1, <2>2, <2>3 DEF Signed, Approval
<1>2. ApprovalsByState(state) # {}
  <2>1. RequiredApprovals(state) \in Nat
        BY EditorialAssumption DEF IInv, Rest
  <2>   QED  BY <2>1, FS_EmptySet
<1>   QED  BY <1>1, <1>2

LEMMA InitIInv == Init => IInv
<1>   SUFFICES ASSUME Init PROVE IInv
      OBVIOUS
<1>1. PICK f \in Filled : versions = <<[checkedIn |-> FALSE, filled |-> f]>>
      BY DEF Init
<1>2. Versions /\ CheckedIn = {}
  <2>1. [checkedIn |-> FALSE, filled |-> f] \in Version
        BY DEF Version
  <2>   QED  BY <1>1, <2>1, EditorialAssumption DEF Versions, CheckedIn
<1>3. Rest
      BY EditorialAssumption DEF Init, Rest
<1>4. Free \in RequestState /\ Asks(Free) /\ Free.op # "publish"
      BY EditorialAssumption DEF Free, RequestState, Op, Asks
<1>5. Scheduled /\ Spoken
      BY DEF Init, Scheduled, PinsAreCheckedIn, Spoken, EventsAccountForRows, EveryChangeIsTold,
             EmptyBag, SetToBag, IsABag, BagToSet
<1>6. Approved
      BY <1>4 DEF Init, Approved, PublishingNeedsApproval
<1>   QED  BY <1>2, <1>3, <1>4, <1>5, <1>6 DEF Init, IInv

--------------------------------------------------------------------------------
(* The draft                                                                  *)

LEMMA SameVersions == ASSUME versions' = versions PROVE CheckedIn' = CheckedIn /\ Keeps /\ Current' = Current
BY DEF CheckedIn, Keeps, Current

\* A step that changes the versions and nothing that rests on them but what it must.
LEMMA DraftIInv ==
  ASSUME IInv, Versions', Keeps, lockedBy' \in User \cup {NoUser}, approvals' = approvals,
         UNCHANGED <<state, assignee, pins, approved, told, threads, discussed, requests, interrupts>>
  PROVE  IInv'
<1>1. Rest' /\ Spoken' /\ Approved'
      BY DEF IInv, Rest, Spoken, EventsAccountForRows, EveryChangeIsTold, Approved
<1>2. CheckedIn \subseteq CheckedIn'
      BY DEF Keeps
<1>3. Scheduled'
      BY <1>2 DEF IInv, Scheduled, PinsAreCheckedIn
<1>4. \A a \in approvals' : Signed(a)'
      BY <1>2 DEF IInv, Signed
<1>5. requests' \in [Request -> RequestState] /\ \A r \in Request : Asks(requests[r])'
      BY <1>2 DEF IInv, Asks, Signed
<1>   QED  BY <1>1, <1>3, <1>4, <1>5 DEF IInv

LEMMA StepCheckout == ASSUME IInv, NEW u \in User, Checkout(u) PROVE IInv' /\ Keeps /\ approvals' = approvals
<1>1. /\ lockedBy' = u /\ versions # <<>>
      /\ UNCHANGED <<state, assignee, pins, approved, approvals, told, threads, discussed, requests,
                     interrupts>>
      BY DEF Checkout, moveVars, signVars, talkVars
<1>2. CASE versions' = versions
      BY <1>1, <1>2, SameVersions, DraftIInv DEF IInv, Versions
<1>3. CASE versions' # versions
  <2>   DEFINE new == [versions[Current] EXCEPT !.checkedIn = FALSE]
  <2>1. ~HasDraft /\ Current < MaxVersions /\ versions' = Append(versions, new)
        BY <1>3 DEF Checkout
  <2>2. /\ versions \in Seq(Version) /\ Current \in Nat \ {0} /\ DOMAIN versions = 1..Current
        /\ Current = Len(versions) /\ MaxVersions \in Nat
        BY <1>1, VersionsAreNumbered, EditorialAssumption DEF IInv, Versions, Current
  <2>3. new \in Version /\ versions[Current].checkedIn
    <3>1. versions[Current] \in Version
          BY <2>2, VersionsAreNumbered DEF IInv
    <3>   QED  BY <1>1, <2>1, <3>1 DEF Version, HasDraft
  <2>   HIDE DEF new
  <2>4. /\ versions' \in Seq(Version) /\ Len(versions') = Current + 1
        /\ \A n \in 1..Current : versions'[n] = versions[n]
        BY <2>1, <2>2, <2>3, AppendProperties
  <2>5. Versions'
        BY <2>1, <2>2, <2>3, <2>4 DEF IInv, Versions
  <2>6. Keeps
        BY <2>2, <2>4 DEF Keeps, CheckedIn
  <2>   QED  BY <1>1, <2>5, <2>6, DraftIInv
<1>   QED  BY <1>2, <1>3

\* What becomes of the open draft is nothing to the versions before it.
LEMMA DraftChanges ==
  ASSUME IInv, HasDraft, NEW v \in Version, versions' = [versions EXCEPT ![Current] = v]
  PROVE  Versions' /\ Keeps
<1>1. /\ versions \in Seq(Version) /\ Current \in Nat \ {0} /\ DOMAIN versions = 1..Current
      /\ Current = Len(versions) /\ ~versions[Current].checkedIn
      BY VersionsAreNumbered DEF IInv, Versions, Current, HasDraft
<1>2. /\ versions' \in Seq(Version) /\ Len(versions') = Current
      /\ \A n \in 1..Current : n # Current => versions'[n] = versions[n]
  <2>1. Current \in 1..Len(versions)
        BY <1>1
  <2>   DEFINE new == [versions EXCEPT ![Current] = v]
  <2>2. /\ new \in Seq(Version) /\ Len(new) = Len(versions)
        /\ \A j \in 1..Len(versions) : new[j] = IF j = Current THEN v ELSE versions[j]
    <3>   HIDE DEF Current
    <3>   QED  BY <1>1, <2>1, ExceptSeq
  <2>3. versions' = new
        OBVIOUS
  <2>   HIDE DEF new
  <2>   QED  BY <1>1, <2>2, <2>3
<1>3. Versions'
      BY <1>1, <1>2 DEF IInv, Versions
<1>4. Keeps
      BY <1>1, <1>2 DEF Keeps, CheckedIn
<1>   QED  BY <1>3, <1>4

LEMMA StepUpdate ==
  ASSUME IInv, NEW u \in User, NEW filled \in Filled, UpdateDraft(u, filled)
  PROVE  IInv' /\ Keeps /\ approvals' = approvals
<1>   DEFINE v == [versions[Current] EXCEPT !.filled = filled]
<1>1. HasDraft /\ versions' = [versions EXCEPT ![Current] = v]
      BY DEF UpdateDraft
<1>2. versions[Current] \in Version
      BY <1>1, VersionsAreNumbered DEF IInv, HasDraft
<1>3. v \in Version
      BY <1>2 DEF Version
<1>   HIDE DEF v
<1>4. Versions' /\ Keeps
      BY <1>1, <1>3, DraftChanges
<1>   QED  BY <1>4, DraftIInv DEF UpdateDraft, IInv, Rest, moveVars, signVars, talkVars

LEMMA StepCheckin ==
  ASSUME IInv, NEW u \in User, Checkin(u) PROVE IInv' /\ Keeps /\ approvals' = approvals
<1>   DEFINE v == [versions[Current] EXCEPT !.checkedIn = TRUE]
<1>1. HasDraft /\ versions' = [versions EXCEPT ![Current] = v]
      BY DEF Checkin
<1>2. versions[Current] \in Version
      BY <1>1, VersionsAreNumbered DEF IInv, HasDraft
<1>3. v \in Version
      BY <1>2 DEF Version
<1>   HIDE DEF v
<1>4. Versions' /\ Keeps
      BY <1>1, <1>3, DraftChanges
<1>   QED  BY <1>4, DraftIInv DEF Checkin, moveVars, signVars, talkVars

LEMMA StepLeaseEnds == ASSUME IInv, LeaseEnds PROVE IInv' /\ Keeps /\ approvals' = approvals
<1>1. versions' = versions /\ approvals' = approvals
      BY DEF LeaseEnds, signVars
<1>2. Versions' /\ Keeps
      BY <1>1, SameVersions DEF IInv, Versions
<1>   QED  BY <1>1, <1>2, DraftIInv DEF LeaseEnds, moveVars, signVars, talkVars

\* No approval is of a draft, so none goes with one.
LEMMA StepRevert ==
  ASSUME IInv, NEW u \in User, Revert(u) PROVE IInv' /\ Keeps /\ approvals' = approvals
<1>1. /\ HasDraft /\ lockedBy' = NoUser /\ versions' = SubSeq(versions, 1, Current - 1)
      /\ approvals' = {a \in approvals : a.version # Current}
      /\ UNCHANGED <<state, assignee, pins, approved, told, threads, discussed, requests, interrupts>>
      BY DEF Revert, moveVars, talkVars
<1>2. /\ versions \in Seq(Version) /\ Current \in Nat \ {0} /\ DOMAIN versions = 1..Current
      /\ Current = Len(versions) /\ ~versions[Current].checkedIn /\ MaxVersions \in Nat
      BY <1>1, VersionsAreNumbered, EditorialAssumption DEF IInv, Versions, Current, HasDraft
<1>3. /\ versions' \in Seq(Version) /\ Len(versions') = Current - 1
      /\ \A n \in 1..(Current - 1) : versions'[n] = versions[n]
      BY <1>1, <1>2, SubSeqProperties
<1>4. Versions'
      BY <1>2, <1>3 DEF IInv, Versions
<1>5. Keeps
      BY <1>2, <1>3 DEF Keeps, CheckedIn
<1>6. approvals' = approvals
      BY <1>1, <1>2 DEF IInv, Signed, CheckedIn
<1>   QED  BY <1>1, <1>4, <1>5, <1>6, DraftIInv

--------------------------------------------------------------------------------
(* Requests                                                                   *)

\* A step that leaves the versions alone.
LEMMA SameIInv ==
  ASSUME IInv, versions' = versions, Rest', \A a \in approvals' : Signed(a),
         requests' \in [Request -> RequestState], \A r \in Request : Asks(requests'[r]),
         Scheduled', Spoken', Approved'
  PROVE  IInv' /\ Keeps /\ \A a \in approvals' : a.version \in CheckedIn
<1>1. CheckedIn' = CheckedIn /\ Keeps
      BY SameVersions
<1>2. Versions'
      BY DEF IInv, Versions
<1>3. \A a \in approvals' : Signed(a)'
      BY <1>1 DEF Signed
<1>4. \A r \in Request : Asks(requests[r])'
      BY <1>1 DEF Asks, Signed
<1>   QED  BY <1>1, <1>2, <1>3, <1>4 DEF IInv, Signed

LEMMA FreeAsks == Free \in RequestState /\ Asks(Free) /\ Free.op = "none"
BY EditorialAssumption DEF Free, RequestState, Op, Asks

\* A request reads, or is answered, and nothing else happens.
LEMMA RequestIInv ==
  ASSUME IInv, NEW r \in Request, NEW q \in RequestState, requests' = [requests EXCEPT ![r] = q],
         Asks(q), PublishingNeedsApproval /\ q.op = "publish" => approved # 0,
         UNCHANGED <<draftVars, moveVars, signVars, talkVars, interrupts>>
  PROVE  IInv' /\ Keeps /\ \A a \in approvals' : a.version \in CheckedIn
<1>1. /\ \A s \in Request : requests'[s] = IF s = r THEN q ELSE requests[s]
      /\ requests' \in [Request -> RequestState]
      BY DEF IInv
<1>2. Rest' /\ Spoken'
      BY DEF IInv, Rest, Spoken, EventsAccountForRows, EveryChangeIsTold,
             draftVars, moveVars, signVars, talkVars
<1>3. Scheduled'
      BY SameVersions DEF IInv, Scheduled, PinsAreCheckedIn, draftVars, moveVars
<1>4. Approved'
      BY <1>1 DEF IInv, Approved, moveVars
<1>   QED  BY <1>1, <1>2, <1>3, <1>4, SameIInv DEF IInv, draftVars, signVars

LEMMA StepBegin ==
  ASSUME IInv, NEW r \in Request, NEW u \in User,
         \/ \E op \in {"approve", "withdraw"} : BeginApproving(r, u, op)
         \/ BeginCommenting(r, u)
         \/ BeginPublish(r, u)
  PROVE  IInv' /\ Keeps /\ \A a \in approvals' : a.version \in CheckedIn
<1>0. state \in State /\ Current \in Nat /\ (versions # <<>> => Current \in 1..MaxVersions)
      BY VersionsAreNumbered, EditorialAssumption DEF IInv, Rest, Versions, Current
<1>1. ASSUME NEW op \in {"approve", "withdraw"}, BeginApproving(r, u, op)
      PROVE  IInv' /\ Keeps /\ \A a \in approvals' : a.version \in CheckedIn
  <2>   DEFINE q == [op |-> op, user |-> u, state |-> state, version |-> Current]
  <2>1. MayApprove(u, state) /\ ~HasDraft /\ Begin(r, u, q)
        BY <1>1 DEF BeginApproving
  <2>2. versions # <<>> /\ Current \in CheckedIn
        BY <2>1, VersionsAreNumbered DEF Begin, HasDraft, IInv, CheckedIn
  <2>3. q \in RequestState
        BY <1>0 DEF RequestState, Op
  <2>4. Asks(q)
        BY <1>0, <2>1, <2>2, <2>3 DEF Asks, Signed, Approval
  <2>5. q.op # "publish"
        OBVIOUS
  <2>   HIDE DEF q
  <2>   QED  BY <2>1, <2>3, <2>4, <2>5, RequestIInv DEF Begin
<1>2. CASE BeginCommenting(r, u)
  <2>   DEFINE q == [Free EXCEPT !.op = "comment", !.version = Current]
  <2>1. Begin(r, u, q)
        BY <1>2 DEF BeginCommenting
  <2>2. q \in RequestState /\ q.op = "comment"
        BY <1>0, EditorialAssumption DEF Free, RequestState, Op
  <2>   HIDE DEF q
  <2>3. Asks(q)
        BY <2>2 DEF Asks
  <2>   QED  BY <2>1, <2>2, <2>3, RequestIInv DEF Begin
<1>3. CASE BeginPublish(r, u)
  <2>   DEFINE q == [Free EXCEPT !.op = "publish"]
  <2>1. state \in Publishable /\ Begin(r, u, q)
        BY <1>3 DEF BeginPublish
  <2>2. q \in RequestState /\ q.op = "publish" /\ q.version = 0
        BY <1>0, EditorialAssumption DEF Free, RequestState, Op
  <2>   HIDE DEF q
  <2>3. Asks(q)
        BY <2>2 DEF Asks
  <2>4. PublishingNeedsApproval => approved # 0
        BY <2>1 DEF IInv, Approved
  <2>   QED  BY <2>1, <2>2, <2>3, <2>4, RequestIInv DEF Begin
<1>   QED  BY <1>1, <1>2, <1>3

LEMMA StepPinVersion ==
  ASSUME IInv, NEW r \in Request, PinVersion(r)
  PROVE  IInv' /\ Keeps /\ \A a \in approvals' : a.version \in CheckedIn
<1>   DEFINE q == [requests[r] EXCEPT !.version = LatestCheckedIn]
<1>1. /\ requests[r].op = "publish" /\ requests' = [requests EXCEPT ![r] = q]
      /\ UNCHANGED <<draftVars, moveVars, signVars, talkVars, interrupts>>
      BY DEF PinVersion
<1>2. LatestCheckedIn \in CheckedIn /\ LatestCheckedIn \in Nat /\ requests[r] \in RequestState
      BY LatestIsGreatest, VersionsAreNumbered DEF PinVersion, IInv
<1>3. q \in RequestState /\ q.op = "publish" /\ q.version \in CheckedIn
      BY <1>1, <1>2 DEF RequestState
<1>   HIDE DEF q
<1>4. Asks(q) /\ (PublishingNeedsApproval => approved # 0)
      BY <1>1, <1>3 DEF Asks, IInv, Approved
<1>   QED  BY <1>1, <1>3, <1>4, RequestIInv

LEMMA StepRefuse ==
  ASSUME IInv, NEW r \in Request, Refuse(r)
  PROVE  IInv' /\ Keeps /\ \A a \in approvals' : a.version \in CheckedIn
<1>1. /\ requests' = [requests EXCEPT ![r] = Free]
      /\ UNCHANGED <<draftVars, moveVars, signVars, talkVars, interrupts>>
      BY DEF Refuse, Answer
<1>   QED  BY <1>1, FreeAsks, RequestIInv

\* The answer of a request that did something.
LEMMA AnswerIsFree ==
  ASSUME IInv, NEW r \in Request, Answer(r)
  PROVE  /\ requests' \in [Request -> RequestState] /\ \A s \in Request : Asks(requests'[s])
         /\ \A s \in Request : requests'[s].op = "publish" => requests[s].op = "publish"
<1>1. /\ \A s \in Request : requests'[s] = IF s = r THEN Free ELSE requests[s]
      /\ requests' \in [Request -> RequestState]
      BY FreeAsks DEF Answer, IInv
<1>   QED  BY <1>1, FreeAsks DEF IInv

LEMMA StepComment ==
  ASSUME IInv, \/ ResolveComment
               \/ \E r \in Request : CreateComment(r)
               \/ \E u \in User, v \in User \cup {NoUser} : Assign(u, v)
  PROVE  IInv' /\ Keeps /\ \A a \in approvals' : a.version \in CheckedIn
<1>1. /\ versions' = versions /\ approvals' = approvals
      /\ UNCHANGED <<state, lockedBy, pins, approved, told, interrupts>>
      BY DEF ResolveComment, CreateComment, Assign, draftVars, moveVars, signVars
<1>2. /\ requests' \in [Request -> RequestState] /\ \A s \in Request : Asks(requests'[s])
      /\ \A s \in Request : requests'[s].op = "publish" => requests[s].op = "publish"
      BY AnswerIsFree DEF ResolveComment, CreateComment, Assign, IInv
<1>3. Rest'
  <2>1. CASE ResolveComment
        BY <1>1, <2>1 DEF ResolveComment, IInv, Rest, moveVars
  <2>2. ASSUME NEW r \in Request, CreateComment(r) PROVE Rest'
    <3>1. requests[r].version \in 1..MaxVersions
          BY <2>2, VersionsAreNumbered, EditorialAssumption DEF CreateComment, IInv, Versions, Current
    <3>2. /\ discussed' = discussed \cup {requests[r].version} /\ threads' \in {threads + 1, threads}
          /\ UNCHANGED assignee
          BY <2>2 DEF CreateComment, moveVars
    <3>3. threads' \in Nat
          BY <3>2 DEF IInv, Rest
    <3>4. discussed' \subseteq 1..MaxVersions
      <4>   DEFINE v == requests[r].version
      <4>1. v \in 1..MaxVersions /\ discussed' = discussed \cup {v}
            BY <3>1, <3>2
      <4>   HIDE DEF v
      <4>   QED  BY <4>1 DEF IInv, Rest
    <3>   QED  BY <1>1, <3>2, <3>3, <3>4 DEF IInv, Rest
  <2>3. ASSUME NEW u \in User, NEW v \in User \cup {NoUser}, Assign(u, v) PROVE Rest'
        BY <1>1, <2>3 DEF Assign, IInv, Rest, talkVars
  <2>   QED  BY <2>1, <2>2, <2>3
<1>4. Scheduled'
      BY <1>1, SameVersions DEF IInv, Scheduled, PinsAreCheckedIn
<1>5. Spoken'
      BY <1>1 DEF IInv, Spoken, EventsAccountForRows, EveryChangeIsTold
<1>6. Approved'
      BY <1>1, <1>2 DEF IInv, Approved
<1>   QED  BY <1>1, <1>2, <1>3, <1>4, <1>5, <1>6, SameIInv DEF IInv

LEMMA StepEnqueue ==
  ASSUME IInv, NEW r \in Request, EnqueuePublish(r)
  PROVE  IInv' /\ Keeps /\ \A a \in approvals' : a.version \in CheckedIn
<1>   DEFINE v == requests[r].version
             p == [version |-> v, by |-> "request", approved |-> approved]
<1>1. /\ requests[r].op = "publish" /\ v # 0 /\ pins' = pins \cup {p} /\ Answer(r)
      /\ versions' = versions /\ approvals' = approvals
      /\ UNCHANGED <<state, assignee, lockedBy, approved, told, threads, discussed, interrupts>>
      BY DEF EnqueuePublish, draftVars, signVars, talkVars
<1>2. /\ v \in CheckedIn /\ v \in Nat /\ approved \in Nat
      /\ PublishingNeedsApproval => approved # 0
  <2>1. Asks(requests[r]) /\ Versions /\ Scheduled /\ Approved
        BY DEF IInv
  <2>2. v \in CheckedIn
        BY <1>1, <2>1 DEF Asks
  <2>3. CheckedIn \subseteq Nat
        BY <2>1, VersionsAreNumbered
  <2>   HIDE DEF v
  <2>   QED  BY <1>1, <2>1, <2>2, <2>3 DEF Scheduled, Approved
<1>3. /\ requests' \in [Request -> RequestState] /\ \A s \in Request : Asks(requests'[s])
      /\ \A s \in Request : requests'[s].op = "publish" => requests[s].op = "publish"
      BY <1>1, AnswerIsFree
<1>4. Scheduled'
  <2>1. p \in Pin /\ p.version \in CheckedIn /\ p.by # "transition"
        BY <1>2 DEF Pin
  <2>   HIDE DEF p
  <2>   QED  BY <1>1, <2>1, SameVersions DEF IInv, Scheduled, PinsAreCheckedIn
<1>5. Rest' /\ Spoken'
      BY <1>1 DEF IInv, Rest, Spoken, EventsAccountForRows, EveryChangeIsTold
<1>6. Approved'
      BY <1>1, <1>2, <1>3 DEF IInv, Approved
<1>   QED  BY <1>1, <1>3, <1>4, <1>5, <1>6, SameIInv DEF IInv

--------------------------------------------------------------------------------
(* Approvals                                                                  *)

LEMMA OneMoreTold ==
  ASSUME NEW B, IsABag(B), NEW k
  PROVE  IsABag(B (+) SetToBag({k})) /\ BagToSet(B (+) SetToBag({k})) = BagToSet(B) \cup {k}
BY DEF (+), SetToBag, IsABag, BagToSet

LEMMA OneMoreOfASet ==
  ASSUME NEW S, NEW k, k \notin S
  PROVE  SetToBag(S) (+) SetToBag({k}) = SetToBag(S \cup {k})
BY DEF (+), SetToBag

LEMMA OneLessTold ==
  ASSUME NEW B, IsABag(B), NEW k
  PROVE  IsABag(B (-) SetToBag({k})) /\ BagToSet(B (-) SetToBag({k})) \subseteq BagToSet(B)
<1>   DEFINE less == [e \in DOMAIN B |-> IF e = k THEN B[e] - 1 ELSE B[e]]
             C == B (-) SetToBag({k})
<1>1. C = [e \in {d \in DOMAIN B : less[d] > 0} |-> less[e]]
      BY DEF (-), SetToBag
<1>2. \A e \in DOMAIN B : less[e] = IF e = k THEN B[e] - 1 ELSE B[e]
      OBVIOUS
<1>   HIDE DEF C, less
<1>3. IsABag(C) /\ BagToSet(C) \subseteq BagToSet(B)
      BY <1>1, <1>2 DEF IsABag, BagToSet
<1>   QED  BY <1>3 DEF C

LEMMA OneLessOfASet ==
  ASSUME NEW S, NEW k
  PROVE  SetToBag(S) (-) SetToBag({k}) = SetToBag(S \ {k})
<1>   DEFINE less == [e \in S |-> IF e = k THEN 0 ELSE 1]
<1>1. SetToBag(S) (-) SetToBag({k}) = [e \in {d \in S : less[d] > 0} |-> less[e]]
      BY DEF (-), SetToBag
<1>2. {d \in S : less[d] > 0} = S \ {k} /\ \A e \in S \ {k} : less[e] = 1
      OBVIOUS
<1>   HIDE DEF less
<1>   QED  BY <1>1, <1>2 DEF SetToBag

LEMMA StepApproval ==
  ASSUME IInv, NEW r \in Request, CreateApproval(r) \/ WithdrawApproval(r)
  PROVE  IInv' /\ Keeps /\ \A a \in approvals' : a.version \in CheckedIn
<1>1. /\ requests[r].op \in {"approve", "withdraw"} /\ Answer(r) /\ versions' = versions
      /\ UNCHANGED <<state, assignee, lockedBy, pins, approved, threads, discussed>>
      BY DEF CreateApproval, WithdrawApproval, draftVars, moveVars, talkVars
<1>2. Signed(Key(r)) /\ Key(r) \in Approval
      BY <1>1 DEF IInv, Asks, Key, Signed
<1>3. /\ requests' \in [Request -> RequestState] /\ \A s \in Request : Asks(requests'[s])
      /\ \A s \in Request : requests'[s].op = "publish" => requests[s].op = "publish"
      BY <1>1, AnswerIsFree
<1>4. /\ interrupts \in Nat
      /\ IsABag(told) /\ BagToSet(told) \subseteq Approval
      /\ interrupts = 0 => told = SetToBag(approvals)
      BY DEF IInv, Rest, Spoken, EventsAccountForRows, EveryChangeIsTold
<1>5. /\ approvals' \subseteq approvals \cup {Key(r)} /\ interrupts' \in Nat
      /\ IsABag(told') /\ BagToSet(told') \subseteq Approval
      /\ interrupts' = 0 => told' = SetToBag(approvals')
  <2>1. CASE CreateApproval(r)
    <3>1. approvals' = approvals \cup {Key(r)}
          BY <2>1 DEF CreateApproval
    <3>2. CASE Key(r) \in approvals /\ UNCHANGED <<told, interrupts>>
      <4>1. approvals' = approvals
            BY <3>1, <3>2
      <4>   QED  BY <1>4, <3>2, <4>1
    <3>3. CASE Key(r) \notin approvals /\ told' = told (+) SetToBag({Key(r)}) /\ UNCHANGED interrupts
      <4>1. IsABag(told') /\ BagToSet(told') = BagToSet(told) \cup {Key(r)}
            BY <1>4, <3>3, OneMoreTold
      <4>2. ASSUME interrupts' = 0 PROVE told' = SetToBag(approvals')
        <5>1. told = SetToBag(approvals)
              BY <1>4, <3>3, <4>2
        <5>   QED  BY <3>1, <3>3, <5>1, OneMoreOfASet
      <4>   QED  BY <1>2, <1>4, <3>1, <3>3, <4>1, <4>2
    <3>4. CASE Interrupted /\ UNCHANGED told
          BY <1>4, <3>1, <3>4 DEF Interrupted
    <3>   QED  BY <2>1, <3>2, <3>3, <3>4 DEF CreateApproval
  <2>2. CASE WithdrawApproval(r)
    <3>1. approvals' = approvals \ {Key(r)}
          BY <2>2 DEF WithdrawApproval
    <3>2. CASE Key(r) \notin approvals /\ UNCHANGED <<told, interrupts>>
      <4>1. approvals' = approvals
            BY <3>1, <3>2
      <4>   QED  BY <1>4, <3>2, <4>1
    <3>3. CASE told' = told (-) SetToBag({Key(r)}) /\ UNCHANGED interrupts
      <4>1. IsABag(told') /\ BagToSet(told') \subseteq BagToSet(told)
            BY <1>4, <3>3, OneLessTold
      <4>2. ASSUME interrupts' = 0 PROVE told' = SetToBag(approvals')
        <5>1. told = SetToBag(approvals)
              BY <1>4, <3>3, <4>2
        <5>   QED  BY <3>1, <3>3, <5>1, OneLessOfASet
      <4>   QED  BY <1>4, <3>1, <3>3, <4>1, <4>2
    <3>4. CASE Interrupted /\ UNCHANGED told
          BY <1>4, <3>1, <3>4 DEF Interrupted
    <3>   QED  BY <2>2, <3>2, <3>3, <3>4 DEF WithdrawApproval
  <2>   QED  BY <2>1, <2>2
<1>6. \A a \in approvals' : Signed(a)
      BY <1>2, <1>5 DEF IInv
<1>7. Scheduled'
      BY <1>1, SameVersions DEF IInv, Scheduled, PinsAreCheckedIn
<1>8. Spoken'
      BY <1>5 DEF Spoken, EventsAccountForRows, EveryChangeIsTold
<1>9. Rest'
      BY <1>1, <1>5 DEF IInv, Rest
<1>10. Approved'
      BY <1>1, <1>3 DEF IInv, Approved
<1>   QED  BY <1>1, <1>3, <1>6, <1>7, <1>8, <1>9, <1>10, SameIInv

--------------------------------------------------------------------------------
(* Transitions                                                                *)

\* A move that counts sign-offs has them.
LEMMA CountingCounts ==
  ASSUME NEW u, NEW t \in Counting(state), NEW note, Check(t, u, note)
  PROVE  Cardinality(ApprovalsByState(state)) >= RequiredApprovals(state)
<1>1. GuardHolds("approvals_met", u, note)
      BY DEF Check, Counting
<1>   QED  BY <1>1 DEF GuardHolds

LEMMA StepDo ==
  ASSUME IInv, NEW u \in User, NEW t \in Workflow, NEW note \in BOOLEAN, Do(u, t, note)
  PROVE  IInv' /\ Keeps /\ \A a \in approvals' : a.version \in CheckedIn
<1>   DEFINE counts == t \in Counting(state) /\ RequiredApprovals(state) > 0
<1>1. /\ versions # <<>> /\ t.from = state /\ Check(t, u, note) /\ t \in Transition
      /\ state' = t.to /\ assignee' = AssigneeAfter(t, u)
      /\ approved' = IF counts THEN Current ELSE approved
      /\ versions' = versions /\ UNCHANGED <<lockedBy, threads, discussed, requests, interrupts>>
      BY EditorialAssumption DEF Do, ValidWorkflow, draftVars, talkVars
<1>2. counts => Current \in CheckedIn /\ Current # 0
      BY <1>1, CountingCounts, SignOffsAreReal, VersionsAreNumbered DEF IInv
<1>3. /\ approvals' \subseteq approvals
      /\ IsABag(told') /\ BagToSet(told') \subseteq Approval
      /\ interrupts' = 0 => told' = SetToBag(approvals')
  <2>1. /\ IsABag(told) /\ BagToSet(told) \subseteq Approval
        /\ interrupts = 0 => told = SetToBag(approvals)
        BY DEF IInv, Spoken, EventsAccountForRows, EveryChangeIsTold
  <2>2. CASE "clear_approvals" \in t.effects
    <3>   DEFINE S == {a \in BagToSet(told) : a.version # Current}
    <3>1. /\ approvals' = {a \in approvals : a.version # Current}
          /\ told' = [a \in S |-> told[a]]
          BY <2>2 DEF Do, Restrict
    <3>2. S \subseteq DOMAIN told /\ \A a \in S : told[a] \in {n \in Nat : n > 0}
          BY <2>1 DEF BagToSet, IsABag
    <3>3. interrupts = 0 => S = approvals' /\ \A a \in S : told[a] = 1
          BY <2>1, <3>1 DEF BagToSet, SetToBag
    <3>   HIDE DEF S
    <3>4. IsABag(told') /\ BagToSet(told') \subseteq Approval
          BY <2>1, <3>1, <3>2 DEF IsABag, BagToSet
    <3>5. interrupts' = 0 => told' = SetToBag(approvals')
          BY <1>1, <3>1, <3>3 DEF SetToBag
    <3>   QED  BY <3>1, <3>4, <3>5
  <2>3. CASE "clear_approvals" \notin t.effects
        BY <1>1, <2>1, <2>3 DEF Do, signVars
  <2>   QED  BY <2>2, <2>3
<1>4. \A a \in approvals' : Signed(a)
      BY <1>3 DEF IInv
<1>5. requests' \in [Request -> RequestState] /\ \A r \in Request : Asks(requests'[r])
      BY <1>1 DEF IInv
<1>6. "publish" \in t.effects =>
        /\ pins' = pins \cup {PinLatest("transition")} /\ t.to \in Publishable
        /\ LatestCheckedIn \in CheckedIn /\ \A m \in CheckedIn : m <= LatestCheckedIn
  <2>   SUFFICES ASSUME "publish" \in t.effects
                 PROVE  /\ pins' = pins \cup {PinLatest("transition")} /\ t.to \in Publishable
                        /\ LatestCheckedIn \in CheckedIn /\ \A m \in CheckedIn : m <= LatestCheckedIn
        OBVIOUS
  <2>1. pins' = pins \cup {PinLatest("transition")}
        BY DEF Do
  <2>2. t.to \in Publishable /\ "has_checked_in_version" \in t.guards
        BY EditorialAssumption DEF ValidWorkflow
  <2>3. GuardHolds("has_checked_in_version", u, note)
        BY <1>1, <2>2 DEF Check
  <2>4. CheckedIn # {}
        BY <2>3 DEF GuardHolds
  <2>   QED  BY <2>1, <2>2, <2>4, LatestIsGreatest DEF IInv
<1>7. "publish" \notin t.effects => pins' = pins
      BY DEF Do
<1>8. approved \in CheckedIn \cup {0} /\ CheckedIn \subseteq 1..Current /\ Current \in Nat
      BY VersionsAreNumbered DEF IInv, Scheduled
<1>9. Scheduled'
  <2>1. CheckedIn' = CheckedIn /\ approved' \in CheckedIn \cup {0}
        BY <1>1, <1>2, <1>8, SameVersions
  <2>2. CASE "publish" \in t.effects
    <3>   DEFINE p == PinLatest("transition")
    <3>1. p \in Pin /\ p.version \in CheckedIn /\ p.version >= p.approved
      <4>1. LatestCheckedIn \in CheckedIn /\ \A m \in CheckedIn : m <= LatestCheckedIn
            BY <1>6, <2>2, Zenon
      <4>2. LatestCheckedIn \in CheckedIn /\ LatestCheckedIn \in Nat /\ approved \in Nat
            BY <1>8, <4>1
      <4>3. LatestCheckedIn >= approved
            BY <1>8, <4>1, <4>2
      <4>4. p.version = LatestCheckedIn /\ p.approved = approved /\ p \in Pin
            BY <4>2 DEF PinLatest, Pin
      <4>   QED  BY <4>2, <4>3, <4>4
    <3>   HIDE DEF p
    <3>2. pins' = pins \cup {p}
          BY <1>6, <2>2 DEF p
    <3>   QED  BY <2>1, <3>1, <3>2 DEF IInv, Scheduled, PinsAreCheckedIn
  <2>3. CASE "publish" \notin t.effects
        BY <1>7, <2>1, <2>3 DEF IInv, Scheduled, PinsAreCheckedIn
  <2>   QED  BY <2>2, <2>3
<1>10. Spoken'
      BY <1>3 DEF Spoken, EventsAccountForRows, EveryChangeIsTold
<1>11. Rest'
  <2>1. assignee' \in User \cup {NoUser}
        BY <1>1 DEF AssigneeAfter, IInv, Rest
  <2>2. state' \in State
        BY <1>1 DEF Transition
  <2>   QED  BY <1>1, <2>1, <2>2 DEF IInv, Rest
<1>12. Approved'
  <2>   SUFFICES ASSUME PublishingNeedsApproval
                 PROVE  /\ state' \in Publishable => approved' # 0
                        /\ \A r \in Request : requests'[r].op = "publish" => approved' # 0
                        /\ pins' # {} => approved' # 0
        BY DEF Approved
  <2>1. approved # 0 => approved' # 0
        BY <1>1, <1>2
  <2>2. t.to \in Publishable => approved' # 0
    <3>1. CASE state \in Publishable
          BY <2>1, <3>1 DEF IInv, Approved
    <3>2. CASE state \notin Publishable /\ t.to \in Publishable
      <4>1. "approvals_met" \in t.guards /\ RequiredApprovals(state) > 0
            BY <1>1, <3>2 DEF PublishingNeedsApproval
      <4>2. counts
            BY <1>1, <4>1 DEF Counting
      <4>   QED  BY <1>1, <1>2, <4>2
    <3>   QED  BY <3>1, <3>2
  <2>3. pins' # {} => approved' # 0
        BY <1>6, <1>7, <2>1, <2>2 DEF IInv, Approved
  <2>   QED  BY <1>1, <2>1, <2>2, <2>3 DEF IInv, Approved
<1>   QED  BY <1>1, <1>4, <1>5, <1>9, <1>10, <1>11, <1>12, SameIInv

--------------------------------------------------------------------------------
(* The theorems                                                               *)

LEMMA StepIInv ==
  ASSUME IInv, [Next]_vars
  PROVE  IInv' /\ Keeps /\ \A a \in approvals' : a.version \in CheckedIn
<1>1. ASSUME IInv' /\ Keeps /\ approvals' = approvals
      PROVE  IInv' /\ Keeps /\ \A a \in approvals' : a.version \in CheckedIn
      BY <1>1 DEF IInv, Signed
<1>2. CASE UNCHANGED vars
  <2>1. Versions' /\ Rest' /\ Spoken' /\ Approved'
        BY <1>2 DEF vars, IInv, Versions, Rest, Spoken, EventsAccountForRows, EveryChangeIsTold, Approved
  <2>2. Keeps /\ CheckedIn' = CheckedIn
        BY <1>2, SameVersions DEF vars
  <2>3. Scheduled'
        BY <1>2, <2>2 DEF vars, IInv, Scheduled, PinsAreCheckedIn
  <2>   QED  BY <1>2, <2>1, <2>3, SameIInv DEF vars, IInv
<1>3. ASSUME NEW u \in User,
             \/ Checkout(u) \/ Checkin(u) \/ Revert(u)
             \/ \E filled \in Filled : UpdateDraft(u, filled)
      PROVE  IInv' /\ Keeps /\ \A a \in approvals' : a.version \in CheckedIn
      BY <1>1, <1>3, StepCheckout, StepCheckin, StepRevert, StepUpdate
<1>4. ASSUME NEW r \in Request,
             \/ \E u \in User : \/ \E op \in {"approve", "withdraw"} : BeginApproving(r, u, op)
                                \/ BeginCommenting(r, u) \/ BeginPublish(r, u)
             \/ CreateApproval(r) \/ WithdrawApproval(r)
             \/ PinVersion(r) \/ EnqueuePublish(r) \/ Refuse(r)
      PROVE  IInv' /\ Keeps /\ \A a \in approvals' : a.version \in CheckedIn
      BY <1>4, StepBegin, StepApproval, StepPinVersion, StepEnqueue, StepRefuse
<1>5. CASE LeaseEnds
      BY <1>1, <1>5, StepLeaseEnds
<1>   QED  BY <1>2, <1>3, <1>4, <1>5, StepDo, StepComment DEF Next

LEMMA Invariance == Spec => []IInv
<1>1. IInv /\ [Next]_vars => IInv'
      BY StepIInv
<1>   QED  BY <1>1, InitIInv, PTL DEF Spec

\* The state keeps its types.
THEOREM TypeCorrect == Spec => []TypeOK
<1>1. IInv => TypeOK
  <2>   SUFFICES ASSUME IInv PROVE TypeOK
        OBVIOUS
  <2>1. approved \in Nat
        BY VersionsAreNumbered DEF IInv, Scheduled
  <2>   QED  BY <2>1 DEF IInv, Versions, Rest, Signed, Scheduled, Spoken, TypeOK
<1>   QED  BY <1>1, Invariance, PTL

\* What was signed off on never changes and never goes while the approval stands:
\* a request that approves read a version that was checked in, and those stay.
THEOREM SignedContentStays == Spec => SignedContentIsFixed
<1>1. IInv /\ [Next]_vars =>
        [\A a \in approvals' :
           /\ a.version \in DOMAIN versions'
           /\ a.version \in DOMAIN versions => versions'[a.version] = versions[a.version]]_vars
      BY StepIInv DEF Keeps, CheckedIn
<1>   QED  BY <1>1, Invariance, PTL DEF Spec, SignedContentIsFixed

\* A move to another state that asks for sign-off has as many of them as it asks for,
\* by people who may make it, of a version that is checked in, in any valid workflow.
THEOREM SignOffsCount == Spec => SignOffCounts
<1>1. ASSUME IInv, [Next]_vars, NEW t \in Counting(state), state' = t.to, state' # state,
             RequiredApprovals(state) > 0
      PROVE  /\ Current \in CheckedIn
             /\ \E signers \in SUBSET User :
                  /\ Cardinality(signers) >= RequiredApprovals(state)
                  /\ \A u \in signers :
                       /\ MayApprove(u, state)
                       /\ [version |-> Current, state |-> state, user |-> u] \in approvals
  <2>1. PICK u \in User, s \in Workflow, note \in BOOLEAN : Do(u, s, note)
        BY <1>1 DEF Next, vars, LeaseEnds, ResolveComment, Checkout, Checkin, Revert, UpdateDraft, Assign,
                    BeginApproving, BeginCommenting, BeginPublish, Begin, CreateApproval, WithdrawApproval,
                    CreateComment, PinVersion, EnqueuePublish, Refuse, moveVars
  <2>2. s = t
        BY <1>1, <2>1, EditorialAssumption DEF Do, Counting, ValidWorkflow
  <2>3. Cardinality(ApprovalsByState(state)) >= RequiredApprovals(state)
        BY <2>1, <2>2, CountingCounts DEF Do
  <2>   QED  BY <1>1, <2>3, SignOffsAreReal
<1>2. IInv /\ [Next]_vars =>
        [\A t \in Counting(state) :
           state' = t.to /\ state' # state /\ RequiredApprovals(state) > 0 =>
             /\ Current \in CheckedIn
             /\ \E signers \in SUBSET User :
                  /\ Cardinality(signers) >= RequiredApprovals(state)
                  /\ \A u \in signers :
                       /\ MayApprove(u, state)
                       /\ [version |-> Current, state |-> state, user |-> u] \in approvals]_vars
      BY <1>1
<1>   QED  BY <1>2, Invariance, PTL DEF Spec, SignOffCounts

\* While no write was cut off, the events name the approvals there are and no other:
\* no approval is of a draft, so none goes with one untold, and every other
\* approval that is written or goes, goes with its event.
THEOREM EventsAccount == Spec => []EventsAccountForRows
<1>1. IInv => EventsAccountForRows
      BY DEF IInv, Spoken
<1>   QED  BY <1>1, Invariance, PTL

\* What is scheduled is pinned to a version that is checked in for ever, and a move
\* pins none older than what was signed off on last.
THEOREM PinsStayCheckedIn == Spec => []PinsAreCheckedIn
<1>1. IInv => PinsAreCheckedIn
      BY DEF IInv, Scheduled
<1>   QED  BY <1>1, Invariance, PTL

\* Where every way into the publishable states asks for sign-offs, nothing is
\* scheduled of a document that never was signed off, whenever requests read its state.
THEOREM NothingUnapproved == Spec => []NothingScheduledUnapproved
<1>1. IInv => NothingScheduledUnapproved
      BY DEF IInv, Approved, NothingScheduledUnapproved
<1>   QED  BY <1>1, Invariance, PTL

--------------------------------------------------------------------------------
(***************************************************************************)
(* The categories of a site, Sites, in which the documents above are       *)
(* filed.  Nothing above depends on what follows.                          *)
(*                                                                         *)
(* A request finds a row by its id in one step and changes it in another,  *)
(* when the id may be another category's; so nothing is claimed of what a  *)
(* request has read but that it is of its type, and everything of the      *)
(* rows: each carries the path of its parent with its own name, no two     *)
(* carry one path (IsTree), and what is filed anywhere is filed in a row   *)
(* there is (FilingTypes).  That a move keeps IsTree rests on what it does *)
(* to the path of a child (ChildRewritten).                                *)
(***************************************************************************)

Category == [parent : 0..MaxCategories, directory : Directory \cup {""}, path : Seq(Directory)]

SiteRequestType == [op : {"free", "category", "file"}, id : Nat \cup Document, ids : Seq(Ids)]

CategoryTypes ==
  /\ Root \in DOMAIN categories /\ DOMAIN categories \subseteq Ids
  /\ categories \in [DOMAIN categories -> Category]

FilingTypes ==
  /\ filed \in [Document -> Seq(Ids)]
  /\ \A d \in Document : ToSet(filed[d]) \subseteq DOMAIN categories
  /\ siteRequests \in [SiteRequest -> SiteRequestType]

\* The rows of a tree: of each but the root, the parent and what its path is.
IsTree(rows) ==
  /\ rows[Root] = [parent |-> 0, directory |-> "", path |-> <<>>]
  /\ \A c \in DOMAIN rows \ {Root} :
       /\ rows[c].parent \in DOMAIN rows /\ rows[c].directory \in Directory
       /\ rows[c].path = Append(rows[rows[c].parent].path, rows[c].directory)
  /\ \A a, b \in DOMAIN rows : rows[a].path = rows[b].path => a = b

SitesInv == CategoryTypes /\ FilingTypes /\ IsTree(categories)

--------------------------------------------------------------------------------
(* Row ids                                                                    *)

\* There is a greatest id in use: of the bounds of the ids, the least is one of them.
LEMMA GreatestId ==
  ASSUME NEW M \in Nat, NEW D \in SUBSET (1..M), D # {}
  PROVE  \E i \in D : \A j \in D : j <= i
<1>   DEFINE B == {k \in 1..M : \A j \in D : j <= k}
             T == {1..k : k \in B}
<1>1. M \in B
  <2>1. PICK j \in D : TRUE
        OBVIOUS
  <2>2. j \in 1..M /\ \A i \in D : i \in 1..M
        OBVIOUS
  <2>   QED  BY <2>2
<1>2. T \subseteq FiniteSubsetsOf(Nat)
  <2>   SUFFICES ASSUME NEW k \in B PROVE (1..k) \in FiniteSubsetsOf(Nat)
        OBVIOUS
  <2>1. IsFiniteSet(1..k)
        BY FS_Interval
  <2>   QED  BY <2>1 DEF FiniteSubsetsOf
<1>3. PICK X \in T : \A Y \in T : <<Y, X>> \notin StrictSubsetOrdering(Nat)
  <2>1. T # {}
        BY <1>1
  <2>   HIDE DEF T
  <2>   QED  BY <1>2, <2>1, FS_StrictSubsetOrderingWellFounded, WFMin
<1>4. PICK k \in B : X = 1..k
      OBVIOUS
<1>5. k \in D
  <2>   SUFFICES ASSUME k \notin D PROVE FALSE
        OBVIOUS
  <2>1. ASSUME NEW j \in D PROVE j <= k - 1 /\ 1 <= k - 1
    <3>1. k \in 1..M /\ j \in 1..M /\ j <= k /\ j # k
          OBVIOUS
    <3>   QED  BY <3>1
  <2>2. k - 1 \in B
    <3>1. 1 <= k - 1 /\ k \in 1..M
          BY <2>1
    <3>   QED  BY <2>1, <3>1
  <2>3. 1..(k - 1) \subseteq 1..k /\ k \in 1..k /\ k \notin 1..(k - 1) /\ 1..(k - 1) \subseteq Nat /\ 1..k \subseteq Nat
        OBVIOUS
  <2>4. <<1..(k - 1), X>> \in StrictSubsetOrdering(Nat)
        BY <1>4, <2>3 DEF StrictSubsetOrdering
  <2>   QED  BY <1>3, <2>2, <2>4
<1>   QED  BY <1>5

\* So a new row gets an id, and nobody has it.
LEMMA NewId ==
  ASSUME MaxCategories \in Nat, CategoryTypes
  PROVE  /\ NextId \in Nat /\ NextId \notin DOMAIN categories /\ NextId # Root
         /\ \A c \in DOMAIN categories : c < NextId
<1>1. DOMAIN categories \in SUBSET (1..MaxCategories) /\ 1 \in DOMAIN categories
      BY DEF CategoryTypes, Ids, Root
<1>2. PICK i \in DOMAIN categories : \A j \in DOMAIN categories : j <= i
      BY <1>1, GreatestId
<1>3. /\ i + 1 \in 1..(MaxCategories + 1) /\ (i + 1) - 1 \in DOMAIN categories
      /\ \A c \in DOMAIN categories : c < i + 1
      BY <1>1, <1>2
<1>4. /\ NextId \in 1..(MaxCategories + 1)
      /\ \A c \in DOMAIN categories : c < NextId
      BY <1>3 DEF NextId
<1>   QED  BY <1>1, <1>4 DEF Root

--------------------------------------------------------------------------------
(* Paths                                                                      *)

\* A path is at or below another when it begins with it.
LEMMA PrefixIs ==
  ASSUME NEW D, NEW s \in Seq(D), NEW t \in Seq(D)
  PROVE  IsDescendantPath(s, t) <=> Len(s) <= Len(t) /\ \A i \in 1..Len(s) : s[i] = t[i]
<1>1. CASE Len(s) <= Len(t)
  <2>1. /\ SubSeq(s, 1, Len(s)) \in Seq(D) /\ SubSeq(t, 1, Len(s)) \in Seq(D)
        /\ Len(SubSeq(s, 1, Len(s))) = Len(s) /\ Len(SubSeq(t, 1, Len(s))) = Len(s)
        /\ \A i \in 1..Len(s) : SubSeq(s, 1, Len(s))[i] = s[i] /\ SubSeq(t, 1, Len(s))[i] = t[i]
        BY <1>1
  <2>2. SubSeq(s, 1, Len(s)) = SubSeq(t, 1, Len(s)) <=> \A i \in 1..Len(s) : s[i] = t[i]
        BY <2>1
  <2>   QED  BY <1>1, <2>2 DEF IsDescendantPath, IsPrefix
<1>2. CASE ~(Len(s) <= Len(t))
      BY <1>2 DEF IsDescendantPath, IsPrefix
<1>   QED  BY <1>1, <1>2

\* One more at the end.
LEMMA Longer ==
  ASSUME NEW D, NEW t \in Seq(D), NEW e \in D
  PROVE  /\ Append(t, e) \in Seq(D) /\ Len(t) \in Nat /\ Len(Append(t, e)) = Len(t) + 1
         /\ Append(t, e)[Len(t) + 1] = e /\ \A i \in 1..Len(t) : Append(t, e)[i] = t[i]
OBVIOUS

\* Two sequences that are as long and have the same elements are one.
LEMMA SameSequence ==
  ASSUME NEW D, NEW s \in Seq(D), NEW t \in Seq(D), Len(s) = Len(t), \A i \in 1..Len(s) : s[i] = t[i]
  PROVE  s = t
OBVIOUS

\* At or below a child is the child's path itself, or at or below its parent.
LEMMA PrefixOfChild ==
  ASSUME NEW D, NEW s \in Seq(D), NEW t \in Seq(D), NEW e \in D
  PROVE  IsDescendantPath(s, Append(t, e)) <=> s = Append(t, e) \/ IsDescendantPath(s, t)
<1>   DEFINE u == Append(t, e)
<1>1. /\ u \in Seq(D) /\ Len(u) = Len(t) + 1 /\ u[Len(t) + 1] = e /\ \A i \in 1..Len(t) : u[i] = t[i]
      /\ Len(t) \in Nat /\ Len(s) \in Nat
      OBVIOUS
<1>   HIDE DEF u
<1>2. ASSUME IsDescendantPath(s, u) PROVE s = u \/ IsDescendantPath(s, t)
  <2>1. Len(s) <= Len(u) /\ \A i \in 1..Len(s) : s[i] = u[i]
        BY <1>1, <1>2, PrefixIs
  <2>2. CASE Len(s) = Len(u)
        BY <1>1, <2>1, <2>2
  <2>3. CASE Len(s) # Len(u)
    <3>1. Len(s) <= Len(t) /\ \A i \in 1..Len(s) : s[i] = t[i]
          BY <1>1, <2>1, <2>3
    <3>   QED  BY <3>1, PrefixIs
  <2>   QED  BY <2>2, <2>3
<1>3. ASSUME s = u \/ IsDescendantPath(s, t) PROVE IsDescendantPath(s, u)
  <2>1. CASE s = u
        BY <1>1, <2>1, PrefixIs
  <2>2. CASE IsDescendantPath(s, t)
    <3>1. Len(s) <= Len(t) /\ \A i \in 1..Len(s) : s[i] = t[i]
          BY <2>2, PrefixIs
    <3>2. Len(s) <= Len(u) /\ \A i \in 1..Len(s) : s[i] = u[i]
          BY <1>1, <3>1
    <3>   QED  BY <1>1, <3>2, PrefixIs
  <2>   QED  BY <1>3, <2>1, <2>2
<1>   QED  BY <1>2, <1>3 DEF u

\* What a move does to a path: it stays a path, the path that moves becomes the
\* new one, and that of a child is rewritten as its parent's is.
LEMMA Rewritten ==
  ASSUME NEW D, NEW old \in Seq(D), NEW new \in Seq(D), NEW t \in Seq(D)
  PROVE  /\ RewritePath(t, old, new) \in Seq(D)
         /\ ~IsDescendantPath(old, t) => RewritePath(t, old, new) = t
         /\ RewritePath(old, old, new) = new
<1>1. ASSUME IsDescendantPath(old, t)
      PROVE  RewritePath(t, old, new) \in Seq(D)
  <2>1. SubSeq(t, Len(old) + 1, Len(t)) \in Seq(D)
        OBVIOUS
  <2>   QED  BY <1>1, <2>1 DEF RewritePath
<1>2. IsDescendantPath(old, old)
      BY PrefixIs
<1>3. SubSeq(old, Len(old) + 1, Len(old)) = <<>>
      OBVIOUS
<1>4. new \o <<>> = new
      OBVIOUS
<1>   QED  BY <1>1, <1>2, <1>3, <1>4 DEF RewritePath

LEMMA ChildRewritten ==
  ASSUME NEW D, NEW old \in Seq(D), NEW new \in Seq(D), NEW t \in Seq(D), NEW e \in D,
         IsDescendantPath(old, t)
  PROVE  RewritePath(Append(t, e), old, new) = Append(RewritePath(t, old, new), e)
<1>   DEFINE u == Append(t, e)
             n == Len(old)
             a == SubSeq(t, n + 1, Len(t))
             b == SubSeq(u, n + 1, Len(u))
<1>1. IsDescendantPath(old, u)
      BY PrefixOfChild
<1>2. n \in Nat /\ n <= Len(t) /\ Len(t) \in Nat
      BY PrefixIs
<1>3. /\ u \in Seq(D) /\ Len(u) = Len(t) + 1 /\ u[Len(t) + 1] = e /\ \A i \in 1..Len(t) : u[i] = t[i]
      OBVIOUS
<1>   HIDE DEF u, n
<1>4. /\ a \in Seq(D) /\ Len(a) = Len(t) - n /\ \A i \in 1..(Len(t) - n) : a[i] = t[n + i]
      BY <1>2
<1>5. /\ b \in Seq(D) /\ Len(b) = Len(t) + 1 - n /\ \A i \in 1..(Len(t) + 1 - n) : b[i] = u[n + i]
      BY <1>2, <1>3
<1>   HIDE DEF a, b
<1>6. b = Append(a, e)
  <2>   DEFINE c == Append(a, e)
  <2>1. /\ c \in Seq(D) /\ Len(c) = Len(a) + 1 /\ c[Len(a) + 1] = e
        /\ \A i \in 1..Len(a) : c[i] = a[i]
        BY <1>4, Longer
  <2>   HIDE DEF c
  <2>2. Len(c) = Len(t) + 1 - n /\ Len(a) + 1 = Len(t) + 1 - n
        BY <1>2, <1>4, <2>1
  <2>3. ASSUME NEW i \in 1..(Len(t) + 1 - n) PROVE b[i] = c[i]
    <3>1. CASE i \in 1..(Len(t) - n)
      <4>1. n + i \in 1..Len(t) /\ i \in 1..Len(a) /\ i \in 1..(Len(t) + 1 - n)
            BY <1>2, <1>4, <3>1
      <4>2. a[i] = t[n + i] /\ c[i] = a[i] /\ b[i] = u[n + i]
            BY <1>4, <1>5, <2>1, <3>1, <4>1
      <4>   QED  BY <1>3, <4>1, <4>2
    <3>2. CASE i = Len(t) + 1 - n
          BY <1>2, <1>3, <1>4, <1>5, <2>1, <3>2
    <3>   QED  BY <1>2, <3>1, <3>2
  <2>4. b \in Seq(D) /\ c \in Seq(D) /\ Len(b) = Len(c) /\ \A i \in 1..Len(b) : b[i] = c[i]
        BY <1>5, <2>1, <2>2, <2>3
  <2>5. b = c
        BY <2>4, SameSequence
  <2>   QED  BY <2>5 DEF c
<1>7. new \o Append(a, e) = Append(new \o a, e)
      BY <1>4
<1>   QED  BY <1>1, <1>6, <1>7 DEF RewritePath, u, n, a, b

--------------------------------------------------------------------------------
(* The tree                                                                   *)

LEMMA RootStays ==
  ASSUME NEW rows, IsTree(rows)
  PROVE  rows[Root].parent = 0 /\ rows[Root].path = <<>>
<1>   DEFINE root == [parent |-> 0, directory |-> "", path |-> <<>>]
<1>1. rows[Root] = root
      BY DEF IsTree
<1>2. root.parent = 0 /\ root.path = <<>>
      OBVIOUS
<1>   HIDE DEF root
<1>   QED  BY <1>1, <1>2

LEMMA SitesStart ==
  ASSUME SitesInit
  PROVE  SitesInv
<1>   DEFINE root == [parent |-> 0, directory |-> "", path |-> <<>>]
<1>1. categories = [n \in {1} |-> root] /\ DOMAIN categories = {1} /\ categories[1] = root
      BY DEF SitesInit, Root
<1>2. root \in Category /\ 1 \in Ids
      BY SitesAssumption DEF Category, Ids
<1>3. CategoryTypes
      BY <1>1, <1>2 DEF CategoryTypes, Root
<1>4. IsTree(categories)
      BY <1>1 DEF IsTree, Root
<1>5. FilingTypes
  <2>1. filed = [d \in Document |-> <<>>] /\ <<>> \in Seq(Ids)
    <3>1. filed = [d \in Document |-> <<>>]
          BY DEF SitesInit
    <3>   QED  BY <3>1
  <2>2. ToSet(<<>>) = {}
        BY DEF ToSet
  <2>3. Idle \in SiteRequestType
        BY DEF Idle, SiteRequestType
  <2>4. siteRequests = [r \in SiteRequest |-> Idle]
        BY DEF SitesInit
  <2>5. filed \in [Document -> Seq(Ids)] /\ \A d \in Document : ToSet(filed[d]) \subseteq DOMAIN categories
        BY <2>1, <2>2
  <2>   QED  BY <2>3, <2>4, <2>5 DEF FilingTypes
<1>   QED  BY <1>3, <1>4, <1>5 DEF SitesInv

\* A request that ends, or that has read another row.
LEMMA RequestTypes ==
  ASSUME FilingTypes, NEW r \in SiteRequest, NEW req \in SiteRequestType,
         siteRequests' = [siteRequests EXCEPT ![r] = req]
  PROVE  siteRequests' \in [SiteRequest -> SiteRequestType]
BY DEF FilingTypes

LEMMA FreeType == Idle \in SiteRequestType
BY DEF Idle, SiteRequestType

\* A step that leaves the categories and what is filed in them.
LEMMA Reads ==
  ASSUME SitesInv, UNCHANGED <<categories, filed>>, siteRequests' \in [SiteRequest -> SiteRequestType]
  PROVE  SitesInv'
BY DEF SitesInv, CategoryTypes, FilingTypes, IsTree

LEMMA CreateKeeps ==
  ASSUME SitesInv, NEW p \in DOMAIN categories, NEW d \in Directory,
         JoinPath(categories[p].path, d) \notin Paths, NextId <= MaxCategories,
         categories' = [n \in DOMAIN categories \cup {NextId} |->
                          IF n = NextId THEN [parent |-> p, directory |-> d, path |-> JoinPath(categories[p].path, d)]
                          ELSE categories[n]]
  PROVE  CategoryTypes' /\ IsTree(categories')
<1>   DEFINE new == NextId
             path == Append(categories[p].path, d)
             row == [parent |-> p, directory |-> d, path |-> path]
<1>1. new \in Ids /\ new \notin DOMAIN categories /\ new # Root /\ p # new
  <2>1. /\ new \in Nat /\ new \notin DOMAIN categories /\ new # Root
        /\ \A c \in DOMAIN categories : c < new
        BY SitesAssumption, NewId DEF SitesInv
  <2>2. 1 < new /\ new <= MaxCategories
        BY <2>1 DEF SitesInv, CategoryTypes, Root
  <2>   HIDE DEF new
  <2>   QED  BY SitesAssumption, <2>1, <2>2 DEF Ids
<1>2. categories[p] \in Category /\ p \in 0..MaxCategories
      BY SitesAssumption DEF SitesInv, CategoryTypes, Ids
<1>3. path \in Seq(Directory) /\ row \in Category
  <2>1. categories[p].path \in Seq(Directory)
        BY <1>2 DEF Category
  <2>2. path \in Seq(Directory)
        BY <2>1, Longer
  <2>   HIDE DEF path
  <2>   QED  BY <1>2, <2>2 DEF Category
<1>4. path \notin Paths
      BY DEF JoinPath
<1>   HIDE DEF new, path
<1>5. /\ DOMAIN categories' = DOMAIN categories \cup {new} /\ categories'[new] = row
      /\ \A n \in DOMAIN categories : categories'[n] = categories[n]
      /\ categories' = [n \in DOMAIN categories' |-> categories'[n]]
      BY <1>1 DEF JoinPath, new, path
<1>6. CategoryTypes'
  <2>1. \A n \in DOMAIN categories' : categories'[n] \in Category
        BY <1>3, <1>5 DEF SitesInv, CategoryTypes
  <2>2. categories' \in [DOMAIN categories' -> Category]
        BY <1>5, <2>1
  <2>   QED  BY <1>1, <1>5, <2>2 DEF SitesInv, CategoryTypes
<1>7. IsTree(categories')
  <2>1. IsTree(categories) /\ Root \in DOMAIN categories
        BY DEF SitesInv, CategoryTypes
  <2>2. categories'[Root] = [parent |-> 0, directory |-> "", path |-> <<>>]
        BY <1>5, <2>1 DEF IsTree
  <2>3. ASSUME NEW c \in DOMAIN categories' \ {Root}
        PROVE  /\ categories'[c].parent \in DOMAIN categories' /\ categories'[c].directory \in Directory
               /\ categories'[c].path = Append(categories'[categories'[c].parent].path, categories'[c].directory)
    <3>1. CASE c = new
      <4>1. row.parent = p /\ row.directory = d /\ row.path = path
            OBVIOUS
      <4>2. categories'[c] = row /\ p \in DOMAIN categories' /\ categories'[p] = categories[p]
            BY <1>5, <3>1
      <4>   QED  BY <4>1, <4>2 DEF path
    <3>2. CASE c # new
      <4>1. c \in DOMAIN categories \ {Root} /\ categories'[c] = categories[c]
            BY <1>5, <3>2
      <4>2. /\ categories[c].parent \in DOMAIN categories /\ categories[c].directory \in Directory
            /\ categories[c].path = Append(categories[categories[c].parent].path, categories[c].directory)
            BY <2>1, <4>1 DEF IsTree
      <4>   QED  BY <1>5, <4>1, <4>2
    <3>   QED  BY <3>1, <3>2
  <2>4. \A n \in DOMAIN categories : categories[n].path # path
        BY <1>4 DEF Paths
  <2>5. ASSUME NEW a \in DOMAIN categories', NEW b \in DOMAIN categories', categories'[a].path = categories'[b].path
        PROVE  a = b
    <3>1. \A n \in DOMAIN categories' : categories'[n].path = IF n = new THEN path ELSE categories[n].path
          BY <1>5
    <3>2. \A m, n \in DOMAIN categories : categories[m].path = categories[n].path => m = n
          BY <2>1 DEF IsTree
    <3>   QED  BY <1>5, <2>4, <2>5, <3>1, <3>2
  <2>   QED  BY <2>2, <2>3, <2>5 DEF IsTree
<1>   QED  BY <1>6, <1>7

\* What a move makes of every row: only the row that moves gets another parent
\* or name, and every path is again the one of its parent with its name.
MovedRow(n, c, p, d) ==
  LET row == categories[c]
      path == Append(categories[p].path, d)
  IN  [parent    |-> IF n = c THEN p ELSE categories[n].parent,
       directory |-> IF n = c THEN d ELSE categories[n].directory,
       path      |-> RewritePath(categories[n].path, row.path, path)]

LEMMA Moved ==
  ASSUME SitesInv, NEW c \in DOMAIN categories, NEW p \in DOMAIN categories, NEW d \in Directory,
         MoveTo(c, p, d)
  PROVE  /\ c # Root /\ p # c /\ ~IsDescendantPath(categories[c].path, categories[p].path)
         /\ Append(categories[p].path, d) # categories[c].path
         /\ DOMAIN categories' = DOMAIN categories
         /\ \A n \in DOMAIN categories : categories'[n] = MovedRow(n, c, p, d)
         /\ categories' = [n \in DOMAIN categories' |-> categories'[n]]
         /\ \A a, b \in DOMAIN categories' : categories'[a].path = categories'[b].path => a = b
<1>   DEFINE row == categories[c]
             path == Resolve(row, categories[p], d)
             rows == [categories EXCEPT ![c] = [@ EXCEPT !.parent = p, !.directory = d]]
             moved == moveSubtree(rows, row.path, path)
<1>1. path # NoPath /\ path # row.path /\ categories' = moved
      /\ \A a, b \in DOMAIN moved : moved[a].path = moved[b].path => a = b
      BY DEF MoveTo
<1>2. row.parent # 0 /\ ~IsDescendantPath(row.path, categories[p].path) /\ path = Append(categories[p].path, d)
      BY <1>1 DEF Resolve, JoinPath
<1>3. c # Root
  <2>1. IsTree(categories)
        BY DEF SitesInv
  <2>2. categories[Root].parent = 0
        BY <2>1, RootStays
  <2>   QED  BY <1>2, <2>2
<1>4. p # c
  <2>1. row.path \in Seq(Directory)
        BY DEF SitesInv, CategoryTypes, Category
  <2>2. IsDescendantPath(row.path, row.path)
        BY <2>1, PrefixIs
  <2>   QED  BY <1>2, <2>2
<1>   HIDE DEF path
<1>5. /\ categories \in [DOMAIN categories -> Category] /\ DOMAIN rows = DOMAIN categories
      /\ \A n \in DOMAIN categories : rows[n] = [parent |-> IF n = c THEN p ELSE categories[n].parent,
                                                directory |-> IF n = c THEN d ELSE categories[n].directory,
                                                path |-> categories[n].path]
  <2>1. categories \in [DOMAIN categories -> Category]
        BY DEF SitesInv, CategoryTypes
  <2>2. \A n \in DOMAIN categories : categories[n] = [parent |-> categories[n].parent,
                              directory |-> categories[n].directory, path |-> categories[n].path]
        BY <2>1 DEF Category
  <2>   QED  BY <2>1, <2>2 DEF Category
<1>   HIDE DEF rows
<1>6. /\ DOMAIN moved = DOMAIN categories /\ moved = [n \in DOMAIN categories |-> moved[n]]
      /\ \A n \in DOMAIN categories : moved[n] = [rows[n] EXCEPT !.path = RewritePath(@, row.path, path)]
      BY <1>5 DEF moveSubtree
<1>   HIDE DEF moved
<1>7. \A n \in DOMAIN categories : moved[n] = MovedRow(n, c, p, d)
      BY <1>2, <1>5, <1>6 DEF MovedRow
<1>   QED  BY <1>1, <1>2, <1>3, <1>4, <1>6, <1>7

LEMMA RootIsUnnamed ==
  ASSUME NEW rows, IsTree(rows)
  PROVE  rows[Root].directory = ""
<1>   DEFINE root == [parent |-> 0, directory |-> "", path |-> <<>>]
<1>1. rows[Root] = root
      BY DEF IsTree
<1>2. root.directory = ""
      OBVIOUS
<1>   HIDE DEF root
<1>   QED  BY <1>1, <1>2

LEMMA RowFields ==
  ASSUME NEW x \in Category
  PROVE  x.parent \in 0..MaxCategories /\ x.directory \in Directory \cup {""} /\ x.path \in Seq(Directory)
BY DEF Category

LEMMA RowOf ==
  ASSUME NEW q \in 0..MaxCategories, NEW e \in Directory \cup {""}, NEW t \in Seq(Directory)
  PROVE  [parent |-> q, directory |-> e, path |-> t] \in Category
BY DEF Category

LEMMA MoveKeeps ==
  ASSUME SitesInv, NEW c \in DOMAIN categories, NEW p \in DOMAIN categories, NEW d \in Directory,
         MoveTo(c, p, d)
  PROVE  CategoryTypes' /\ IsTree(categories')
<1>   DEFINE old == categories[c].path
             path == Append(categories[p].path, d)
<1>1. /\ c # Root /\ p # c /\ ~IsDescendantPath(old, categories[p].path) /\ path # old
      /\ DOMAIN categories' = DOMAIN categories
      /\ \A n \in DOMAIN categories : categories'[n] = MovedRow(n, c, p, d)
      /\ categories' = [n \in DOMAIN categories' |-> categories'[n]]
      /\ \A a, b \in DOMAIN categories' : categories'[a].path = categories'[b].path => a = b
      BY Moved
<1>2. /\ IsTree(categories) /\ Root \in DOMAIN categories /\ DOMAIN categories \subseteq Ids
      /\ Ids \subseteq 0..MaxCategories
      /\ \A n \in DOMAIN categories : categories[n] \in Category
      BY DEF SitesInv, CategoryTypes, Ids
<1>3. \A n \in DOMAIN categories : categories[n].path \in Seq(Directory)
      BY <1>2 DEF Category
<1>4. old \in Seq(Directory) /\ path \in Seq(Directory)
  <2>1. categories[p].path \in Seq(Directory)
        BY <1>3
  <2>2. path \in Seq(Directory)
        BY <2>1, Longer
  <2>   QED  BY <1>3, <2>2
<1>   HIDE DEF old, path
<1>5.  /\ \A t \in Seq(Directory) : /\ RewritePath(t, old, path) \in Seq(Directory)
                                    /\ ~IsDescendantPath(old, t) => RewritePath(t, old, path) = t
       /\ RewritePath(old, old, path) = path
      BY <1>4, Rewritten
<1>6.  \A t \in Seq(Directory), e \in Directory : IsDescendantPath(old, t) =>
         RewritePath(Append(t, e), old, path) = Append(RewritePath(t, old, path), e)
      BY <1>4, ChildRewritten
<1>7.  \A t \in Seq(Directory), e \in Directory :
         IsDescendantPath(old, Append(t, e)) => old = Append(t, e) \/ IsDescendantPath(old, t)
      BY <1>4, PrefixOfChild
<1>8. \A n \in DOMAIN categories :
        /\ categories'[n] = [parent |-> IF n = c THEN p ELSE categories[n].parent,
                             directory |-> IF n = c THEN d ELSE categories[n].directory,
                             path |-> RewritePath(categories[n].path, old, path)]
        /\ categories'[n].parent = IF n = c THEN p ELSE categories[n].parent
        /\ categories'[n].directory = IF n = c THEN d ELSE categories[n].directory
        /\ categories'[n].path = RewritePath(categories[n].path, old, path)
      BY <1>1 DEF MovedRow, old, path
<1>9. CategoryTypes'
  <2>1. ASSUME NEW n \in DOMAIN categories PROVE categories'[n] \in Category
    <3>1. RewritePath(categories[n].path, old, path) \in Seq(Directory)
          BY <1>3, <1>5
    <3>2. p \in 0..MaxCategories
          BY <1>2
    <3>3. categories[n].parent \in 0..MaxCategories /\ categories[n].directory \in Directory \cup {""}
          BY <1>2, RowFields
    <3>4. /\ (IF n = c THEN p ELSE categories[n].parent) \in 0..MaxCategories
          /\ (IF n = c THEN d ELSE categories[n].directory) \in Directory \cup {""}
          BY <3>2, <3>3
    <3>   QED  BY <1>8, <3>1, <3>4, RowOf
  <2>2. categories' \in [DOMAIN categories' -> Category]
        BY <1>1, <2>1
  <2>   QED  BY <1>1, <1>2, <2>2 DEF CategoryTypes
<1>10. \A n \in DOMAIN categories :
        ~IsDescendantPath(old, categories[n].path) => categories'[n].path = categories[n].path
      BY <1>3, <1>8, <1>5
<1>11. categories'[Root] = [parent |-> 0, directory |-> "", path |-> <<>>]
  <2>1. /\ categories[Root].parent = 0 /\ categories[Root].path = <<>> /\ categories[Root].directory = ""
        BY <1>2, RootStays, RootIsUnnamed
  <2>2. Len(old) > 0
    <3>1. /\ old = Append(categories[categories[c].parent].path, categories[c].directory)
          /\ categories[c].parent \in DOMAIN categories /\ categories[c].directory \in Directory
          BY <1>1, <1>2 DEF IsTree, old
    <3>2. categories[categories[c].parent].path \in Seq(Directory)
          BY <1>3, <3>1
    <3>   QED  BY <3>1, <3>2, Longer
  <2>3. ~IsDescendantPath(old, <<>>)
    <3>1. Len(<<>>) = 0 /\ Len(old) \in Nat
          BY <1>4
    <3>2. ~(Len(old) <= Len(<<>>))
          BY <2>2, <3>1
    <3>   QED  BY <3>2 DEF IsDescendantPath, IsPrefix
  <2>4. categories'[Root].path = <<>>
        BY <1>2, <1>10, <2>1, <2>3
  <2>5. categories'[Root] = [parent |-> categories[Root].parent, directory |-> categories[Root].directory,
                               path |-> RewritePath(categories[Root].path, old, path)]
        BY <1>1, <1>2, <1>8
  <2>6. RewritePath(categories[Root].path, old, path) = <<>>
        BY <1>2, <1>8, <2>4
  <2>   QED  BY <2>1, <2>5, <2>6
<1>12. ASSUME NEW n \in DOMAIN categories' \ {Root}
      PROVE  /\ categories'[n].parent \in DOMAIN categories' /\ categories'[n].directory \in Directory
             /\ categories'[n].path = Append(categories'[categories'[n].parent].path, categories'[n].directory)
  <2>1. CASE n = c
    <3>1. categories'[n].parent = p /\ categories'[n].directory = d /\ categories'[n].path = path
      <4>1. categories'[n].path = RewritePath(old, old, path)
            BY <1>8, <2>1 DEF old
      <4>   QED  BY <1>8, <1>5, <2>1, <4>1
    <3>2. categories'[p].path = categories[p].path
          BY <1>1, <1>10
    <3>   QED  BY <1>1, <3>1, <3>2 DEF path
  <2>2. CASE n # c
    <3>   DEFINE m == categories[n].parent
                 e == categories[n].directory
    <3>1. /\ m \in DOMAIN categories /\ e \in Directory
          /\ categories[n].path = Append(categories[m].path, e)
          BY <1>1, <1>2 DEF IsTree
    <3>2. categories'[n].parent = m /\ categories'[n].directory = e
          BY <1>1, <1>8, <2>2
    <3>3. categories[n].path # old
          BY <1>1, <1>2, <2>2 DEF IsTree, old
    <3>   HIDE DEF m, e
    <3>4. categories'[n].path = Append(categories'[m].path, e)
      <4>1. CASE IsDescendantPath(old, categories[m].path)
        <5>   DEFINE t == categories[m].path
        <5>1. t \in Seq(Directory) /\ IsDescendantPath(old, t)
              BY <1>3, <3>1, <4>1
        <5>2. categories'[n].path = RewritePath(Append(t, e), old, path) /\ categories'[m].path = RewritePath(t, old, path)
              BY <1>1, <1>8, <3>1
        <5>   HIDE DEF t
        <5>   QED  BY <1>6, <3>1, <5>1, <5>2
      <4>2. CASE ~IsDescendantPath(old, categories[m].path)
        <5>1. ~IsDescendantPath(old, categories[n].path)
          <6>1. categories[m].path \in Seq(Directory)
                BY <1>3, <3>1
          <6>   QED  BY <1>7, <3>1, <3>3, <4>2, <6>1
        <5>   QED  BY <1>1, <1>10, <3>1, <4>2, <5>1
      <4>   QED  BY <4>1, <4>2
    <3>   QED  BY <1>1, <3>1, <3>2, <3>4
  <2>   QED  BY <2>1, <2>2
<1>   QED  BY <1>1, <1>9, <1>11, <1>12 DEF IsTree

\* A category goes that nobody is below and nothing is filed in.
LEMMA DeleteKeeps ==
  ASSUME SitesInv, NEW c, Deletable(c),
         categories' = [n \in DOMAIN categories \ {c} |-> categories[n]],
         filed' = [d \in Document |-> IF d \in FiledIn(c) THEN Remove(filed[d], c) ELSE filed[d]]
  PROVE  /\ CategoryTypes' /\ IsTree(categories') /\ filed' = filed
         /\ \A d \in Document : ToSet(filed[d]) \subseteq DOMAIN categories'
         /\ c # Root
<1>1. /\ c \in DOMAIN categories /\ categories[c].parent # 0
      /\ \A n \in DOMAIN categories : categories[n].parent # c
      /\ FiledIn(c) = {}
      BY DEF Deletable, Children
<1>2. /\ IsTree(categories) /\ Root \in DOMAIN categories /\ DOMAIN categories \subseteq Ids
      /\ \A n \in DOMAIN categories : categories[n] \in Category
      /\ filed \in [Document -> Seq(Ids)]
      /\ \A d \in Document : ToSet(filed[d]) \subseteq DOMAIN categories
      BY DEF SitesInv, CategoryTypes, FilingTypes
<1>3. c # Root
      BY <1>1, <1>2, RootStays
<1>4. /\ DOMAIN categories' = DOMAIN categories \ {c}
      /\ \A n \in DOMAIN categories' : categories'[n] = categories[n]
      /\ categories' = [n \in DOMAIN categories' |-> categories'[n]]
      OBVIOUS
<1>5. CategoryTypes'
      BY <1>2, <1>3, <1>4 DEF CategoryTypes
<1>6. IsTree(categories')
  <2>1. categories'[Root] = [parent |-> 0, directory |-> "", path |-> <<>>]
        BY <1>2, <1>3, <1>4 DEF IsTree
  <2>2. ASSUME NEW n \in DOMAIN categories' \ {Root}
        PROVE  /\ categories'[n].parent \in DOMAIN categories' /\ categories'[n].directory \in Directory
               /\ categories'[n].path = Append(categories'[categories'[n].parent].path, categories'[n].directory)
    <3>1. /\ categories[n].parent \in DOMAIN categories /\ categories[n].directory \in Directory
          /\ categories[n].path = Append(categories[categories[n].parent].path, categories[n].directory)
          BY <1>2, <1>4 DEF IsTree
    <3>   QED  BY <1>1, <1>4, <3>1
  <2>3. \A a, b \in DOMAIN categories' : categories'[a].path = categories'[b].path => a = b
        BY <1>2, <1>4 DEF IsTree
  <2>   QED  BY <2>1, <2>2, <2>3 DEF IsTree
<1>7. filed' = filed
      BY <1>1, <1>2
<1>8. \A d \in Document : ToSet(filed[d]) \subseteq DOMAIN categories'
  <2>   SUFFICES ASSUME NEW d \in Document PROVE c \notin ToSet(filed[d])
        BY <1>2, <1>4
  <2>   QED  BY <1>1 DEF FiledIn, ToSet
<1>   QED  BY <1>3, <1>5, <1>6, <1>7, <1>8

LEMMA FileKeeps ==
  ASSUME SitesInv, NEW id, NEW ids \in Seq(Ids), ToSet(ids) \subseteq DOMAIN categories,
         SetCategories(id, ids), UNCHANGED categories
  PROVE  filed' \in [Document -> Seq(Ids)] /\ \A d \in Document : ToSet(filed'[d]) \subseteq DOMAIN categories'
<1>1. /\ filed \in [Document -> Seq(Ids)] /\ \A d \in Document : ToSet(filed[d]) \subseteq DOMAIN categories
      /\ filed' = [filed EXCEPT ![id] = ids]
      BY DEF SitesInv, FilingTypes, SetCategories
<1>   QED  BY <1>1

\* What a request reads is of its type.
LEMMA OneMoreRead ==
  ASSUME NEW req \in SiteRequestType, NEW c \in Ids
  PROVE  [req EXCEPT !.ids = Append(@, c)] \in SiteRequestType
<1>1. Append(req.ids, c) \in Seq(Ids)
      BY Longer DEF SiteRequestType
<1>2. [req EXCEPT !.ids = Append(@, c)] = [op |-> req.op, id |-> req.id, ids |-> Append(req.ids, c)]
      BY DEF SiteRequestType
<1>   QED  BY <1>1, <1>2 DEF SiteRequestType

LEMMA ReadsOf ==
  ASSUME NEW req \in SiteRequestType, NEW i \in Nat \cup Document, NEW op \in {"category", "file"}
  PROVE  [req EXCEPT !.op = op, !.id = i] \in SiteRequestType
BY DEF SiteRequestType

LEMMA Asked ==
  ASSUME SitesInv, NEW r \in SiteRequest,
         \/ FindCategory(r) \/ CreateCategory(r) \/ MoveCategory(r) \/ DeleteCategory(r)
         \/ ReadFiling(r) \/ FileDocument(r) \/ GiveUp(r)
  PROVE  \E req \in SiteRequestType : siteRequests' = [siteRequests EXCEPT ![r] = req]
<1>1. siteRequests[r] \in SiteRequestType /\ DOMAIN categories \subseteq Ids
      BY DEF SitesInv, CategoryTypes, FilingTypes
<1>2. CASE FindCategory(r)
  <2>1. PICK c \in DOMAIN categories : siteRequests' = [siteRequests EXCEPT ![r] = [Idle EXCEPT !.op = "category", !.id = c]]
        BY <1>2 DEF FindCategory, Goes
  <2>2. [Idle EXCEPT !.op = "category", !.id = c] \in SiteRequestType
    <3>1. c \in Nat
          BY <1>1 DEF Ids
    <3>   QED  BY <3>1, FreeType, ReadsOf
  <2>   QED  BY <2>1, <2>2
<1>3. CASE ReadFiling(r)
  <2>1. CASE \E d \in Document : Goes(r, "free", [Idle EXCEPT !.op = "file", !.id = d])
    <3>1. PICK d \in Document : siteRequests' = [siteRequests EXCEPT ![r] = [Idle EXCEPT !.op = "file", !.id = d]]
          BY <2>1 DEF Goes
    <3>2. [Idle EXCEPT !.op = "file", !.id = d] \in SiteRequestType
          BY FreeType, ReadsOf
    <3>   QED  BY <3>1, <3>2
  <2>2. CASE \E c \in DOMAIN categories : Goes(r, "file", [siteRequests[r] EXCEPT !.ids = Append(@, c)])
    <3>1. PICK c \in DOMAIN categories : siteRequests' = [siteRequests EXCEPT ![r] = [siteRequests[r] EXCEPT !.ids = Append(@, c)]]
          BY <2>2 DEF Goes
    <3>   QED  BY <1>1, <3>1, OneMoreRead
  <2>   QED  BY <1>3, <2>1, <2>2 DEF ReadFiling
<1>4. CASE ~(FindCategory(r) \/ ReadFiling(r))
      BY <1>4, FreeType DEF CreateCategory, MoveCategory, DeleteCategory, FileDocument, GiveUp, Goes, Ends
<1>   QED  BY <1>2, <1>3, <1>4

\* The step of a request that creates a category, when it is not refused.
LEMMA Created ==
  ASSUME SitesInv, NEW r \in SiteRequest, CreateCategory(r), ~UNCHANGED <<categories, filed>>
  PROVE  /\ CategoryTypes' /\ IsTree(categories') /\ UNCHANGED filed
         /\ DOMAIN categories \subseteq DOMAIN categories'
<1>1. PICK p \in DOMAIN categories, d \in Directory :
        /\ JoinPath(categories[p].path, d) \notin Paths /\ NextId <= MaxCategories
        /\ categories' = [n \in DOMAIN categories \cup {NextId} |->
                             IF n = NextId THEN [parent |-> p, directory |-> d, path |-> JoinPath(categories[p].path, d)]
                             ELSE categories[n]]
        /\ UNCHANGED filed
      BY DEF CreateCategory, Refused
<1>2. CategoryTypes' /\ IsTree(categories')
      BY <1>1, CreateKeeps
<1>   QED  BY <1>1, <1>2

LEMMA SitesStep ==
  ASSUME SitesInv, [SitesNext]_sitesVars
  PROVE  SitesInv'
<1>1. CASE UNCHANGED sitesVars
      BY <1>1 DEF sitesVars, SitesInv, CategoryTypes, FilingTypes, IsTree
<1>2. CASE UpdateSite \/ UpdateElementType \/ UpdateOutputChannel
      BY <1>2 DEF UpdateSite, UpdateElementType, UpdateOutputChannel, SitesInv, CategoryTypes, FilingTypes, IsTree
<1>3. ASSUME NEW r \in SiteRequest,
             \/ FindCategory(r) \/ CreateCategory(r) \/ MoveCategory(r) \/ DeleteCategory(r)
             \/ ReadFiling(r) \/ FileDocument(r) \/ GiveUp(r)
      PROVE  SitesInv'
  <2>1. FilingTypes /\ siteRequests[r] \in SiteRequestType /\ siteRequests[r].ids \in Seq(Ids)
        BY DEF SitesInv, FilingTypes, SiteRequestType
  <2>2. siteRequests' \in [SiteRequest -> SiteRequestType]
    <3>1. \E req \in SiteRequestType : siteRequests' = [siteRequests EXCEPT ![r] = req]
          BY <1>3, <2>1, Asked DEF SitesInv
    <3>   QED  BY <2>1, <3>1, RequestTypes
  <2>3. CASE UNCHANGED <<categories, filed>>
        BY <2>2, <2>3, Reads
  <2>4. CASE ~UNCHANGED <<categories, filed>>
    <3>1. CASE CreateCategory(r)
      <4>1. CategoryTypes' /\ IsTree(categories') /\ UNCHANGED filed /\ DOMAIN categories \subseteq DOMAIN categories'
            BY <2>4, <3>1, Created
      <4>   QED  BY <2>1, <2>2, <4>1 DEF SitesInv, FilingTypes
    <3>2. CASE MoveCategory(r)
      <4>1. PICK c \in DOMAIN categories, p \in DOMAIN categories, d \in Directory : MoveTo(c, p, d) /\ UNCHANGED filed
            BY <2>4, <3>2 DEF MoveCategory, Refused
      <4>2. CategoryTypes' /\ IsTree(categories') /\ DOMAIN categories' = DOMAIN categories
            BY <4>1, MoveKeeps, Moved
      <4>   QED  BY <2>1, <2>2, <4>1, <4>2 DEF SitesInv, FilingTypes
    <3>3. CASE DeleteCategory(r)
      <4>1. CategoryTypes' /\ IsTree(categories') /\ filed' = filed
            /\ \A d \in Document : ToSet(filed[d]) \subseteq DOMAIN categories'
            BY <2>4, <3>3, DeleteKeeps DEF DeleteCategory, Refused
      <4>   QED  BY <2>1, <2>2, <4>1 DEF SitesInv, FilingTypes
    <3>4. CASE FileDocument(r)
      <4>1. /\ ToSet(siteRequests[r].ids) \subseteq DOMAIN categories /\ UNCHANGED categories
            /\ SetCategories(siteRequests[r].id, siteRequests[r].ids)
            BY <2>4, <3>4 DEF FileDocument, Refused
      <4>2. filed' \in [Document -> Seq(Ids)] /\ \A d \in Document : ToSet(filed'[d]) \subseteq DOMAIN categories'
            BY <2>1, <4>1, FileKeeps
      <4>   QED  BY <2>2, <4>1, <4>2 DEF SitesInv, FilingTypes, CategoryTypes, IsTree
    <3>5. CASE FindCategory(r) \/ ReadFiling(r) \/ GiveUp(r)
          BY <2>4, <3>5 DEF FindCategory, ReadFiling, GiveUp, Refused
    <3>   QED  BY <1>3, <3>1, <3>2, <3>3, <3>4, <3>5
  <2>   QED  BY <2>3, <2>4
<1>   QED  BY <1>1, <1>2, <1>3 DEF SitesNext

\* The inductive invariant of the categories and what is filed in them.
LEMMA SitesInvariant == SitesSpec => []SitesInv
<1>1. SitesInit => SitesInv
      BY SitesStart
<1>2. SitesInv /\ [SitesNext]_sitesVars => SitesInv'
      BY SitesStep
<1>   QED  BY <1>1, <1>2, PTL DEF SitesSpec

\* However many siteRequests create, move and delete categories at once, and whichever
\* ids they find used again: every path is the walk up from its row, and no two
\* rows have the same (moveSubtree and JoinPath against store/categories.go).
THEOREM PathsFollowTheTree == SitesSpec => []PathsAreTheTree
<1>1. SitesInv => PathsAreTheTree
      BY DEF SitesInv, IsTree, PathsAreTheTree
<1>   QED  BY <1>1, SitesInvariant, PTL

--------------------------------------------------------------------------------
(* Addresses                                                                  *)

\* Where a document is filed first there is a category.
LEMMA PrimaryIsThere ==
  ASSUME SitesInv, NEW d \in Document, filed[d] # <<>>
  PROVE  filed[d][1] \in DOMAIN categories
<1>1. filed[d] \in Seq(Ids) /\ ToSet(filed[d]) \subseteq DOMAIN categories
      BY DEF SitesInv, FilingTypes
<1>2. 1 \in DOMAIN filed[d]
      BY <1>1
<1>   QED  BY <1>1, <1>2 DEF ToSet

\* An address is what it was unless one of its parts changes.
LEMMA AddressStays ==
  ASSUME NEW d \in Document, filed'[d] = filed[d], UNCHANGED settings,
         filed[d] # <<>> => categories'[filed[d][1]].path = categories[filed[d][1]].path
  PROVE  Address(d)' = Address(d)
<1>1. CASE filed[d] = <<>>
      BY <1>1 DEF Address
<1>2. CASE filed[d] # <<>>
      BY <1>2 DEF Address, settings
<1>   QED  BY <1>1, <1>2

\* Told of a change of the address of d.
Told(d) ==
  /\ events' = events + 1
  /\ CASE lastEvent'.type = "document.filed" -> lastEvent'.id = d
       [] lastEvent'.type = "category.moved" ->
            IsPrefix(categories[lastEvent'.id].path, categories[filed[d][1]].path)
       [] OTHER -> lastEvent'.type \in {"site.updated", "output_channel.updated", "element_type.updated"}

LEMMA ToldOfSettings ==
  ASSUME NEW d, NEW e \in {"site.updated", "output_channel.updated", "element_type.updated"},
         recordEvent([type |-> e])
  PROVE  Told(d)
<1>1. events' = events + 1 /\ lastEvent'.type = e
      BY DEF recordEvent
<1>2. lastEvent'.type # "document.filed" /\ lastEvent'.type # "category.moved"
      BY <1>1
<1>   QED  BY <1>1, <1>2 DEF Told

LEMMA ToldOfFiling ==
  ASSUME NEW d, recordEvent([type |-> "document.filed", id |-> d])
  PROVE  Told(d)
<1>1. events' = events + 1 /\ lastEvent'.type = "document.filed" /\ lastEvent'.id = d
      BY DEF recordEvent
<1>2. lastEvent'.type # "category.moved"
      BY <1>1
<1>   QED  BY <1>1, <1>2 DEF Told

LEMMA ToldOfMove ==
  ASSUME NEW d, NEW c, recordEvent([type |-> "category.moved", id |-> c]),
         IsPrefix(categories[c].path, categories[filed[d][1]].path)
  PROVE  Told(d)
<1>1. events' = events + 1 /\ lastEvent'.type = "category.moved" /\ lastEvent'.id = c
      BY DEF recordEvent
<1>2. lastEvent'.type # "document.filed"
      BY <1>1
<1>   QED  BY <1>1, <1>2 DEF Told

LEMMA MoveTells ==
  ASSUME SitesInv, NEW d \in Document, NEW c \in DOMAIN categories, NEW p \in DOMAIN categories, NEW e \in Directory,
         MoveTo(c, p, e), recordEvent([type |-> "category.moved", id |-> c]), UNCHANGED <<filed, settings>>,
         Address(d)' # Address(d)
  PROVE  Told(d)
<1>   DEFINE n == filed[d][1]
             old == categories[c].path
             new == Append(categories[p].path, e)
<1>1. filed[d] # <<>> /\ categories'[n].path # categories[n].path
      BY AddressStays
<1>2. n \in DOMAIN categories
      BY <1>1, PrimaryIsThere
<1>3. categories[n].path \in Seq(Directory) /\ old \in Seq(Directory) /\ new \in Seq(Directory)
  <2>1. categories[n] \in Category /\ categories[c] \in Category /\ categories[p] \in Category
        BY <1>2 DEF SitesInv, CategoryTypes
  <2>2. categories[n].path \in Seq(Directory) /\ old \in Seq(Directory) /\ categories[p].path \in Seq(Directory)
        BY <2>1, RowFields
  <2>   QED  BY <2>2, Longer
<1>4. categories'[n].path = RewritePath(categories[n].path, old, new)
  <2>1. categories'[n] = MovedRow(n, c, p, e)
        BY <1>2, Moved
  <2>   QED  BY <2>1 DEF MovedRow
<1>5. IsDescendantPath(old, categories[n].path)
  <2>   HIDE DEF n, old, new
  <2>   QED  BY <1>1, <1>3, <1>4, Rewritten
<1>6. IsPrefix(old, categories[n].path)
      BY <1>5 DEF IsDescendantPath
<1>   QED  BY <1>6, ToldOfMove

LEMMA AddressStep ==
  ASSUME SitesInv, SitesNext, NEW d \in Document, Address(d)' # Address(d)
  PROVE  Told(d)
<1>1. ASSUME UNCHANGED <<filed, settings>>, \A n \in DOMAIN categories : categories'[n] = categories[n] PROVE FALSE
      BY <1>1, AddressStays, PrimaryIsThere
<1>2. CASE UpdateSite \/ UpdateElementType \/ UpdateOutputChannel
      BY <1>2, ToldOfSettings DEF UpdateSite, UpdateElementType, UpdateOutputChannel
<1>3. ASSUME NEW r \in SiteRequest, FindCategory(r) \/ ReadFiling(r) \/ GiveUp(r) PROVE FALSE
      BY <1>1, <1>3 DEF FindCategory, ReadFiling, GiveUp, Refused
<1>4. ASSUME NEW r \in SiteRequest, CreateCategory(r) PROVE FALSE
  <2>1. CASE Refused
        BY <1>1, <2>1 DEF Refused
  <2>2. CASE ~Refused
    <3>   DEFINE p == siteRequests[r].id
    <3>1. PICK e \in Directory : categories' = [n \in DOMAIN categories \cup {NextId} |->
                             IF n = NextId THEN [parent |-> p, directory |-> e, path |-> JoinPath(categories[p].path, e)]
                             ELSE categories[n]]
          BY <1>4, <2>2 DEF CreateCategory
    <3>2. NextId \notin DOMAIN categories
          BY SitesAssumption, NewId DEF SitesInv
    <3>   HIDE DEF NextId
    <3>3. \A n \in DOMAIN categories : categories'[n] = categories[n]
          BY <3>1, <3>2
    <3>4. UNCHANGED <<filed, settings>>
          BY <1>4, <2>2 DEF CreateCategory
    <3>   QED  BY <1>1, <3>3, <3>4
  <2>   QED  BY <2>1, <2>2
<1>5. ASSUME NEW r \in SiteRequest, MoveCategory(r) PROVE Told(d)
  <2>1. ~Refused
        BY <1>1 DEF Refused
  <2>2. PICK c \in DOMAIN categories, p \in DOMAIN categories, e \in Directory :
          /\ MoveTo(c, p, e) /\ recordEvent([type |-> "category.moved", id |-> c])
          /\ UNCHANGED <<filed, settings>>
        BY <1>5, <2>1 DEF MoveCategory
  <2>   QED  BY <2>2, MoveTells
<1>6. ASSUME NEW r \in SiteRequest, DeleteCategory(r) PROVE FALSE
  <2>1. ~Refused
        BY <1>1 DEF Refused
  <2>   DEFINE c == siteRequests[r].id
  <2>2. /\ Deletable(c) /\ categories' = [n \in DOMAIN categories \ {c} |-> categories[n]]
        /\ filed' = [x \in Document |-> IF x \in FiledIn(c) THEN Remove(filed[x], c) ELSE filed[x]]
        /\ UNCHANGED settings
        BY <1>6, <2>1 DEF DeleteCategory
  <2>   HIDE DEF c
  <2>3. filed' = filed /\ ToSet(filed[d]) \subseteq DOMAIN categories'
        BY <2>2, DeleteKeeps
  <2>4. ASSUME filed[d] # <<>> PROVE filed[d][1] \in DOMAIN categories'
    <3>1. filed[d] \in Seq(Ids)
          BY DEF SitesInv, FilingTypes
    <3>2. 1 \in DOMAIN filed[d]
          BY <2>4, <3>1
    <3>   QED  BY <2>3, <3>2 DEF ToSet
  <2>5. \A n \in DOMAIN categories' : categories'[n] = categories[n]
        BY <2>2
  <2>   QED  BY <2>2, <2>3, <2>4, <2>5, AddressStays
<1>7. ASSUME NEW r \in SiteRequest, FileDocument(r) PROVE Told(d)
  <2>1. ~Refused
        BY <1>1 DEF Refused
  <2>2. /\ SetCategories(siteRequests[r].id, siteRequests[r].ids) /\ UNCHANGED <<categories, settings>>
        /\ recordEvent([type |-> "document.filed", id |-> siteRequests[r].id])
        BY <1>7, <2>1 DEF FileDocument
  <2>3. CASE siteRequests[r].id = d
        BY <2>2, <2>3, ToldOfFiling
  <2>4. CASE siteRequests[r].id # d
    <3>1. filed'[d] = filed[d]
          BY <2>2, <2>4 DEF SetCategories, SitesInv, FilingTypes
    <3>   QED  BY <2>2, <3>1, AddressStays
  <2>   QED  BY <2>3, <2>4
<1>   QED  BY <1>2, <1>3, <1>4, <1>5, <1>6, <1>7 DEF SitesNext

\* No document gets another address in silence: the step that changes it records
\* the event that says why, of the document, of a category it is filed at or below,
\* or of the site, channel or element type (FileDocument, MoveCategory, UpdateSite).
THEOREM AddressChangesAreRecorded == SitesSpec => AddressChangesAreTold
<1>   DEFINE A == \A d \in Document : Address(d)' # Address(d) => Told(d)
<1>1. SitesInv /\ [SitesNext]_sitesVars => [A]_sitesVars
      BY AddressStep
<1>2. SitesSpec => [][A]_sitesVars
      BY <1>1, SitesInvariant, PTL DEF SitesSpec
<1>   QED  BY <1>2 DEF AddressChangesAreTold, Told

--------------------------------------------------------------------------------
(* Deciding by paths is walking the tree                                      *)

\* The tree that rows stand for.
Parents(rows) == [c \in DOMAIN rows \ {Root} |-> rows[c].parent]
Names(rows)   == [c \in DOMAIN rows \ {Root} |-> rows[c].directory]

\* Nobody has a name below a parent when no row has the path it would get.
LEMMA NotTaken ==
  ASSUME NEW rows, NEW p \in DOMAIN rows, NEW d, IsTree(rows),
         \A n \in DOMAIN rows \ {Root} : rows[n].path # Append(rows[p].path, d)
  PROVE  ~\E n \in DOMAIN Parents(rows) : Parents(rows)[n] = p /\ Names(rows)[n] = d
<1>   SUFFICES ASSUME NEW n \in DOMAIN rows \ {Root}, rows[n].parent = p, rows[n].directory = d PROVE FALSE
      BY DEF Parents, Names
<1>1. rows[n].path = Append(rows[rows[n].parent].path, rows[n].directory)
      BY DEF IsTree
<1>   QED  BY <1>1

LEMMA CreateAdds ==
  ASSUME SitesInv, NEW p \in DOMAIN categories, NEW d \in Directory,
         JoinPath(categories[p].path, d) \notin Paths, NextId <= MaxCategories,
         categories' = [n \in DOMAIN categories \cup {NextId} |->
                          IF n = NextId THEN [parent |-> p, directory |-> d, path |-> JoinPath(categories[p].path, d)]
                          ELSE categories[n]]
  PROVE  Tree!Add(NextId, p, d)
<1>   DEFINE new == NextId
             path == JoinPath(categories[p].path, d)
             Nodes == DOMAIN Parents(categories) \cup {Root}
<1>1. new \in Ids /\ new \notin DOMAIN categories /\ new # Root
  <2>1. /\ new \in Nat /\ new \notin DOMAIN categories /\ new # Root
        /\ \A c \in DOMAIN categories : c < new
        BY SitesAssumption, NewId DEF SitesInv
  <2>2. 1 < new /\ new <= MaxCategories
        BY <2>1 DEF SitesInv, CategoryTypes, Root
  <2>   HIDE DEF new
  <2>   QED  BY SitesAssumption, <2>1, <2>2 DEF Ids
<1>2. Nodes = DOMAIN categories /\ DOMAIN Parents(categories) = DOMAIN categories \ {Root}
      BY DEF Parents, SitesInv, CategoryTypes
<1>3. ~\E n \in DOMAIN Parents(categories) : Parents(categories)[n] = p /\ Names(categories)[n] = d
  <2>1. \A n \in DOMAIN categories : categories[n].path # Append(categories[p].path, d)
        BY DEF JoinPath, Paths
  <2>   QED  BY <2>1, NotTaken DEF SitesInv
<1>   HIDE DEF new, path
<1>4. /\ DOMAIN categories' = DOMAIN categories \cup {new}
      /\ categories'[new].parent = p /\ categories'[new].directory = d
      /\ \A n \in DOMAIN categories : categories'[n] = categories[n]
      BY <1>1 DEF new, path
<1>5. /\ Parents(categories') = [n \in DOMAIN Parents(categories) \cup {new} |->
                                   IF n = new THEN p ELSE Parents(categories)[n]]
      /\ Names(categories') = [n \in DOMAIN Parents(categories) \cup {new} |->
                                   IF n = new THEN d ELSE Names(categories)[n]]
      BY <1>1, <1>4 DEF Parents, Names
<1>6. new \in Ids \ Nodes /\ p \in Nodes
      BY <1>1, <1>2
<1>   QED  BY <1>3, <1>5, <1>6 DEF Tree!Add, Tree!Nodes, Tree!Taken, Parents, Names, new

LEMMA MoveMoves ==
  ASSUME SitesInv, NEW c \in DOMAIN categories, NEW p \in DOMAIN categories, NEW d \in Directory,
         MoveTo(c, p, d)
  PROVE  Tree!Move(c, p, d)
<1>   DEFINE old == categories[c].path
             path == Append(categories[p].path, d)
             Nodes == DOMAIN Parents(categories) \cup {Root}
<1>1. /\ c # Root /\ p # c /\ ~IsDescendantPath(old, categories[p].path) /\ path # old
      /\ DOMAIN categories' = DOMAIN categories
      /\ \A n \in DOMAIN categories : categories'[n] = MovedRow(n, c, p, d)
      /\ \A a, b \in DOMAIN categories' : categories'[a].path = categories'[b].path => a = b
      BY Moved
<1>2. IsTree(categories) /\ IsTree(categories') /\ Root \in DOMAIN categories
      BY MoveKeeps DEF SitesInv, CategoryTypes
<1>3. \A n \in DOMAIN categories : /\ categories'[n].parent = IF n = c THEN p ELSE categories[n].parent
                                   /\ categories'[n].directory = IF n = c THEN d ELSE categories[n].directory
      BY <1>1 DEF MovedRow
<1>4. Nodes = DOMAIN categories /\ DOMAIN Parents(categories) = DOMAIN categories \ {Root}
      BY <1>2 DEF Parents
<1>5. /\ Parents(categories') = [Parents(categories) EXCEPT ![c] = p]
      /\ Names(categories') = [Names(categories) EXCEPT ![c] = d]
      BY <1>1, <1>3 DEF Parents, Names
<1>6. ~\E n \in DOMAIN Parents(categories) : Parents(categories)[n] = p /\ Names(categories)[n] = d
  <2>1. ASSUME NEW n \in DOMAIN categories \ {Root}, categories[n].parent = p, categories[n].directory = d
        PROVE  FALSE
    <3>1. n # c
      <4>1. categories[n].path = path
            BY <1>2, <2>1 DEF IsTree
      <4>   QED  BY <1>1, <4>1
    <3>2. /\ categories'[n].path = Append(categories'[p].path, d)
          /\ categories'[c].path = Append(categories'[p].path, d)
      <4>1. /\ n \in DOMAIN categories' \ {Root} /\ categories'[n].parent = p /\ categories'[n].directory = d
            /\ c \in DOMAIN categories' \ {Root} /\ categories'[c].parent = p /\ categories'[c].directory = d
            BY <1>1, <1>3, <2>1, <3>1
      <4>   QED  BY <1>2, <4>1 DEF IsTree
    <3>   QED  BY <1>1, <3>1, <3>2
  <2>   QED  BY <2>1 DEF Parents, Names
<1>7. \E X \in SUBSET Nodes : /\ c \in X /\ p \notin X
                              /\ \A m \in DOMAIN Parents(categories) : Parents(categories)[m] \in X => m \in X
  <2>   DEFINE X == {n \in DOMAIN categories : IsDescendantPath(old, categories[n].path)}
  <2>1. \A n \in DOMAIN categories : categories[n].path \in Seq(Directory)
        BY RowFields DEF SitesInv, CategoryTypes
  <2>2. c \in X
        BY <2>1, PrefixIs
  <2>3. ASSUME NEW m \in DOMAIN categories \ {Root}, categories[m].parent \in X PROVE m \in X
    <3>   DEFINE t == categories[categories[m].parent].path
                 e == categories[m].directory
    <3>1. categories[m].path = Append(t, e) /\ e \in Directory
          BY <1>2 DEF IsTree
    <3>2. t \in Seq(Directory) /\ old \in Seq(Directory) /\ IsDescendantPath(old, t)
          BY <2>1, <2>3
    <3>   HIDE DEF t, e, old
    <3>3. IsDescendantPath(old, Append(t, e))
          BY <3>1, <3>2, PrefixOfChild
    <3>   QED  BY <3>1, <3>3
  <2>4. p \notin X /\ X \in SUBSET Nodes
        BY <1>1, <1>4
  <2>5. \A m \in DOMAIN Parents(categories) : Parents(categories)[m] \in X => m \in X
        BY <2>3 DEF Parents
  <2>   QED  BY <2>2, <2>4, <2>5
<1>8. /\ c \in DOMAIN Parents(categories) /\ p \in Nodes
      /\ p \notin {n \in Nodes : \A X \in SUBSET Nodes :
                     c \in X /\ (\A m \in DOMAIN Parents(categories) : Parents(categories)[m] \in X => m \in X) => n \in X}
      BY <1>1, <1>4, <1>7
<1>   QED  BY <1>5, <1>6, <1>8 DEF Tree!Move, Tree!Nodes, Tree!Subtree, Tree!Taken, Parents, Names

LEMMA DeleteRemoves ==
  ASSUME SitesInv, NEW c \in Ids, Deletable(c),
         categories' = [n \in DOMAIN categories \ {c} |-> categories[n]]
  PROVE  Tree!Remove(c)
<1>1. /\ c \in DOMAIN categories /\ categories[c].parent # 0
      /\ \A n \in DOMAIN categories : categories[n].parent # c
      BY DEF Deletable, Children
<1>2. c # Root
      BY <1>1, RootStays DEF SitesInv
<1>3. /\ Parents(categories') = [n \in DOMAIN Parents(categories) \ {c} |-> Parents(categories)[n]]
      /\ Names(categories') = [n \in DOMAIN Parents(categories) \ {c} |-> Names(categories)[n]]
      BY <1>1, <1>2 DEF Parents, Names
<1>4. c \in DOMAIN Parents(categories) /\ \A n \in DOMAIN Parents(categories) : Parents(categories)[n] # c
      BY <1>1, <1>2 DEF Parents
<1>   QED  BY <1>3, <1>4 DEF Tree!Remove, Parents, Names

\* Every step of a site is one of its tree's, or leaves the tree.
LEMMA TreeStep ==
  ASSUME SitesInv, [SitesNext]_sitesVars
  PROVE  [Tree!Next]_Tree!vars
<1>1. CASE UNCHANGED categories
  <2>1. UNCHANGED <<Parents(categories), Names(categories)>>
        BY <1>1 DEF Parents, Names
  <2>   QED  BY <2>1 DEF Tree!vars, Parents, Names
<1>2. CASE ~UNCHANGED categories
  <2>1. PICK r \in SiteRequest : CreateCategory(r) \/ MoveCategory(r) \/ DeleteCategory(r)
        BY <1>2 DEF SitesNext, sitesVars, UpdateSite, UpdateElementType, UpdateOutputChannel, FindCategory,
                    ReadFiling, FileDocument, GiveUp, Refused
  <2>   DEFINE q == siteRequests[r].id
  <2>2. DOMAIN categories \subseteq Ids
        BY DEF SitesInv, CategoryTypes
  <2>3. CASE CreateCategory(r)
    <3>1. PICK d \in Directory :
            /\ q \in DOMAIN categories
            /\ JoinPath(categories[q].path, d) \notin Paths /\ NextId <= MaxCategories
            /\ categories' = [n \in DOMAIN categories \cup {NextId} |->
                 IF n = NextId THEN [parent |-> q, directory |-> d, path |-> JoinPath(categories[q].path, d)]
                 ELSE categories[n]]
          BY <1>2, <2>3 DEF CreateCategory, Refused
    <3>2. Tree!Add(NextId, q, d)
      <4>   HIDE DEF q
      <4>   QED  BY <3>1, CreateAdds
    <3>3. NextId \in Ids
          BY <3>2 DEF Tree!Add
    <3>   QED  BY <2>2, <3>1, <3>2, <3>3 DEF Tree!Next
  <2>4. CASE MoveCategory(r)
    <3>1. PICK p \in DOMAIN categories, d \in Directory : q \in DOMAIN categories /\ MoveTo(q, p, d)
          BY <1>2, <2>4 DEF MoveCategory, Refused
    <3>   HIDE DEF q
    <3>2. Tree!Move(q, p, d)
          BY <3>1, MoveMoves
    <3>   QED  BY <2>2, <3>1, <3>2 DEF Tree!Next
  <2>5. CASE DeleteCategory(r)
    <3>1. Deletable(q) /\ categories' = [n \in DOMAIN categories \ {q} |-> categories[n]]
          BY <1>2, <2>5 DEF DeleteCategory, Refused
    <3>2. PICK c \in Ids : c = q
          BY <2>2, <3>1 DEF Deletable
    <3>3. Deletable(c) /\ categories' = [n \in DOMAIN categories \ {c} |-> categories[n]]
          BY <3>1, <3>2
    <3>4. Tree!Remove(c)
          BY <3>3, DeleteRemoves
    <3>   QED  BY <3>4 DEF Tree!Next
  <2>   QED  BY <2>1, <2>3, <2>4, <2>5
<1>   QED  BY <1>1, <1>2

LEMMA TreeInit ==
  ASSUME SitesInit
  PROVE  Tree!Init
<1>1. DOMAIN categories \ {Root} = {}
      BY DEF SitesInit
<1>2. Parents(categories) = <<>> /\ Names(categories) = <<>>
      BY <1>1 DEF Parents, Names
<1>   QED  BY <1>2 DEF Tree!Init, Parents, Names

\* What Service decides by comparing paths is what walking the tree would decide:
\* a name is free among its siblings, and no category goes below itself.
THEOREM SitesImplementTheTree == SitesSpec => TreeSpec
<1>1. SitesInit => Tree!Init
      BY TreeInit
<1>2. SitesInv /\ [SitesNext]_sitesVars => [Tree!Next]_Tree!vars
      BY TreeStep
<1>   QED  BY <1>1, <1>2, SitesInvariant, PTL DEF SitesSpec, TreeSpec, Tree!Spec

--------------------------------------------------------------------------------
(* Types                                                                      *)

\* What the types say beside: a document is filed once in a category, and the
\* settings are some that a request may ask for.
Settled ==
  /\ \A d \in Document : IsInjective(filed[d])
  /\ site \in Domain /\ channel \in Formats /\ fixedUri \in BOOLEAN
  /\ events \in 0..MaxEvents

LEMMA SettledInit ==
  ASSUME SitesInit
  PROVE  Settled
<1>1. site \in Domain /\ channel \in Formats
      BY SitesAssumption DEF SitesInit
<1>2. fixedUri \in BOOLEAN /\ events \in 0..MaxEvents
  <2>1. fixedUri = FALSE /\ events = 0
        BY DEF SitesInit
  <2>2. MaxEvents \in Nat
        BY SitesAssumption
  <2>3. events \in 0..MaxEvents
        BY <2>1, <2>2
  <2>   QED  BY <2>1, <2>3
<1>3. \A d \in Document : filed[d] = <<>>
      BY DEF SitesInit
<1>4. IsInjective(<<>>)
      BY DEF IsInjective
<1>   QED  BY SitesAssumption, <1>1, <1>2, <1>3, <1>4 DEF Settled

LEMMA EventCounted ==
  ASSUME Settled, NEW e, recordEvent(e)
  PROVE  events' \in 0..MaxEvents
BY SitesAssumption DEF Settled, recordEvent

LEMMA SettledStep ==
  ASSUME SitesInv, Settled, [SitesNext]_sitesVars
  PROVE  Settled'
<1>1. CASE UNCHANGED <<filed, settings, events>>
      BY <1>1 DEF Settled, settings
<1>2. CASE UpdateSite
      BY <1>2, EventCounted DEF UpdateSite, Settled
<1>3. CASE UpdateElementType
      BY <1>3, EventCounted DEF UpdateElementType, Settled
<1>4. CASE UpdateOutputChannel
      BY <1>4, EventCounted DEF UpdateOutputChannel, Settled
<1>5. ASSUME NEW r \in SiteRequest, CreateCategory(r) PROVE Settled'
  <2>1. CASE Refused
        BY <1>1, <2>1 DEF Refused
  <2>2. CASE ~Refused
    <3>1. recordEvent([type |-> "category.created"]) /\ UNCHANGED <<filed, settings>>
          BY <1>5, <2>2 DEF CreateCategory
    <3>   QED  BY <3>1, EventCounted DEF Settled, settings
  <2>   QED  BY <2>1, <2>2
<1>6. ASSUME NEW r \in SiteRequest, MoveCategory(r) PROVE Settled'
  <2>1. CASE Refused
        BY <1>1, <2>1 DEF Refused
  <2>2. CASE ~Refused
    <3>1. recordEvent([type |-> "category.moved", id |-> siteRequests[r].id]) /\ UNCHANGED <<filed, settings>>
          BY <1>6, <2>2 DEF MoveCategory
    <3>   QED  BY <3>1, EventCounted DEF Settled, settings
  <2>   QED  BY <2>1, <2>2
<1>7. ASSUME NEW r \in SiteRequest, DeleteCategory(r) PROVE Settled'
  <2>1. CASE Refused
        BY <1>1, <2>1 DEF Refused
  <2>2. CASE ~Refused
    <3>   DEFINE c == siteRequests[r].id
    <3>1. /\ Deletable(c) /\ categories' = [n \in DOMAIN categories \ {c} |-> categories[n]]
          /\ filed' = [x \in Document |-> IF x \in FiledIn(c) THEN Remove(filed[x], c) ELSE filed[x]]
          /\ UNCHANGED settings
          BY <1>7, <2>2 DEF DeleteCategory
    <3>2. recordEvent([type |-> "category.deleted"])
          BY <1>7, <2>2 DEF DeleteCategory
    <3>   HIDE DEF c
    <3>3. filed' = filed
          BY <3>1, DeleteKeeps
    <3>   QED  BY <3>1, <3>2, <3>3, EventCounted DEF Settled, settings
  <2>   QED  BY <2>1, <2>2
<1>8. ASSUME NEW r \in SiteRequest, FileDocument(r) PROVE Settled'
  <2>1. CASE Refused
        BY <1>1, <2>1 DEF Refused
  <2>2. CASE ~Refused
    <3>1. /\ IsInjective(siteRequests[r].ids) /\ filed' = [filed EXCEPT ![siteRequests[r].id] = siteRequests[r].ids]
          /\ UNCHANGED settings
          /\ recordEvent([type |-> "document.filed", id |-> siteRequests[r].id])
          BY <1>8, <2>2 DEF FileDocument, SetCategories
    <3>2. \A d \in Document : filed'[d] = IF d = siteRequests[r].id THEN siteRequests[r].ids ELSE filed[d]
          BY <3>1 DEF SitesInv, FilingTypes
    <3>3. \A d \in Document : IsInjective(filed'[d])
          BY <3>1, <3>2 DEF Settled
    <3>   QED  BY <3>1, <3>3, EventCounted DEF Settled, settings
  <2>   QED  BY <2>1, <2>2
<1>9. CASE \E r \in SiteRequest : FindCategory(r) \/ ReadFiling(r) \/ GiveUp(r)
      BY <1>1, <1>9 DEF FindCategory, ReadFiling, GiveUp, Refused
<1>10. CASE UNCHANGED sitesVars
      BY <1>1, <1>10 DEF sitesVars
<1>   QED  BY <1>2, <1>3, <1>4, <1>5, <1>6, <1>7, <1>8, <1>9, <1>10 DEF SitesNext

\* Every variable of a site keeps its type, whatever ids are used again: what a
\* document is filed in is there, and a path is made of directories.
THEOREM SitesTypeCorrect == SitesSpec => []SitesTypeOK
<1>1. SitesInit => SitesInv /\ Settled
      BY SitesStart, SettledInit
<1>2. SitesInv /\ Settled /\ [SitesNext]_sitesVars => SitesInv' /\ Settled'
      BY SitesStep, SettledStep
<1>3. SitesInv /\ Settled => SitesTypeOK
  <2>   SUFFICES ASSUME SitesInv, Settled PROVE SitesTypeOK
        OBVIOUS
  <2>1. \A c \in DOMAIN categories : categories[c].parent \in 0..MaxCategories /\ categories[c].path \in Seq(Directory)
        BY RowFields DEF SitesInv, CategoryTypes
  <2>   QED  BY <2>1 DEF SitesTypeOK, SitesInv, Settled, CategoryTypes, FilingTypes
<1>   QED  BY <1>1, <1>2, <1>3, PTL DEF SitesSpec
================================================================================
