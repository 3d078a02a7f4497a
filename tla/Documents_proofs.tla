--------------------------- MODULE Documents_proofs ---------------------------
(***************************************************************************)
(* What checking documents out and in guarantees for every number of       *)
(* editors, requests and documents, however stale what they read: checked- *)
(* in versions stay, and a live lease keeps others out.                    *)
(***************************************************************************)
EXTENDS Documents, WellFoundedInduction, SequenceTheorems, TLAPS

--------------------------------------------------------------------------------
(* The greatest of some numbers                                               *)

LEMMA LeastNumber ==
  ASSUME NEW T \in SUBSET Nat, T # {}
  PROVE  \E x \in T : \A y \in T : x <= y
<1>   DEFINE R == {ss \in Nat \X Nat : ss[1] < ss[2]}
<1>0. ASSUME NEW f \in [Nat -> Nat], \A n \in Nat : <<f[n + 1], f[n]>> \in R PROVE FALSE
  <2>1. \A n \in Nat : n + 1 \in Nat
        OBVIOUS
  <2>2. \A n \in Nat : <<f[n + 1], f[n]>> \in Nat \X Nat /\ f[n + 1] < f[n]
        BY <1>0, <2>1
  <2>   QED  BY <2>2, NatLessThanWellFounded, Zenon DEF IsWellFoundedOn, OpToRel
<1>1. IsWellFoundedOn(R, Nat)
      BY <1>0 DEF IsWellFoundedOn
<1>2. PICK x \in T : \A y \in T : <<y, x>> \notin R
      BY <1>1, WFMin
<1>3. ASSUME NEW y \in T PROVE x <= y
  <2>1. x \in Nat /\ y \in Nat /\ <<y, x>> \in Nat \X Nat
        OBVIOUS
  <2>2. <<y, x>>[1] = y /\ <<y, x>>[2] = x
        OBVIOUS
  <2>3. ~(y < x)
        BY <1>2, <2>1, <2>2
  <2>   QED  BY <2>1, <2>3
<1>   QED  BY <1>3

\* A bounded set of numbers has its maximum: the least of its bounds.
LEMMA MaxIsGreatest ==
  ASSUME NEW S \in SUBSET Nat, S # {}, NEW k \in Nat, \A s \in S : s <= k
  PROVE  Max(S) \in S /\ \A s \in S : s <= Max(S)
<1>   DEFINE bounds == {n \in Nat : \A s \in S : s <= n}
<1>1. PICK x \in bounds : \A y \in bounds : x <= y
      BY LeastNumber
<1>2. x \in S
  <2>   SUFFICES ASSUME x \notin S PROVE FALSE
        OBVIOUS
  <2>1. \A s \in S : s < x
        BY <1>1
  <2>0. PICK s \in S : TRUE
        OBVIOUS
  <2>2. x - 1 \in Nat /\ \A t \in S : t <= x - 1
        BY <1>1, <2>0, <2>1
  <2>   QED  BY <1>1, <2>2
<1>3. x \in S /\ \A s \in S : x >= s
      BY <1>1, <1>2
<1>   HIDE DEF bounds
<1>4. Max(S) \in S /\ \A s \in S : Max(S) >= s
      BY <1>3, Zenon DEF Max
<1>   QED  BY <1>4

LEMMA MaxOfRange ==
  ASSUME NEW n \in Nat \ {0}
  PROVE  Max(1..n) = n
<1>   DEFINE S == 1..n
<1>1. S \in SUBSET Nat /\ S # {} /\ n \in Nat /\ \A s \in S : s <= n
      OBVIOUS
<1>   HIDE DEF S
<1>2. Max(S) \in S /\ \A s \in S : s <= Max(S)
      BY <1>1, MaxIsGreatest
<1>   USE DEF S
<1>   QED  BY <1>2

--------------------------------------------------------------------------------
(* Rows                                                                       *)

\* A row between transactions: no document, or one whose newest version is the
\* current one and the only one that may be open.
Sound(row) ==
  /\ row \in Document
  /\ row.uid = NoUid => row = NoDocument
  /\ row.uid # NoUid =>
       /\ row.versions # <<>>
       /\ row.current = Len(row.versions)
       /\ \A n \in 1..(Len(row.versions) - 1) : row.versions[n].checkedIn
       /\ row.lockedBy = NoUser <=> row.lockExpiresAt = Never

\* What is checked in in the old row is in the new one.
Keeps(old, new) ==
  \A n \in DOMAIN old.versions : old.versions[n].checkedIn =>
    n \in DOMAIN new.versions /\ new.versions[n] = old.versions[n]

\* A request's copy is of a row there may have been, read at a time that was.
Asking(q) ==
  /\ q \in RequestState
  /\ q.at <= now
  /\ q.op # "none" => q.id \in DocId /\ q.user \in User /\ q.uid # NoUid

DInv ==
  /\ now \in Nat /\ created \in Nat
  /\ documents \in [DocId -> Document] /\ \A d \in DocId : Sound(documents[d])
  /\ requests \in [Request -> RequestState] /\ \A r \in Request : Asking(requests[r])
  /\ history \in [DocId -> SUBSET Nat]

LEMMA VersionsOf ==
  ASSUME NEW row \in Document
  PROVE  /\ row.versions \in Seq(Version) /\ Len(row.versions) \in Nat
         /\ DOMAIN row.versions = 1..Len(row.versions)
         /\ \A n \in 1..Len(row.versions) : row.versions[n] \in Version
BY DEF Document

LEMMA SoundNoDocument == Sound(NoDocument) /\ NoDocument \in Document
BY DEF Sound, NoDocument, Document, NoUid, Never

\* The draft is the newest version, and the others are checked in.
LEMMA DraftIsNewest ==
  ASSUME NEW d \in DocId, Sound(documents[d]), HasDraft(d)
  PROVE  /\ Exists(d)
         /\ Len(documents[d].versions) \in Nat \ {0}
         /\ Draft(d) = Len(documents[d].versions)
         /\ CheckedIn(d) = 1..(Len(documents[d].versions) - 1)
         /\ ~documents[d].versions[Len(documents[d].versions)].checkedIn
<1>   DEFINE row == documents[d]
             last == Len(row.versions)
<1>1. DOMAIN row.versions = 1..last /\ last \in Nat
      BY VersionsOf DEF Sound
<1>2. Exists(d)
      BY DEF HasDraft, Drafts, Exists, Sound, NoDocument
<1>3. \A n \in 1..(last - 1) : row.versions[n].checkedIn
      BY <1>2 DEF Sound, Exists
<1>4. PICK n \in 1..last : ~row.versions[n].checkedIn
      BY <1>1 DEF HasDraft, Drafts
<1>5. n = last
      BY <1>1, <1>3, <1>4
<1>6. Drafts(d) = {last}
      BY <1>1, <1>3, <1>4, <1>5 DEF Drafts
<1>7. Draft(d) = last
      BY <1>6 DEF Draft
<1>8. CheckedIn(d) = 1..(last - 1)
      BY <1>1, <1>3, <1>4, <1>5 DEF CheckedIn
<1>   QED  BY <1>1, <1>2, <1>4, <1>5, <1>7, <1>8

LEMMA AllCheckedIn ==
  ASSUME NEW d \in DocId, Sound(documents[d]), ~HasDraft(d), Exists(d)
  PROVE  /\ Len(documents[d].versions) \in Nat \ {0}
         /\ CheckedIn(d) = 1..Len(documents[d].versions)
         /\ LatestCheckedIn(d) = Len(documents[d].versions)
<1>1. DOMAIN documents[d].versions = 1..Len(documents[d].versions)
      BY VersionsOf DEF Sound
<1>2. Len(documents[d].versions) \in Nat \ {0}
      BY EmptySeq, VersionsOf DEF Sound, Exists
<1>3. CheckedIn(d) = 1..Len(documents[d].versions)
      BY <1>1 DEF CheckedIn, HasDraft, Drafts
<1>   QED  BY <1>2, <1>3, MaxOfRange DEF LatestCheckedIn

\* Taking and giving back a lease leaves the versions alone.
LEMMA LockedRow ==
  ASSUME NEW row, Sound(row), row.uid # NoUid, NEW u \in User, NEW t \in Nat
  PROVE  Sound(Locked(row, u, t)) /\ Locked(row, u, t).versions = row.versions
<1>1. t + LockLease \in Nat /\ t + LockLease # Never /\ u # NoUser
      BY DocumentsAssumption DEF Never
<1>2. row \in Document
      BY DEF Sound
<1>   DEFINE new == Locked(row, u, t)
<1>3. /\ new.uid = row.uid /\ new.versions = row.versions /\ new.current = row.current
      /\ new.lockedBy = u /\ new.lockExpiresAt = t + LockLease /\ new \in Document
      BY <1>1, <1>2 DEF Locked, Document
<1>   HIDE DEF new
<1>   QED  BY <1>1, <1>3 DEF Sound, new

LEMMA ReleasedRow ==
  ASSUME NEW row, Sound(row), row.uid # NoUid
  PROVE  Sound(Released(row)) /\ Released(row).versions = row.versions
<1>   DEFINE new == Released(row)
<1>1. row \in Document
      BY DEF Sound
<1>2. /\ new.uid = row.uid /\ new.versions = row.versions /\ new.current = row.current
      /\ new.lockedBy = NoUser /\ new.lockExpiresAt = Never /\ new \in Document
      BY <1>1 DEF Released, Document
<1>   HIDE DEF new
<1>   QED  BY <1>2 DEF Sound, new

\* The newest version is replaced: an open draft's fields, or that it is open.
LEMMA ReplacedRow ==
  ASSUME NEW d \in DocId, Sound(documents[d]), HasDraft(d), NEW v \in Version,
         NEW new, new = [documents[d] EXCEPT !.versions = [@ EXCEPT ![Draft(d)] = v],
                                             !.current = Len(documents[d].versions)]
  PROVE  Sound(new) /\ new.uid # NoUid /\ Keeps(documents[d], new)
<1>   DEFINE row == documents[d]
             last == Len(row.versions)
             versions == [row.versions EXCEPT ![last] = v]
<1>1. row \in Document /\ row.versions \in Seq(Version)
      BY VersionsOf DEF Sound
<1>2. /\ Draft(d) = last /\ last \in 1..last /\ last \in Nat \ {0} /\ row.uid # NoUid
      /\ ~row.versions[last].checkedIn
      BY DraftIsNewest DEF Exists
<1>3. /\ versions \in Seq(Version) /\ Len(versions) = last
      /\ \A n \in 1..last : versions[n] = IF n = last THEN v ELSE row.versions[n]
      BY <1>1, <1>2, ExceptSeq
<1>4. DOMAIN versions = 1..last /\ DOMAIN row.versions = 1..last /\ versions # <<>>
      BY <1>1, <1>2, <1>3, EmptySeq, LenProperties
<1>   HIDE DEF versions
<1>5. /\ new.uid = row.uid /\ new.versions = versions /\ new.current = last
      /\ new.lockedBy = row.lockedBy /\ new.lockExpiresAt = row.lockExpiresAt /\ new \in Document
      BY <1>1, <1>2, <1>3 DEF Document, versions
<1>6. \A n \in 1..(last - 1) : row.versions[n].checkedIn
      BY <1>2 DEF Sound
<1>7. Sound(new)
  <2>1. \A n \in 1..(last - 1) : versions[n].checkedIn
        BY <1>2, <1>3, <1>6
  <2>2. new.lockedBy = NoUser <=> new.lockExpiresAt = Never
        BY <1>2, <1>5 DEF Sound
  <2>   QED  BY <1>2, <1>3, <1>4, <1>5, <2>1, <2>2 DEF Sound
<1>8. Keeps(row, new)
      BY <1>2, <1>3, <1>4, <1>5 DEF Keeps
<1>   QED  BY <1>2, <1>5, <1>7, <1>8

LEMMA AppendedRow ==
  ASSUME NEW d \in DocId, Sound(documents[d]), ~HasDraft(d), Exists(d), NEW v \in Version,
         NEW new, new = [documents[d] EXCEPT !.current = Len(documents[d].versions) + 1,
                                             !.versions = Append(@, v)]
  PROVE  Sound(new) /\ new.uid # NoUid /\ Keeps(documents[d], new)
<1>   DEFINE row == documents[d]
             last == Len(row.versions)
             versions == Append(row.versions, v)
<1>1. row \in Document /\ row.versions \in Seq(Version)
      BY VersionsOf DEF Sound
<1>2. /\ last \in Nat \ {0} /\ row.uid # NoUid /\ DOMAIN row.versions = 1..last
      /\ \A n \in 1..last : row.versions[n].checkedIn
      BY AllCheckedIn, VersionsOf DEF Exists, CheckedIn, Sound
<1>3. /\ versions \in Seq(Version) /\ Len(versions) = last + 1
      /\ \A n \in 1..last : versions[n] = row.versions[n]
      BY <1>1
<1>4. DOMAIN versions = 1..(last + 1) /\ versions # <<>>
      BY <1>2, <1>3, EmptySeq, LenProperties
<1>   HIDE DEF versions
<1>5. /\ new.uid = row.uid /\ new.versions = versions /\ new.current = last + 1
      /\ new.lockedBy = row.lockedBy /\ new.lockExpiresAt = row.lockExpiresAt /\ new \in Document
  <2>1. new = [row EXCEPT !.current = last + 1, !.versions = versions]
        BY DEF versions
  <2>2. last + 1 \in Nat
        BY <1>2
  <2>   QED  BY <1>1, <1>3, <2>1, <2>2 DEF Document
<1>6. Sound(new)
      BY <1>2, <1>3, <1>4, <1>5 DEF Sound
<1>7. Keeps(row, new)
      BY <1>2, <1>3, <1>4, <1>5 DEF Keeps
<1>   QED  BY <1>2, <1>5, <1>6, <1>7

\* The draft goes, and a version that was checked in before it is the newest.
LEMMA RemovedRow ==
  ASSUME NEW d \in DocId, Sound(documents[d]), HasDraft(d), CheckedIn(d) # {},
         NEW new, new = [documents[d] EXCEPT !.versions = RemoveAt(@, Draft(d)),
                                             !.current = LatestCheckedIn(d)]
  PROVE  Sound(new) /\ new.uid # NoUid /\ Keeps(documents[d], new)
<1>   DEFINE row == documents[d]
             last == Len(row.versions)
             versions == SubSeq(row.versions, 1, last - 1)
<1>1. row \in Document /\ row.versions \in Seq(Version) /\ DOMAIN row.versions = 1..last
      BY VersionsOf DEF Sound
<1>2. /\ Draft(d) = last /\ last \in Nat \ {0} /\ row.uid # NoUid
      /\ CheckedIn(d) = 1..(last - 1) /\ ~row.versions[last].checkedIn
      BY DraftIsNewest DEF Exists
<1>3. last - 1 \in Nat \ {0} /\ LatestCheckedIn(d) = last - 1
      BY <1>2, MaxOfRange DEF LatestCheckedIn
<1>4. /\ versions \in Seq(Version) /\ Len(versions) = last - 1
      /\ \A n \in 1..(last - 1) : versions[n] = row.versions[n]
      BY <1>1, <1>3, SubSeqProperties, ElementOfSeq
<1>5. RemoveAt(row.versions, last) = versions
  <2>1. SubSeq(row.versions, last + 1, last) = <<>>
        BY <1>2, SubSeqEmpty
  <2>   HIDE DEF versions
  <2>2. versions \o <<>> = versions
        BY <1>4, ConcatEmptySeq
  <2>   QED  BY <2>1, <2>2 DEF RemoveAt, versions
<1>6. DOMAIN versions = 1..(last - 1) /\ versions # <<>>
      BY <1>3, <1>4, EmptySeq, LenProperties
<1>   HIDE DEF versions
<1>7. /\ new.uid = row.uid /\ new.versions = versions /\ new.current = last - 1
      /\ new.lockedBy = row.lockedBy /\ new.lockExpiresAt = row.lockExpiresAt /\ new \in Document
      BY <1>1, <1>2, <1>3, <1>4, <1>5 DEF Document
<1>8. \A n \in 1..(last - 1) : row.versions[n].checkedIn
      BY <1>2 DEF CheckedIn
<1>9. Sound(new)
      BY <1>2, <1>3, <1>4, <1>6, <1>7, <1>8 DEF Sound
<1>10. Keeps(row, new)
      BY <1>1, <1>2, <1>3, <1>4, <1>6, <1>7 DEF Keeps
<1>   QED  BY <1>2, <1>7, <1>9, <1>10

--------------------------------------------------------------------------------
(* Transactions                                                               *)

\* What a request's transaction may make of its document.
Becomes(r, row) ==
  LET d == requests[r].id IN
  /\ d \in DocId
  /\ Exists(d)
  /\ Unlocked(d, requests[r].at) \/ documents[d].lockedBy = requests[r].user
  /\ Sound(row) /\ Keeps(documents[d], row)

LEMMA AskingFacts ==
  ASSUME DInv, NEW r \in Request, requests[r].op # "none"
  PROVE  /\ requests[r].id \in DocId /\ requests[r].user \in User
         /\ requests[r].at \in Nat /\ requests[r].at <= now /\ requests[r].updated \in Fields
         /\ requests[r].uid \in Nat /\ requests[r].uid # NoUid
         /\ Sound(documents[requests[r].id]) /\ documents[requests[r].id] \in Document
BY DEF DInv, Asking, RequestState

LEMMA CheckoutWrites ==
  ASSUME DInv, NEW r \in Request, Checkout(r)
  PROVE  \E row : Commit(r, row) /\ Becomes(r, row)
<1>   DEFINE d == requests[r].id
             row == documents[d]
             v == [fields |-> row.versions[LatestCheckedIn(d)].fields, checkedIn |-> FALSE]
             opened == IF HasDraft(d) THEN row
                       ELSE [row EXCEPT !.current = Len(row.versions) + 1, !.versions = Append(@, v)]
             new == Locked(opened, requests[r].user, requests[r].at)
<1>1. /\ d \in DocId /\ requests[r].user \in User /\ requests[r].at \in Nat /\ Sound(row)
      BY AskingFacts DEF Checkout
<1>2. Exists(d) /\ Unlocked(d, requests[r].at) /\ row.uid # NoUid
      BY DEF Checkout, Exists
<1>3. Commit(r, new)
      BY DEF Checkout
<1>4. Sound(opened) /\ opened.uid # NoUid /\ Keeps(row, opened)
  <2>1. CASE HasDraft(d)
        BY <1>1, <1>2, <2>1 DEF Keeps
  <2>2. CASE ~HasDraft(d)
    <3>1. v \in Version
          BY <1>1, <1>2, <2>2, AllCheckedIn, VersionsOf DEF Sound, Version
    <3>   QED  BY <1>1, <1>2, <2>2, <3>1, AppendedRow
  <2>   QED  BY <2>1, <2>2
<1>   HIDE DEF opened
<1>5. Sound(new) /\ new.versions = opened.versions
      BY <1>1, <1>4, LockedRow
<1>   HIDE DEF new
<1>6. Keeps(row, new)
      BY <1>4, <1>5 DEF Keeps
<1>   QED  BY <1>1, <1>2, <1>3, <1>5, <1>6 DEF Becomes

LEMMA UpdateDraftWrites ==
  ASSUME DInv, NEW r \in Request, UpdateDraft(r)
  PROVE  \E row : Commit(r, row) /\ Becomes(r, row)
<1>   DEFINE d == requests[r].id
             row == documents[d]
             last == Len(row.versions)
             v == [row.versions[last] EXCEPT !.fields = requests[r].updated]
             saved == [row EXCEPT !.versions[Draft(d)].fields = requests[r].updated]
             new == Locked(saved, requests[r].user, requests[r].at)
<1>1. /\ d \in DocId /\ requests[r].user \in User /\ requests[r].at \in Nat
      /\ requests[r].updated \in Fields /\ Sound(row) /\ row \in Document
      BY AskingFacts DEF UpdateDraft
<1>2. Exists(d) /\ LeaseHeld(d, requests[r].user, requests[r].at) /\ HasDraft(d)
      BY DEF UpdateDraft
<1>3. Commit(r, new)
      BY DEF UpdateDraft
<1>4. last \in 1..last /\ Draft(d) = last /\ row.current = last
      BY <1>1, <1>2, DraftIsNewest DEF Sound, Exists
<1>5. v \in Version
      BY <1>1, <1>4, VersionsOf DEF Version
<1>6. saved = [row EXCEPT !.versions = [@ EXCEPT ![Draft(d)] = v], !.current = last]
  <2>1. saved = [row EXCEPT !.versions = [row.versions EXCEPT ![last] = v]]
        BY <1>1, <1>4, VersionsOf DEF Document
  <2>   QED  BY <1>1, <1>4, <2>1 DEF Document
<1>   HIDE DEF saved, v
<1>7. Sound(saved) /\ saved.uid # NoUid /\ Keeps(row, saved)
      BY <1>1, <1>2, <1>5, <1>6, ReplacedRow
<1>8. Sound(new) /\ new.versions = saved.versions
      BY <1>1, <1>7, LockedRow
<1>   HIDE DEF new
<1>9. Keeps(row, new)
      BY <1>7, <1>8 DEF Keeps
<1>   QED  BY <1>1, <1>2, <1>3, <1>8, <1>9 DEF Becomes, LeaseHeld

LEMMA CheckinWrites ==
  ASSUME DInv, NEW r \in Request, Checkin(r)
  PROVE  \E row : Commit(r, row) /\ Becomes(r, row)
<1>   DEFINE d == requests[r].id
             row == documents[d]
             last == Len(row.versions)
             v == [row.versions[last] EXCEPT !.checkedIn = TRUE]
             closed == [row EXCEPT !.versions[Draft(d)].checkedIn = TRUE,
                                   !.current = Max(CheckedIn(d) \cup {Draft(d)})]
             new == Released(closed)
<1>1. d \in DocId /\ Sound(row) /\ row \in Document
      BY AskingFacts DEF Checkin
<1>2. Exists(d) /\ LeaseHeld(d, requests[r].user, requests[r].at) /\ HasDraft(d)
      BY DEF Checkin
<1>3. Commit(r, new)
      BY DEF Checkin
<1>4. /\ last \in 1..last /\ last \in Nat \ {0} /\ Draft(d) = last
      /\ CheckedIn(d) = 1..(last - 1)
      BY <1>1, <1>2, DraftIsNewest
<1>5. v \in Version
      BY <1>1, <1>4, VersionsOf DEF Version
<1>6. Max(CheckedIn(d) \cup {Draft(d)}) = last
  <2>1. CheckedIn(d) \cup {Draft(d)} = 1..last
        BY <1>4
  <2>   QED  BY <1>4, <2>1, MaxOfRange
<1>7. closed = [row EXCEPT !.versions = [@ EXCEPT ![Draft(d)] = v], !.current = last]
      BY <1>1, <1>4, <1>6, VersionsOf DEF Document
<1>   HIDE DEF closed, v
<1>8. Sound(closed) /\ closed.uid # NoUid /\ Keeps(row, closed)
      BY <1>1, <1>2, <1>5, <1>7, ReplacedRow
<1>9. Sound(new) /\ new.versions = closed.versions
      BY <1>8, ReleasedRow
<1>   HIDE DEF new
<1>10. Keeps(row, new)
      BY <1>8, <1>9 DEF Keeps
<1>   QED  BY <1>1, <1>2, <1>3, <1>9, <1>10 DEF Becomes, LeaseHeld

LEMMA CancelCheckoutWrites ==
  ASSUME DInv, NEW r \in Request, CancelCheckout(r)
  PROVE  \E row : Commit(r, row) /\ Becomes(r, row)
<1>   DEFINE d == requests[r].id
             new == Released(documents[d])
<1>1. d \in DocId /\ Sound(documents[d])
      BY AskingFacts DEF CancelCheckout
<1>2. Exists(d) /\ LeaseHeld(d, requests[r].user, requests[r].at) /\ documents[d].uid # NoUid
      BY DEF CancelCheckout, Exists
<1>3. Commit(r, new)
      BY DEF CancelCheckout
<1>4. Sound(new) /\ new.versions = documents[d].versions
      BY <1>1, <1>2, ReleasedRow
<1>   HIDE DEF new
<1>   QED  BY <1>1, <1>2, <1>3, <1>4 DEF Becomes, LeaseHeld, Keeps

LEMMA RevertWrites ==
  ASSUME DInv, NEW r \in Request, Revert(r)
  PROVE  \E row : Commit(r, row) /\ Becomes(r, row)
<1>   DEFINE d == requests[r].id
             row == documents[d]
             kept == [row EXCEPT !.versions = RemoveAt(@, Draft(d)), !.current = LatestCheckedIn(d)]
<1>1. d \in DocId /\ Sound(row)
      BY AskingFacts DEF Revert
<1>2. /\ Exists(d) /\ HasDraft(d)
      /\ Unlocked(d, requests[r].at) \/ documents[d].lockedBy = requests[r].user
      BY DEF Revert, Revertable
<1>3. CASE CheckedIn(d) = {}
  <2>1. Commit(r, NoDocument)
        BY <1>3 DEF Revert
  <2>2. Keeps(row, NoDocument)
        BY <1>3 DEF Keeps, CheckedIn
  <2>   QED  BY <1>1, <1>2, <2>1, <2>2, SoundNoDocument DEF Becomes
<1>4. CASE CheckedIn(d) # {}
  <2>1. Sound(kept) /\ kept.uid # NoUid /\ Keeps(row, kept)
        BY <1>1, <1>2, <1>4, RemovedRow
  <2>2. Commit(r, Released(kept)) \/ Commit(r, kept)
        BY <1>4 DEF Revert
  <2>   HIDE DEF kept
  <2>3. Sound(Released(kept)) /\ Keeps(row, Released(kept))
        BY <2>1, ReleasedRow DEF Keeps
  <2>   QED  BY <1>1, <1>2, <2>1, <2>2, <2>3 DEF Becomes
<1>   QED  BY <1>3, <1>4

LEMMA WriteBecomes ==
  ASSUME DInv, NEW r \in Request, Write(r)
  PROVE  \E row : Commit(r, row) /\ Becomes(r, row)
BY CheckoutWrites, UpdateDraftWrites, CheckinWrites, CancelCheckoutWrites, RevertWrites DEF Write

--------------------------------------------------------------------------------
(* The invariant                                                              *)

LEMMA FreeIsIdle == Free \in RequestState /\ Free.op = "none" /\ Free.at = 0
BY DocumentsAssumption DEF Free, RequestState, Op, Fields, NoUid

LEMMA InitDInv == Init => DInv
BY FreeIsIdle, SoundNoDocument DEF Init, DInv, Asking

\* Only the row of the request changes, and the request is over.
LEMMA CommitDInv ==
  ASSUME DInv, NEW r \in Request, NEW row, Commit(r, row), Becomes(r, row)
  PROVE  DInv'
<1>1. requests[r].id \in DocId /\ requests[r].uid \in Nat /\ Sound(row) /\ row \in Document
      BY DEF DInv, RequestState, Becomes, Sound
<1>2. documents' \in [DocId -> Document] /\ \A d \in DocId : Sound(documents'[d])
      BY <1>1 DEF DInv, Commit
<1>3. requests' \in [Request -> RequestState] /\ \A s \in Request : Asking(requests[s])'
      BY FreeIsIdle DEF DInv, Commit, Asking
<1>4. history' \in [DocId -> SUBSET Nat]
      BY <1>1 DEF DInv, Commit, RecordEvent
<1>   QED  BY <1>2, <1>3, <1>4 DEF DInv, Commit, Sound

\* The id a new document is given is nobody's.
LEMMA NextIdIsFree ==
  ASSUME NextId \in DocId
  PROVE  ~Exists(NextId)
<1>   DEFINE used == {0} \cup {d \in DocId : Exists(d)}
<1>1. used \in SUBSET Nat /\ used # {} /\ \A d \in used : d <= MaxRows /\ MaxRows \in Nat
      BY DocumentsAssumption DEF DocId
<1>   HIDE DEF used
<1>2. Max(used) \in Nat /\ \A d \in used : d <= Max(used)
      BY <1>1, MaxIsGreatest, DocumentsAssumption
<1>3. NextId = Max(used) + 1
      BY DEF NextId, used
<1>4. NextId \notin used
      BY <1>2, <1>3
<1>   QED  BY <1>4 DEF used

LEMMA CreateDInv ==
  ASSUME DInv, NEW fields \in Fields, CreateDocument(fields)
  PROVE  DInv'
<1>   DEFINE versions == <<[fields |-> fields, checkedIn |-> FALSE]>>
             row == [NoDocument EXCEPT !.uid = created', !.current = 1, !.versions = versions]
<1>1. /\ NextId \in DocId /\ created' = created + 1 /\ documents' = [documents EXCEPT ![NextId] = row]
      /\ history' = [history EXCEPT ![NextId] = @ \cup {created'}] /\ UNCHANGED <<now, requests>>
      BY DEF CreateDocument, RecordEvent
<1>2. created' \in Nat \ {0}
      BY <1>1 DEF DInv
<1>3. versions \in Seq(Version) /\ Len(versions) = 1 /\ versions # <<>>
      BY DEF Version
<1>   HIDE DEF versions
<1>4. /\ row \in Document /\ row.uid = created' /\ row.versions = versions /\ row.current = 1
      /\ row.lockedBy = NoUser /\ row.lockExpiresAt = Never
      BY <1>2, <1>3, SoundNoDocument DEF NoDocument, Document, Never
<1>   HIDE DEF row
<1>5. Sound(row)
  <2>1. Len(row.versions) = 1 /\ row.uid # NoUid
        BY <1>2, <1>3, <1>4 DEF NoUid
  <2>2. row.uid = NoUid => row = NoDocument
        BY <2>1
  <2>3. row.lockedBy = NoUser <=> row.lockExpiresAt = Never
        BY <1>4
  <2>4. row.current = Len(row.versions)
        BY <1>3, <1>4
  <2>5. row.versions # <<>>
        BY <1>3, <1>4
  <2>6. \A n \in 1..(Len(row.versions) - 1) : row.versions[n].checkedIn
        BY <2>1
  <2>   QED  BY <1>4, <2>2, <2>3, <2>4, <2>5, <2>6 DEF Sound
<1>6. documents' \in [DocId -> Document] /\ \A d \in DocId : Sound(documents'[d])
      BY <1>1, <1>4, <1>5 DEF DInv
<1>7. history' \in [DocId -> SUBSET Nat]
      BY <1>1, <1>2 DEF DInv
<1>8. \A r \in Request : Asking(requests[r])'
      BY <1>1 DEF DInv, Asking
<1>   QED  BY <1>1, <1>2, <1>6, <1>7, <1>8 DEF DInv, Sound

LEMMA BeginsDInv ==
  ASSUME DInv, NEW r \in Request, NEW q, q \in RequestState, q.at <= now,
         q.op # "none" => q.id \in DocId /\ q.user \in User /\ q.uid # NoUid,
         requests' = [requests EXCEPT ![r] = q], UNCHANGED <<now, documents, created, history>>
  PROVE  DInv'
<1>1. requests' \in [Request -> RequestState] /\ \A s \in Request : Asking(requests[s])'
      BY DEF DInv, Asking
<1>   QED  BY <1>1 DEF DInv, Sound

LEMMA BeginDInv ==
  ASSUME DInv, NEW r \in Request, NEW u \in User, NEW d \in DocId,
         NEW op \in Op, Begin(r, u, d, op)
  PROVE  DInv'
<1>   DEFINE q == [Free EXCEPT !.op = op, !.user = u, !.id = d, !.uid = documents[d].uid, !.at = now]
<1>1. now \in Nat /\ d \in Nat /\ documents[d].uid \in Nat /\ documents[d].uid # NoUid
      BY DEF DInv, Begin, Exists, Document, DocId
<1>2. /\ q \in RequestState /\ q.id = d /\ q.user = u /\ q.uid = documents[d].uid /\ q.at = now
      BY <1>1, FreeIsIdle DEF RequestState
<1>3. requests' = [requests EXCEPT ![r] = q] /\ UNCHANGED <<now, documents, created, history>>
      BY DEF Begin
<1>   HIDE DEF q
<1>4. q.at <= now
      BY <1>1, <1>2
<1>   QED  BY <1>1, <1>2, <1>3, <1>4, BeginsDInv

LEMMA BeginUpdateDInv ==
  ASSUME DInv, NEW r \in Request, NEW u \in User, NEW d \in DocId,
         NEW named \in SUBSET Field, NEW value \in Value, BeginUpdateDraft(r, u, d, named, value)
  PROVE  DInv'
<1>   DEFINE fields == [f \in Field |-> IF f \in named THEN value
                                        ELSE documents[d].versions[Draft(d)].fields[f]]
             q == [op |-> "UpdateDraft", user |-> u, id |-> d, uid |-> documents[d].uid,
                   at |-> now, named |-> named, updated |-> fields]
<1>1. now \in Nat /\ d \in Nat /\ documents[d].uid \in Nat /\ documents[d].uid # NoUid
      BY DEF DInv, BeginUpdateDraft, Exists, Document, DocId
<1>2. documents[d].versions[Draft(d)].fields \in Fields
      BY DraftIsNewest, VersionsOf DEF DInv, BeginUpdateDraft, Version
<1>3. fields \in Fields
      BY <1>2 DEF Fields
<1>   HIDE DEF fields
<1>4. q \in RequestState
      BY <1>1, <1>3 DEF RequestState, Op
<1>5. requests' = [requests EXCEPT ![r] = q] /\ UNCHANGED <<now, documents, created, history>>
      BY DEF BeginUpdateDraft, fields
<1>6. q.id = d /\ q.user = u /\ q.uid = documents[d].uid /\ q.at <= now
      BY <1>1
<1>   HIDE DEF q
<1>   QED  BY <1>1, <1>4, <1>5, <1>6, BeginsDInv

LEMMA NextDInv == DInv /\ [Next]_vars => DInv'
<1>   SUFFICES ASSUME DInv, [Next]_vars PROVE DInv'
      OBVIOUS
<1>1. CASE UNCHANGED vars
      BY <1>1 DEF vars, DInv, Asking, Sound
<1>2. CASE Tick
  <2>1. now \in Nat /\ now' = now + 1 /\ UNCHANGED <<documents, requests, created, history>>
        BY <1>2 DEF Tick, DInv
  <2>2. \A r \in Request : Asking(requests[r])'
        BY <2>1 DEF DInv, Asking, RequestState
  <2>   QED  BY <2>1, <2>2 DEF DInv, Sound
<1>3. ASSUME NEW r \in Request, Write(r) PROVE DInv'
      BY <1>3, WriteBecomes, CommitDInv
<1>4. ASSUME NEW r \in Request, Refuse(r) PROVE DInv'
  <2>1. Free.at <= now
        BY FreeIsIdle DEF DInv
  <2>   QED  BY <1>4, <2>1, FreeIsIdle, BeginsDInv DEF Refuse
<1>5. ASSUME NEW r \in Request, NEW u \in User, NEW d \in DocId,
             BeginLocking(r, u, d) \/ BeginCheckin(r, u, d)
      PROVE  DInv'
  <2>1. PICK op \in Op : Begin(r, u, d, op)
        BY <1>5 DEF BeginLocking, BeginCheckin, Op
  <2>   QED  BY <2>1, BeginDInv
<1>   QED  BY <1>1, <1>2, <1>3, <1>4, <1>5, CreateDInv, BeginUpdateDInv DEF Next

--------------------------------------------------------------------------------
(* The theorems                                                               *)

\* Every variable keeps its type, and every document its pointer to its newest
\* version, at most that one open, and a lock an owner exactly with an expiry.
THEOREM TypeCorrect == Spec => [](TypeOK /\ CurrentIsNewest)
<1>1. Init => DInv
      BY InitDInv
<1>2. DInv /\ [Next]_vars => DInv'
      BY NextDInv
<1>3. DInv => TypeOK
      BY DEF DInv, TypeOK
<1>4. DInv => CurrentIsNewest
  <2>   SUFFICES ASSUME DInv, NEW d \in DocId, Exists(d)
                 PROVE  /\ documents[d].versions # <<>>
                        /\ documents[d].current = Len(documents[d].versions)
                        /\ Drafts(d) \subseteq {Len(documents[d].versions)}
                        /\ documents[d].lockedBy = NoUser <=> documents[d].lockExpiresAt = Never
        BY DEF CurrentIsNewest
  <2>1. Sound(documents[d]) /\ documents[d].uid # NoUid
        BY DEF DInv, Exists
  <2>2. Drafts(d) \subseteq {Len(documents[d].versions)}
        BY <2>1, VersionsOf DEF Sound, Drafts
  <2>   QED  BY <2>1, <2>2 DEF Sound
<1>   QED  BY <1>1, <1>2, <1>3, <1>4, PTL DEF Spec

\* The three kinds of steps: of nobody's row, of no row, of a request's row.
LEMMA RowsChange ==
  ASSUME DInv, [Next]_vars, NEW d \in DocId, documents'[d] # documents[d]
  PROVE  \/ ~Exists(d)
         \/ \E r \in Request : \E row :
              Commit(r, row) /\ Becomes(r, row) /\ requests[r].id = d /\ requests[r].op # "none"
<1>1. CASE \E fields \in Fields : CreateDocument(fields)
  <2>1. d # NextId => documents'[d] = documents[d]
        BY <1>1 DEF CreateDocument, DInv
  <2>2. NextId \in DocId
        BY <1>1 DEF CreateDocument
  <2>   QED  BY <2>1, <2>2, NextIdIsFree
<1>2. ASSUME NEW r \in Request, Write(r)
      PROVE  \E row : Commit(r, row) /\ Becomes(r, row) /\ requests[r].id = d /\ requests[r].op # "none"
  <2>1. PICK row : Commit(r, row) /\ Becomes(r, row)
        BY <1>2, WriteBecomes
  <2>2. requests[r].id = d
        BY <2>1 DEF Commit, DInv
  <2>3. requests[r].op # "none"
        BY <1>2 DEF Write, Checkout, UpdateDraft, Checkin, CancelCheckout, Revert
  <2>   QED  BY <2>1, <2>2, <2>3
<1>3. CASE UNCHANGED documents
      BY <1>3
<1>   QED  BY <1>1, <1>2, <1>3 DEF Next, vars, Tick, BeginLocking, BeginCheckin, BeginUpdateDraft, Begin, Refuse

\* However many requests act on however stale reads, a version that was checked
\* in stays, unchanged: a publish may be pinned to it (store.Checkin, Revert).
THEOREM CheckedInStays == Spec => CheckedInIsForever
<1>1. ASSUME DInv, [Next]_vars, NEW d \in DocId, NEW n \in CheckedIn(d)
      PROVE  n \in DOMAIN documents'[d].versions /\ documents'[d].versions[n] = documents[d].versions[n]
  <2>1. n \in DOMAIN documents[d].versions /\ documents[d].versions[n].checkedIn
        BY DEF CheckedIn
  <2>2. CASE documents'[d] = documents[d]
        BY <2>1, <2>2
  <2>3. CASE documents'[d] # documents[d]
    <3>1. Exists(d)
          BY <1>1, <2>1, VersionsOf, EmptySeq DEF DInv, Sound, Exists, NoDocument
    <3>2. PICK r \in Request : \E row : Commit(r, row) /\ Becomes(r, row) /\ requests[r].id = d
          BY <1>1, <2>3, <3>1, RowsChange
    <3>3. Keeps(documents[d], documents'[d])
          BY <1>1, <3>2 DEF Commit, Becomes, DInv
    <3>   QED  BY <2>1, <3>3 DEF Keeps
  <2>   QED  BY <2>2, <2>3
<1>2. DInv /\ [Next]_vars =>
        [\A d \in DocId : \A n \in CheckedIn(d) :
           /\ n \in DOMAIN documents'[d].versions
           /\ documents'[d].versions[n] = documents[d].versions[n]]_vars
      BY <1>1
<1>3. Init => DInv
      BY InitDInv
<1>4. DInv /\ [Next]_vars => DInv'
      BY NextDInv
<1>   QED  BY <1>2, <1>3, <1>4, PTL DEF Spec, CheckedInIsForever

\* Nobody but the holder of a lease that is live by the real clock changes the
\* document or the lease, whenever the others read it (store.holdLease).
THEOREM LiveLeasesProtect == Spec => LiveLeaseProtects
<1>   DEFINE held(d) == /\ documents[d].lockedBy # NoUser
                        /\ documents[d].lockExpiresAt > now
                        /\ documents'[d] # documents[d]
             holders(d) == \E r \in Request : /\ requests[r].user = documents[d].lockedBy
                                              /\ requests[r].id = d
                                              /\ requests'[r] = Free
<1>1. ASSUME DInv, [Next]_vars, NEW d \in DocId, held(d)
      PROVE  holders(d)
  <2>1. Exists(d)
        BY <1>1 DEF DInv, Sound, Exists, NoDocument
  <2>2. PICK r \in Request : \E row : /\ Commit(r, row) /\ Becomes(r, row)
                                       /\ requests[r].id = d /\ requests[r].op # "none"
        BY <1>1, <2>1, RowsChange
  <2>3. requests[r].at \in Nat /\ requests[r].at <= now /\ now \in Nat
        BY <1>1, <2>2, AskingFacts DEF DInv
  <2>4. documents[d].lockExpiresAt \in Nat \cup {Never}
        BY <1>1 DEF DInv, Document
  <2>5. ~Unlocked(d, requests[r].at)
        BY <1>1, <2>3, <2>4 DEF Unlocked, Never
  <2>6. documents[d].lockedBy = requests[r].user
        BY <2>2, <2>5 DEF Becomes
  <2>7. requests'[r] = Free
        BY <1>1, <2>2 DEF Commit, DInv
  <2>   QED  BY <2>2, <2>6, <2>7
<1>2. DInv /\ [Next]_vars => [\A d \in DocId : held(d) => holders(d)]_vars
      BY <1>1
<1>3. Init => DInv
      BY InitDInv
<1>4. DInv /\ [Next]_vars => DInv'
      BY NextDInv
<1>   QED  BY <1>2, <1>3, <1>4, PTL DEF Spec, LiveLeaseProtects
================================================================================
