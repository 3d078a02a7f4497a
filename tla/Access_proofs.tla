----------------------------- MODULE Access_proofs -----------------------------
(***************************************************************************)
(* Nobody hands out more than they hold, for all roles, grants, scopes and *)
(* subjects, and however requests interleave: the algebra of scopes first, *)
(* then what a request may hold, then the property.  And accounts, the     *)
(* rows of invitations and the events told of them agree, whoever is cut   *)
(* off between two transactions.                                           *)
(***************************************************************************)
EXTENDS Access, TLAPS

--------------------------------------------------------------------------------
(* Scopes                                                                     *)

\* A scope that covers another matches every subject the other matches.
LEMMA CoveringMatches ==
  ASSUME NEW outer, NEW inner, NEW subject,
         CategoryOrNone(outer.category), CategoryOrNone(inner.category), CategoryOrNone(subject.category),
         Covers(outer, inner), ScopeMatches(inner, subject)
  PROVE  ScopeMatches(outer, subject)
<1>1. \A a \in DOMAIN outer.at : outer.at[a] = subject.at[a]
      BY DEF Covers, ScopeMatches
<1>2. ASSUME outer.category # NoCategory
      PROVE  categoryMatches(outer.category, outer.deep, subject.category)
  <2>1. /\ inner.category # NoCategory
        /\ categoryMatches(outer.category, outer.deep, inner.category)
        /\ inner.deep => outer.deep
        /\ categoryMatches(inner.category, inner.deep, subject.category)
        BY <1>2 DEF Covers, ScopeMatches
  <2>2. /\ outer.category \in Seq(STRING) /\ inner.category \in Seq(STRING)
        /\ subject.category \in Seq(STRING)
        BY <1>2, <2>1 DEF CategoryOrNone, categoryMatches
  <2>   QED  BY <2>1, <2>2 DEF categoryMatches
<1>   QED  BY <1>1, <1>2 DEF ScopeMatches

\* Two scopes that match one subject intersect.
LEMMA MatchingBothIntersects ==
  ASSUME NEW a, NEW b, NEW subject,
         CategoryOrNone(a.category), CategoryOrNone(b.category), CategoryOrNone(subject.category),
         ScopeMatches(a, subject), ScopeMatches(b, subject)
  PROVE  Intersects(a, b)
<1>1. \A f \in DOMAIN a.at \cap DOMAIN b.at : a.at[f] = b.at[f]
      BY DEF ScopeMatches
<1>2. ASSUME a.category # NoCategory, b.category # NoCategory
      PROVE  \/ categoryMatches(a.category, a.deep, b.category)
             \/ categoryMatches(b.category, b.deep, a.category)
  <2>1. /\ categoryMatches(a.category, a.deep, subject.category)
        /\ categoryMatches(b.category, b.deep, subject.category)
        BY <1>2 DEF ScopeMatches
  <2>2. /\ a.category \in Seq(STRING) /\ b.category \in Seq(STRING)
        /\ subject.category \in Seq(STRING)
        BY <1>2, <2>1 DEF CategoryOrNone, categoryMatches
  <2>3. Len(a.category) <= Len(b.category) \/ Len(b.category) <= Len(a.category)
        BY <2>2
  <2>4. CASE a.category = subject.category
        BY <1>2, <2>1, <2>4
  <2>5. CASE b.category = subject.category
        BY <1>2, <2>1, <2>5
  <2>6. CASE a.category # subject.category /\ b.category # subject.category
    <3>1. /\ a.deep /\ Len(a.category) <= Len(subject.category)
          /\ \A i \in 1..Len(a.category) : subject.category[i] = a.category[i]
          /\ b.deep /\ Len(b.category) <= Len(subject.category)
          /\ \A i \in 1..Len(b.category) : subject.category[i] = b.category[i]
          BY <2>1, <2>6 DEF categoryMatches
    <3>   QED  BY <1>2, <2>2, <2>3, <3>1 DEF categoryMatches
  <2>   QED  BY <2>4, <2>5, <2>6
<1>   QED  BY <1>1, <1>2 DEF Intersects

\* Among privileges there is a greatest.
LEMMA GreatestPrivilege ==
  ASSUME NEW P \in SUBSET (Privileges \cup {NoPrivilege}), P # {}
  PROVE  LET m == CHOOSE p \in P : \A q \in P : q <= p
         IN  m \in P /\ \A q \in P : q <= m
<1>1. P \subseteq {0, 1, 2, 3, 4, 5, 255}
      BY DEF Privileges, NoPrivilege, Read, Publish, Deny
<1>2. \E p \in P : \A q \in P : q <= p
  <2>1. CASE 255 \in P
        BY <1>1, <2>1
  <2>2. CASE 255 \notin P /\ (4 \in P \/ 5 \in P)
        BY <1>1, <2>2
  <2>3. CASE P \subseteq {0, 1, 2, 3} /\ (2 \in P \/ 3 \in P)
        BY <2>3
  <2>4. CASE P \subseteq {0, 1} /\ 1 \in P
        BY <2>4
  <2>5. CASE P = {0}
        BY <2>5
  <2>6. 255 \notin P /\ 4 \notin P /\ 5 \notin P => P \subseteq {0, 1, 2, 3}
        BY <1>1
  <2>7. P \subseteq {0, 1, 2, 3} /\ 2 \notin P /\ 3 \notin P => P \subseteq {0, 1}
        OBVIOUS
  <2>8. P \subseteq {0, 1} /\ 1 \notin P => P = {0}
        OBVIOUS
  <2>   QED  BY <2>1, <2>2, <2>3, <2>4, <2>5, <2>6, <2>7, <2>8
<1>   QED  BY <1>2

\* A grant as the properties read it.
Typed(g) == g.privilege \in Privileges /\ CategoryOrNone(g.scope.category)

\* Whoever may grant a privilege over a scope has it over every subject in it:
\* what they hold covers the scope, and nothing they hold denies any of it.
THEOREM CanGrantIsWithinReach ==
  ASSUME NEW held, \A g \in held : Typed(g),
         NEW scope, CategoryOrNone(scope.category),
         NEW subject, CategoryOrNone(subject.category),
         NEW p, CanGrant(held, scope, p), ScopeMatches(scope, subject)
  PROVE  Allows(held, subject, Needed(p))
<1>   DEFINE conferred == {g.privilege : g \in {h \in held : h.privilege # Deny /\ Covers(h.scope, scope)}}
                           \cup {NoPrivilege}
             most == CHOOSE q \in conferred : \A r \in conferred : r <= q
             matching == Matching(held, subject) \cup {NoPrivilege}
             got == CHOOSE q \in matching : \A r \in matching : r <= q
<1>1. p \in Privileges /\ allows(Delegable(held, scope), Needed(p))
      BY DEF CanGrant
<1>2. Needed(p) \in 1..5
      BY <1>1 DEF Needed, Privileges, Read, Publish, Deny
<1>3. /\ ~\E g \in held : g.privilege = Deny /\ Intersects(g.scope, scope)
      /\ Delegable(held, scope) = most
  <2>1. ~allows(NoPrivilege, Needed(p))
        BY <1>2 DEF allows, NoPrivilege
  <2>   QED  BY <1>1, <2>1 DEF Delegable
<1>4. conferred \in SUBSET (Privileges \cup {NoPrivilege}) /\ conferred # {}
      BY DEF Typed
<1>5. most \in conferred /\ most # Deny /\ most >= Needed(p)
      BY <1>1, <1>3, <1>4, GreatestPrivilege DEF allows
<1>6. PICK h \in held : h.privilege = most /\ h.privilege # Deny /\ Covers(h.scope, scope)
      BY <1>2, <1>5 DEF NoPrivilege
<1>7. ScopeMatches(h.scope, subject)
      BY <1>6, CoveringMatches DEF Typed
<1>8. matching \in SUBSET (Privileges \cup {NoPrivilege}) /\ matching # {}
      BY DEF Matching, Typed
<1>9. most \in matching
      BY <1>6, <1>7 DEF Matching
<1>10. got \in matching /\ got >= most
      BY <1>8, <1>9, GreatestPrivilege
<1>11. Deny \notin matching
  <2>1. SUFFICES ASSUME NEW g \in held, ScopeMatches(g.scope, subject), g.privilege = Deny
                 PROVE  FALSE
        BY DEF Matching, NoPrivilege, Deny
  <2>2. Intersects(g.scope, scope)
        BY <2>1, MatchingBothIntersects DEF Typed
  <2>   QED  BY <1>3, <2>1, <2>2
<1>12. got >= Needed(p)
      BY <1>2, <1>4, <1>5, <1>8, <1>10 DEF Privileges, NoPrivilege, Read, Publish, Deny
<1>   QED  BY <1>10, <1>11, <1>12 DEF Allows, Resolve, allows

--------------------------------------------------------------------------------
(* Requests                                                                   *)

\* The fields a request has, whatever is in them.
IsRequest(q) ==
  q \in [op : {q.op}, who : {q.who}, held : {q.held}, session : {q.session}, of : {q.of},
         arg : {q.arg}, event : {q.event}]

\* Every grant there is or a request holds a copy of is a grant, and no one that
\* was made reaches further than its maker did.
IInv ==
  /\ \A g \in grants : Typed(g)
  /\ requests = [r \in Request |-> requests[r]]
  /\ \A r \in Request : IsRequest(requests[r]) /\ \A g \in requests[r].held : Typed(g)
  /\ GrantsWithinReach

LEMMA FreeIsRequest == IsRequest(Free) /\ Free.held = {}
BY DEF Free, IsRequest

LEMMA InitIInv == Init => IInv
<1>   SUFFICES ASSUME Init PROVE IInv
      OBVIOUS
<1>1. requests = [r \in Request |-> Free] /\ grants = StartGrants
      BY DEF Init
<1>2. requests = [r \in Request |-> requests[r]] /\ \A r \in Request : requests[r] = Free
      BY <1>1
<1>3. \A g \in grants : Typed(g)
      BY <1>1, AccessAssumption DEF Typed
<1>4. GrantsWithinReach
      BY <1>1 DEF GrantsWithinReach
<1>   QED  BY <1>2, <1>3, <1>4, FreeIsRequest DEF IInv

\* A step that makes no grant and whose request holds what it held, nothing, or
\* what its caller has.
LEMMA OtherRequestsIInv ==
  ASSUME IInv, grants' = grants, NEW r \in Request, NEW q, IsRequest(q),
         \A g \in q.held : Typed(g),
         requests' = [requests EXCEPT ![r] = q]
  PROVE  IInv'
BY DEF IInv, GrantsWithinReach

\* Ending, and going on with what was held.
LEMMA EndsIInv ==
  ASSUME IInv, grants' = grants, NEW r \in Request, Ends(r)
  PROVE  IInv'
BY OtherRequestsIInv, FreeIsRequest DEF Ends, Goes

\* A request that begins with its first read, and holds nothing.
LEMMA StartIInv ==
  ASSUME IInv, grants' = grants, NEW r \in Request, NEW q, Start(r, q),
         IsRequest(q), q.held = {}
  PROVE  IInv'
BY OtherRequestsIInv DEF Start

\* One that goes on holds what it held.
LEMMA GoesIInv ==
  ASSUME IInv, grants' = grants, NEW r \in Request, NEW q, Goes(r, q),
         IsRequest(q), q.held = requests[r].held \/ q.held = {}
  PROVE  IInv'
BY OtherRequestsIInv DEF Goes, IInv

LEMMA HeldIsTyped ==
  ASSUME IInv, NEW r \in Request
  PROVE  IsRequest(requests[r]) /\ \A g \in requests[r].held : Typed(g)
BY DEF IInv

\* Writing a row and telling of it next.
LEMMA ThenTellsIInv ==
  ASSUME IInv, grants' = grants, NEW r \in Request, NEW e, ThenTells(r, e)
  PROVE  IInv'
<1>   DEFINE q == [requests[r] EXCEPT !.op = "tell", !.event = e]
<1>1. IsRequest(q) /\ q.held = requests[r].held
      BY HeldIsTyped DEF IsRequest
<1>   QED  BY <1>1, GoesIInv DEF ThenTells

LEMMA StepIInv == IInv /\ [Next]_vars => IInv'
<1>   SUFFICES ASSUME IInv, [Next]_vars PROVE IInv'
      OBVIOUS
<1>1. CASE UNCHANGED vars
      BY <1>1 DEF vars, IInv, GrantsWithinReach
<1>2. CASE Tick
      BY <1>2 DEF Tick, IInv, GrantsWithinReach
<1>3. ASSUME NEW r \in Request, Serve(r) PROVE IInv'
  <2>0. IsRequest(requests[r])
        BY HeldIsTyped
  <2>1. CASE SignIn(r)
    <3>1. PICK u \in DOMAIN users : Start(r, [Free EXCEPT !.op = "issue", !.who = u])
          BY <2>1 DEF SignIn
    <3>   DEFINE q == [Free EXCEPT !.op = "issue", !.who = u]
    <3>2. IsRequest(q) /\ q.held = {}
          BY DEF Free, IsRequest
    <3>   QED  BY <2>1, <3>1, <3>2, StartIInv DEF SignIn
  <2>2. CASE issue(r)
        BY <2>2, ThenTellsIInv DEF issue
  <2>3. CASE FindSession(r)
    <3>1. PICK s \in DOMAIN sessions, o \in {"authenticate", "drop"} :
            Start(r, [Free EXCEPT !.op = o, !.who = sessions[s].user, !.session = s])
          BY <2>3 DEF FindSession
    <3>   DEFINE q == [Free EXCEPT !.op = o, !.who = sessions[s].user, !.session = s]
    <3>2. IsRequest(q) /\ q.held = {}
          BY DEF Free, IsRequest
    <3>   QED  BY <2>3, <3>1, <3>2, StartIInv DEF FindSession
  <2>4. CASE DropExpired(r)
        BY <2>4, EndsIInv DEF DropExpired
  <2>5. CASE Authenticate(r)
    <3>   DEFINE q == [requests[r] EXCEPT !.op = "authenticated", !.held = GrantsForUser(requests[r].who)]
    <3>1. IsRequest(q) /\ q.held = GrantsForUser(requests[r].who)
          BY <2>0 DEF IsRequest
    <3>2. \A g \in q.held : Typed(g)
          BY <3>1 DEF GrantsForUser, IInv
    <3>   QED  BY <2>5, <3>1, <3>2, OtherRequestsIInv DEF Authenticate, Goes
  <2>6. CASE Logout(r)
        BY <2>6, ThenTellsIInv DEF Logout
  <2>7. CASE BeginInvitation(r)
    <3>1. PICK e \in Email : Goes(r, [requests[r] EXCEPT !.op = "invite", !.arg = <<e, now>>])
          BY <2>7 DEF BeginInvitation
    <3>   DEFINE q == [requests[r] EXCEPT !.op = "invite", !.arg = <<e, now>>]
    <3>2. IsRequest(q) /\ q.held = requests[r].held
          BY <2>0 DEF IsRequest
    <3>   QED  BY <2>7, <3>1, <3>2, GoesIInv DEF BeginInvitation
  <2>8. CASE CreateInvitation(r)
        BY <2>8, EndsIInv DEF CreateInvitation
  <2>9. CASE BeginRevocation(r)
    <3>1. PICK i \in DOMAIN invitations : Goes(r, [requests[r] EXCEPT !.op = "revoke", !.of = i])
          BY <2>9 DEF BeginRevocation
    <3>   DEFINE q == [requests[r] EXCEPT !.op = "revoke", !.of = i]
    <3>2. IsRequest(q) /\ q.held = requests[r].held
          BY <2>0 DEF IsRequest
    <3>   QED  BY <2>9, <3>1, <3>2, GoesIInv DEF BeginRevocation
  <2>10. CASE RevokeInvitation(r)
        BY <2>10, EndsIInv DEF RevokeInvitation
  <2>11. CASE BeginRedemption(r)
    <3>1. PICK i \in DOMAIN invitations, o \in {"lapsed", "redeem"} :
            Start(r, [Free EXCEPT !.op = o, !.of = i])
          BY <2>11 DEF BeginRedemption
    <3>   DEFINE q == [Free EXCEPT !.op = o, !.of = i]
    <3>2. IsRequest(q) /\ q.held = {}
          BY DEF Free, IsRequest
    <3>   QED  BY <2>11, <3>1, <3>2, StartIInv DEF BeginRedemption
  <2>12. CASE Redeem(r)
        BY <2>12, EndsIInv DEF Redeem
  <2>13. CASE CreateUser(r)
    <3>1. PICK e \in Email : Start(r, [Free EXCEPT !.op = "tell", !.event = <<"user.created", e>>])
          BY <2>13 DEF CreateUser
    <3>   DEFINE q == [Free EXCEPT !.op = "tell", !.event = <<"user.created", e>>]
    <3>2. IsRequest(q) /\ q.held = {}
          BY DEF Free, IsRequest
    <3>   QED  BY <2>13, <3>1, <3>2, StartIInv DEF CreateUser
  <2>14. CASE grantAdminRole(r)
        BY <2>14, EndsIInv DEF grantAdminRole
  <2>15. CASE CreateGrant(r)
    <3>1. PICK role \in Role, p \in OfferedPrivileges, s \in Offered :
            /\ CanGrant(requests[r].held, s, p)
            /\ grants' = grants \cup {[role |-> role, privilege |-> p, scope |-> s, by |-> requests[r].held]}
            /\ ThenTells(r, <<"grant.created", role>>)
          BY <2>15 DEF CreateGrant
    <3>   DEFINE g == [role |-> role, privilege |-> p, scope |-> s, by |-> requests[r].held]
                 q == [requests[r] EXCEPT !.op = "tell", !.event = <<"grant.created", role>>]
    <3>2. Typed(g)
          BY AccessAssumption DEF Typed
    <3>3. \A subject \in Subject : ScopeMatches(g.scope, subject) => Allows(g.by, subject, Needed(g.privilege))
          BY <3>1, HeldIsTyped, AccessAssumption, CanGrantIsWithinReach
    <3>4. IsRequest(q) /\ q.held = requests[r].held
          BY <2>0 DEF IsRequest
    <3>5. requests' = [requests EXCEPT ![r] = q]
          BY <3>1 DEF ThenTells, Goes
    <3>6. (\A h \in grants : Typed(h))' /\ GrantsWithinReach'
          BY <3>1, <3>2, <3>3 DEF IInv, GrantsWithinReach
    <3>   QED  BY <3>4, <3>5, <3>6 DEF IInv
  <2>16. CASE BeginAssigning(r)
    <3>1. PICK u \in DOMAIN users, role \in Role : Goes(r, [requests[r] EXCEPT !.op = "assign", !.arg = <<u, role>>])
          BY <2>16 DEF BeginAssigning
    <3>   DEFINE q == [requests[r] EXCEPT !.op = "assign", !.arg = <<u, role>>]
    <3>2. IsRequest(q) /\ q.held = requests[r].held
          BY <2>0 DEF IsRequest
    <3>   QED  BY <2>16, <3>1, <3>2, GoesIInv DEF BeginAssigning
  <2>17. CASE AssignRole(r)
        BY <2>17, ThenTellsIInv DEF AssignRole
  <2>18. CASE Tell(r)
    <3>1. CASE requests[r].event[1] = "user.created"
      <4>1. Goes(r, [Free EXCEPT !.op = "promote", !.who = requests[r].event[2]])
            BY <2>18, <3>1 DEF Tell
      <4>   DEFINE q == [Free EXCEPT !.op = "promote", !.who = requests[r].event[2]]
      <4>2. IsRequest(q) /\ q.held = {}
            BY DEF Free, IsRequest
      <4>   QED  BY <2>18, <4>1, <4>2, GoesIInv DEF Tell
    <3>2. CASE requests[r].event[1] # "user.created"
          BY <2>18, <3>2, EndsIInv DEF Tell
    <3>   QED  BY <3>1, <3>2
  <2>19. CASE GiveUp(r)
        BY <2>19, EndsIInv DEF GiveUp
  <2>   QED  BY <1>3, <2>1, <2>2, <2>3, <2>4, <2>5, <2>6, <2>7, <2>8, <2>9, <2>10, <2>11, <2>12, <2>13,
                <2>14, <2>15, <2>16, <2>17, <2>18, <2>19 DEF Serve
<1>   QED  BY <1>1, <1>2, <1>3 DEF Next

\* Nobody confers or forbids what they could not do themselves, over any subject
\* (authz.CanGrant against authz.Resolve), whatever requests run beside it.
THEOREM NobodyExceedsTheirReach == Spec => []GrantsWithinReach
<1>1. IInv => GrantsWithinReach
      BY DEF IInv
<1>   QED  BY <1>1, InitIInv, StepIInv, PTL DEF Spec

--------------------------------------------------------------------------------
(* Accounts and invitations                                                   *)

\* How often a bag of events tells of one.
Times(event, bag) == IF BagIn(event, bag) THEN bag[event] ELSE 0

LEMMA TellingCounts ==
  ASSUME NEW bag, IsABag(bag), NEW S
  PROVE  /\ IsABag(bag (+) SetToBag(S))
         /\ \A e : Times(e, bag (+) SetToBag(S)) = Times(e, bag) + (IF e \in S THEN 1 ELSE 0)
BY DEF IsABag, (+), SetToBag, Times, BagIn, BagToSet

LEMMA TimesIsNat == ASSUME NEW bag, IsABag(bag) PROVE \A e : Times(e, bag) \in Nat
BY DEF Times, IsABag, BagIn, BagToSet

\* Every row has the history its status has, rows to come have none, and an
\* address is told of once if an invitation made its account, and not before.
History ==
  /\ \A i \in Nat : Times(<<"invitation.created", i>>, told) = IF i \in DOMAIN invitations THEN 1 ELSE 0
  /\ \A i \in Nat : \A status \in InvitationStatuses \ {"pending"} :
       Times(<<status, i>>, told)
         = IF i \in DOMAIN invitations /\ invitations[i].status = status THEN 1 ELSE 0
  /\ \A i \in DOMAIN invitations : Terminal(invitations[i].status) => ~invitations[i].link
  /\ \A e \in Email : /\ e \notin DOMAIN users => Times(<<"user.created", e>>, told) = 0
                      /\ e \in DOMAIN users /\ users[e] # 0 => Times(<<"user.created", e>>, told) = 1

Accounts == InvitationsTypeOK /\ AccountsMatchInvitations /\ History

\* The events that a request tells of after its write.
AfterTheWrite(event, accounts) ==
  \/ event[1] \in {"session.created", "session.ended", "grant.created", "role.assigned"}
  \/ \E e \in DOMAIN accounts : accounts[e] = 0 /\ event = <<"user.created", e>>

\* What a request has read is there, for rows are never deleted.
Asks(q, accounts, rows) ==
  /\ q.op \in {"revoke", "redeem", "lapsed"} => q.of \in DOMAIN rows
  /\ q.op = "invite" => q.arg[1] \in Email /\ q.arg[2] \in Nat
  /\ q.op = "tell" => AfterTheWrite(q.event, accounts)

AInv == Accounts /\ \A r \in Request : Asks(requests[r], users, invitations)

LEMMA HistoryIsExplained == Accounts => HistoryExplainsInvitations
BY DEF Accounts, History, HistoryExplainsInvitations, InvitationsTypeOK, timesTold, Times

LEMMA InitAInv == Init => AInv
<1>   SUFFICES ASSUME Init PROVE AInv
      OBVIOUS
<1>1. IsABag(told) /\ \A e : Times(e, told) = 0
      BY DEF Init, IsABag, EmptyBag, SetToBag, Times, BagIn, BagToSet
<1>2. DOMAIN users = StartUsers /\ (\A e \in StartUsers : users[e] = 0) /\ invitations = <<>> /\ now = 0
      BY DEF Init
<1>3. InvitationsTypeOK
      BY <1>1, <1>2, AccessAssumption DEF InvitationsTypeOK
<1>4. AccountsMatchInvitations
      BY <1>2 DEF AccountsMatchInvitations
<1>5. History
      BY <1>1, <1>2 DEF History
<1>6. \A r \in Request : requests[r] = Free
      BY DEF Init
<1>7. Asks(Free, users, invitations)
      BY DEF Asks, Free
<1>   QED  BY <1>3, <1>4, <1>5, <1>6, <1>7 DEF AInv, Accounts

\* Rows and accounts stay, so what was read is there.
LEMMA RequestsStand ==
  ASSUME AInv, IInv,
         DOMAIN users \subseteq DOMAIN users', \A e \in DOMAIN users : users'[e] = users[e],
         DOMAIN invitations \subseteq DOMAIN invitations',
         NEW r \in Request, NEW q, requests' = [requests EXCEPT ![r] = q],
         Asks(q, users', invitations')
  PROVE  \A s \in Request : Asks(requests'[s], users', invitations')
BY DEF AInv, IInv, Asks, AfterTheWrite

\* A step of a request that changes no account and tells nothing.
LEMMA RequestMovesAInv ==
  ASSUME AInv, IInv, UNCHANGED accountVars, now' \in Nat, NEW r \in Request, NEW q,
         requests' = [requests EXCEPT ![r] = q], Asks(q, users, invitations)
  PROVE  AInv'
<1>1. Accounts'
      BY DEF AInv, Accounts, InvitationsTypeOK, AccountsMatchInvitations, History, accountVars, Pending
<1>2. \A s \in Request : Asks(requests'[s], users', invitations')
      BY RequestsStand DEF accountVars
<1>   QED  BY <1>1, <1>2 DEF AInv

\* Most requests have read nothing that the invariant speaks of.
LEMMA OthersAsk ==
  ASSUME NEW q, q.op \notin {"revoke", "redeem", "lapsed", "invite", "tell"}, NEW accounts, NEW rows
  PROVE  Asks(q, accounts, rows)
BY DEF Asks

LEMMA EndsAInv ==
  ASSUME AInv, IInv, Accounts', NEW r \in Request, Ends(r),
         DOMAIN users \subseteq DOMAIN users', \A e \in DOMAIN users : users'[e] = users[e],
         DOMAIN invitations \subseteq DOMAIN invitations'
  PROVE  AInv'
<1>1. Asks(Free, users', invitations')
      BY DEF Asks, Free
<1>   QED  BY <1>1, RequestsStand DEF Ends, Goes, AInv

LEMMA ThenTellsAInv ==
  ASSUME AInv, IInv, UNCHANGED accountVars, now' \in Nat, NEW r \in Request, NEW e, ThenTells(r, e),
         AfterTheWrite(e, users)
  PROVE  AInv'
<1>   DEFINE q == [requests[r] EXCEPT !.op = "tell", !.event = e]
<1>1. IsRequest(q) /\ q.op = "tell" /\ q.event = e
      BY HeldIsTyped DEF IsRequest
<1>2. Asks(q, users, invitations)
      BY <1>1 DEF Asks
<1>   QED  BY <1>2, RequestMovesAInv DEF ThenTells, Goes

\* What is told in a transaction, counted.
LEMMA ToldCounts ==
  ASSUME Accounts, NEW S, recordEvents(SetToBag(S))
  PROVE  /\ IsABag(told')
         /\ \A e : Times(e, told') = Times(e, told) + (IF e \in S THEN 1 ELSE 0)
BY TellingCounts DEF Accounts, InvitationsTypeOK, recordEvents

\* One row is settled by its transaction and told of: the other rows stay.
LEMMA SettledHistory ==
  ASSUME Accounts, NEW i \in DOMAIN invitations, Pending(i),
         NEW row, row \in Invitation, NEW status \in InvitationStatuses \ {"pending"},
         row.status = status, ~row.link,
         invitations' = [invitations EXCEPT ![i] = row],
         IsABag(told'), NEW S, <<status, i>> \in S,
         \A e : Times(e, told') = Times(e, told) + (IF e \in S THEN 1 ELSE 0),
         \A e \in S : e = <<status, i>> \/ e[1] = "user.created"
  PROVE  /\ \A j \in Nat : Times(<<"invitation.created", j>>, told')
                             = IF j \in DOMAIN invitations' THEN 1 ELSE 0
         /\ \A j \in Nat : \A st \in InvitationStatuses \ {"pending"} :
              Times(<<st, j>>, told')
                = IF j \in DOMAIN invitations' /\ invitations'[j].status = st THEN 1 ELSE 0
         /\ \A j \in DOMAIN invitations' : Terminal(invitations'[j].status) => ~invitations'[j].link
<1>1. DOMAIN invitations' = DOMAIN invitations /\ invitations'[i] = row
      /\ \A j \in DOMAIN invitations : j # i => invitations'[j] = invitations[j]
      BY DEF Accounts, InvitationsTypeOK
<1>2. \A j \in Nat : <<"invitation.created", j>> \notin S
      BY DEF InvitationStatuses
<1>3. \A j \in Nat : \A st \in InvitationStatuses \ {"pending"} :
        <<st, j>> \in S <=> (st = status /\ j = i)
      BY DEF InvitationStatuses
<1>4. \A j \in Nat : Times(<<"invitation.created", j>>, told') = IF j \in DOMAIN invitations' THEN 1 ELSE 0
  <2>1. SUFFICES ASSUME NEW j \in Nat
                 PROVE  Times(<<"invitation.created", j>>, told') = IF j \in DOMAIN invitations' THEN 1 ELSE 0
        OBVIOUS
  <2>2. Times(<<"invitation.created", j>>, told) = IF j \in DOMAIN invitations THEN 1 ELSE 0
        BY DEF Accounts, History
  <2>3. Times(<<"invitation.created", j>>, told') = Times(<<"invitation.created", j>>, told) + 0
        BY <1>2
  <2>   QED  BY <1>1, <2>2, <2>3
<1>5. \A j \in Nat : \A st \in InvitationStatuses \ {"pending"} :
        Times(<<st, j>>, told') = IF j \in DOMAIN invitations' /\ invitations'[j].status = st THEN 1 ELSE 0
  <2>1. SUFFICES ASSUME NEW j \in Nat, NEW st \in InvitationStatuses \ {"pending"}
                 PROVE  Times(<<st, j>>, told')
                          = IF j \in DOMAIN invitations' /\ invitations'[j].status = st THEN 1 ELSE 0
        OBVIOUS
  <2>2. Times(<<st, j>>, told) = IF j \in DOMAIN invitations /\ invitations[j].status = st THEN 1 ELSE 0
        BY DEF Accounts, History
  <2>3. Times(<<st, j>>, told') = Times(<<st, j>>, told) + (IF st = status /\ j = i THEN 1 ELSE 0)
        BY <1>3
  <2>   QED  BY <1>1, <2>2, <2>3 DEF Pending
<1>6. \A j \in DOMAIN invitations' : Terminal(invitations'[j].status) => ~invitations'[j].link
      BY <1>1 DEF Accounts, History
<1>   QED  BY <1>4, <1>5, <1>6

LEMMA SettledRow ==
  ASSUME NEW row \in Invitation, NEW status \in InvitationStatuses
  PROVE  /\ settled(row, status) \in Invitation
         /\ settled(row, status).status = status /\ ~settled(row, status).link
         /\ settled(row, status).user = row.user /\ settled(row, status).email = row.email
         /\ settled(row, status).expires = row.expires
BY DEF settled, Invitation

\* UPDATE ... WHERE status = 'pending', and its event.
LEMMA SettlingAccounts ==
  ASSUME Accounts, NEW i \in DOMAIN invitations, SettleInvitation(i, "revoked"), UNCHANGED <<users, now>>
  PROVE  Accounts'
<1>1. CASE ~Pending(i)
      BY <1>1 DEF SettleInvitation, Accounts, InvitationsTypeOK, AccountsMatchInvitations, History, Pending
<1>2. CASE Pending(i)
  <2>   DEFINE row == settled(invitations[i], "revoked")
               S == {<<"revoked", i>>}
  <2>1. invitations' = [invitations EXCEPT ![i] = row] /\ recordEvents(SetToBag(S))
        BY <1>2 DEF SettleInvitation
  <2>2. row \in Invitation /\ row.status = "revoked" /\ ~row.link
        BY SettledRow DEF Accounts, InvitationsTypeOK, InvitationStatuses
  <2>3. /\ IsABag(told')
        /\ \A e : Times(e, told') = Times(e, told) + (IF e \in S THEN 1 ELSE 0)
        BY <2>1, ToldCounts
  <2>4. /\ invitations' \in Seq(Invitation) /\ Len(invitations') = Len(invitations)
        /\ \A j \in DOMAIN invitations : j # i => invitations'[j] = invitations[j]
        /\ invitations'[i] = row /\ DOMAIN invitations' = DOMAIN invitations
        BY <2>1, <2>2 DEF Accounts, InvitationsTypeOK
  <2>5. InvitationsTypeOK'
        BY <2>3, <2>4 DEF Accounts, InvitationsTypeOK
  <2>6. AccountsMatchInvitations'
    <3>1. invitations[i].status = "pending" /\ invitations'[i].status = "revoked"
          BY <1>2, <2>2, <2>4 DEF Pending
    <3>   QED  BY <2>4, <3>1 DEF Accounts, AccountsMatchInvitations, InvitationsTypeOK, Pending
  <2>7. \A e \in Email : Times(<<"user.created", e>>, told') = Times(<<"user.created", e>>, told)
    <3>1. \A e \in Email : <<"user.created", e>> \notin S
          OBVIOUS
    <3>2. ASSUME NEW e \in Email
          PROVE  Times(<<"user.created", e>>, told') = Times(<<"user.created", e>>, told)
      <4>1. Times(<<"user.created", e>>, told') = Times(<<"user.created", e>>, told) + 0
            BY <2>3, <3>1
      <4>2. Times(<<"user.created", e>>, told) \in Nat
            BY TimesIsNat DEF Accounts, InvitationsTypeOK
      <4>   QED  BY <4>1, <4>2
    <3>   QED  BY <3>2
  <2>8. History'
    <3>1. "revoked" \in InvitationStatuses \ {"pending"} /\ <<"revoked", i>> \in S
          /\ \A e \in S : e = <<"revoked", i>>
          BY DEF InvitationStatuses
    <3>2. /\ \A j \in Nat : Times(<<"invitation.created", j>>, told')
                              = IF j \in DOMAIN invitations' THEN 1 ELSE 0
          /\ \A j \in Nat : \A st \in InvitationStatuses \ {"pending"} :
               Times(<<st, j>>, told')
                 = IF j \in DOMAIN invitations' /\ invitations'[j].status = st THEN 1 ELSE 0
          /\ \A j \in DOMAIN invitations' : Terminal(invitations'[j].status) => ~invitations'[j].link
          BY <1>2, <2>1, <2>2, <2>3, <3>1, SettledHistory
    <3>   QED  BY <2>7, <3>2 DEF History, Accounts
  <2>   QED  BY <2>5, <2>6, <2>8 DEF Accounts
<1>   QED  BY <1>1, <1>2

\* A hash that is cleared leaves the status it had.
LEMMA ClearingAccounts ==
  ASSUME Accounts, NEW i \in DOMAIN invitations, ClearInvitationToken(i), UNCHANGED <<users, told, now>>
  PROVE  Accounts' /\ DOMAIN invitations' = DOMAIN invitations
<1>1. CASE ~Pending(i)
      BY <1>1 DEF ClearInvitationToken, Accounts, InvitationsTypeOK, AccountsMatchInvitations, History, Pending
<1>2. CASE Pending(i)
  <2>   DEFINE row == [invitations[i] EXCEPT !.link = FALSE]
  <2>1. invitations[i] \in Invitation
        BY DEF Accounts, InvitationsTypeOK
  <2>2. /\ row \in Invitation /\ row.status = invitations[i].status /\ row.user = invitations[i].user
        /\ row.email = invitations[i].email /\ ~row.link
        BY <2>1 DEF Invitation
  <2>3. invitations' = [invitations EXCEPT ![i] = row]
        BY <1>2 DEF ClearInvitationToken
  <2>4. /\ invitations' \in Seq(Invitation) /\ Len(invitations') = Len(invitations)
        /\ DOMAIN invitations' = DOMAIN invitations
        /\ \A j \in DOMAIN invitations : j # i => invitations'[j] = invitations[j]
        /\ invitations'[i] = row
        BY <2>2, <2>3 DEF Accounts, InvitationsTypeOK
  <2>5. \A j \in DOMAIN invitations : /\ invitations'[j].status = invitations[j].status
                                      /\ invitations'[j].user = invitations[j].user
                                      /\ invitations'[j].email = invitations[j].email
                                      /\ ~invitations[j].link => ~invitations'[j].link
        BY <2>2, <2>4
  <2>6. InvitationsTypeOK' /\ AccountsMatchInvitations'
    <3>   HIDE DEF row
    <3>1. InvitationsTypeOK'
          BY <2>4 DEF Accounts, InvitationsTypeOK
    <3>2. DOMAIN users \subseteq Email /\ \A e \in DOMAIN users : users[e] # 0 => users[e] \in DOMAIN invitations
          BY DEF Accounts, InvitationsTypeOK
    <3>   QED  BY <2>4, <2>5, <3>1, <3>2 DEF Accounts, AccountsMatchInvitations, Pending
  <2>7. History'
        BY <2>4, <2>5 DEF Accounts, History
  <2>   QED  BY <2>4, <2>6, <2>7 DEF Accounts
<1>   QED  BY <1>1, <1>2 DEF ClearInvitationToken

\* An account is made once: addresses are unique, and the row it comes from was pending.
LEMMA RedeemingAccounts ==
  ASSUME Accounts, NEW i \in DOMAIN invitations, StoreRedemption(i), now' = now
  PROVE  /\ Accounts' /\ DOMAIN invitations' = DOMAIN invitations
         /\ DOMAIN users \subseteq DOMAIN users' /\ \A e \in DOMAIN users : users'[e] = users[e]
<1>   DEFINE email == invitations[i].email
             row == [settled(invitations[i], "redeemed") EXCEPT !.user = email]
             S == {<<"user.created", email>>, <<"redeemed", i>>}
<1>1. CASE UNCHANGED <<users, invitations, told>>
      BY <1>1 DEF Accounts, InvitationsTypeOK, AccountsMatchInvitations, History, Pending
<1>2. CASE /\ Pending(i) /\ insertUser(email, i)
           /\ invitations' = [invitations EXCEPT ![i] = row] /\ recordEvents(SetToBag(S))
  <2>1. invitations[i] \in Invitation /\ i \in Nat \ {0} /\ i \in 1..Len(invitations)
        BY DEF Accounts, InvitationsTypeOK
  <2>2. /\ row \in Invitation /\ row.status = "redeemed" /\ row.user = email /\ ~row.link
        /\ email \in Email /\ row.email = email
    <3>1. settled(invitations[i], "redeemed") \in Invitation
          /\ settled(invitations[i], "redeemed").email = email
          /\ settled(invitations[i], "redeemed").status = "redeemed"
          /\ ~settled(invitations[i], "redeemed").link
          BY <2>1, SettledRow DEF InvitationStatuses
    <3>2. email \in Email
          BY <2>1 DEF Invitation
    <3>   HIDE DEF email
    <3>   QED  BY <3>1, <3>2 DEF Invitation
  <2>3. /\ invitations' \in Seq(Invitation) /\ Len(invitations') = Len(invitations)
        /\ DOMAIN invitations' = DOMAIN invitations
        /\ \A j \in DOMAIN invitations : j # i => invitations'[j] = invitations[j]
        /\ invitations'[i] = row
        BY <1>2, <2>2 DEF Accounts, InvitationsTypeOK
  <2>4. /\ email \notin DOMAIN users /\ DOMAIN users' = DOMAIN users \cup {email}
        /\ users'[email] = i /\ \A e \in DOMAIN users : users'[e] = users[e]
        BY <1>2 DEF insertUser
  <2>5. /\ IsABag(told')
        /\ \A e : Times(e, told') = Times(e, told) + (IF e \in S THEN 1 ELSE 0)
        BY <1>2, ToldCounts
  <2>6. InvitationsTypeOK'
        BY <2>1, <2>2, <2>3, <2>4, <2>5 DEF Accounts, InvitationsTypeOK
  <2>7. AccountsMatchInvitations'
    <3>1. invitations[i].status = "pending"
          BY <1>2 DEF Pending
    <3>2. \A e \in DOMAIN users : users[e] # 0 => users[e] \in DOMAIN invitations /\ users[e] # i
          BY <3>1 DEF Accounts, InvitationsTypeOK, AccountsMatchInvitations
    <3>3. \A e \in DOMAIN users' : users'[e] # 0 =>
            LET it == invitations'[users'[e]] IN it.status = "redeemed" /\ it.user = e /\ it.email = e
      <4>1. SUFFICES ASSUME NEW e \in DOMAIN users', users'[e] # 0
                     PROVE  LET it == invitations'[users'[e]] IN
                              it.status = "redeemed" /\ it.user = e /\ it.email = e
            OBVIOUS
      <4>2. CASE e = email
            BY <2>2, <2>3, <2>4, <4>2
      <4>3. CASE e # email
            BY <2>3, <2>4, <3>2, <4>1, <4>3 DEF Accounts, AccountsMatchInvitations
      <4>   QED  BY <4>2, <4>3
    <3>4. \A j \in DOMAIN invitations' : invitations'[j].status = "redeemed" =>
            invitations'[j].user \in DOMAIN users' /\ users'[invitations'[j].user] = j
      <4>1. SUFFICES ASSUME NEW j \in DOMAIN invitations', invitations'[j].status = "redeemed"
                     PROVE  invitations'[j].user \in DOMAIN users' /\ users'[invitations'[j].user] = j
            OBVIOUS
      <4>2. CASE j = i
            BY <2>2, <2>3, <2>4, <4>2
      <4>3. CASE j # i
            BY <2>3, <2>4, <4>1, <4>3 DEF Accounts, AccountsMatchInvitations
      <4>   QED  BY <4>2, <4>3
    <3>5. \A j, k \in DOMAIN invitations' :
            /\ invitations'[j].status = "pending" /\ invitations'[k].status = "pending"
            /\ invitations'[j].email = invitations'[k].email
            => j = k
      <4>1. \A j \in DOMAIN invitations' : invitations'[j].status = "pending" => j # i
            BY <2>2, <2>3
      <4>2. \A j, k \in DOMAIN invitations :
              /\ invitations[j].status = "pending" /\ invitations[k].status = "pending"
              /\ invitations[j].email = invitations[k].email
              => j = k
            BY DEF Accounts, AccountsMatchInvitations, Pending
      <4>   HIDE DEF row, S, email
      <4>   QED  BY <2>3, <4>1, <4>2
    <3>   QED  BY <3>3, <3>4, <3>5 DEF AccountsMatchInvitations, Pending
  <2>8. History'
    <3>1. "redeemed" \in InvitationStatuses \ {"pending"} /\ <<"redeemed", i>> \in S
          /\ \A e \in S : e = <<"redeemed", i>> \/ e[1] = "user.created"
          BY DEF InvitationStatuses
    <3>2. /\ \A j \in Nat : Times(<<"invitation.created", j>>, told')
                              = IF j \in DOMAIN invitations' THEN 1 ELSE 0
          /\ \A j \in Nat : \A st \in InvitationStatuses \ {"pending"} :
               Times(<<st, j>>, told')
                 = IF j \in DOMAIN invitations' /\ invitations'[j].status = st THEN 1 ELSE 0
          /\ \A j \in DOMAIN invitations' : Terminal(invitations'[j].status) => ~invitations'[j].link
      <4>   HIDE DEF S, row, email
      <4>   QED  BY <1>2, <2>2, <2>5, <3>1, SettledHistory
    <3>3. ASSUME NEW e \in Email
          PROVE  /\ e \notin DOMAIN users' => Times(<<"user.created", e>>, told') = 0
                 /\ e \in DOMAIN users' /\ users'[e] # 0 => Times(<<"user.created", e>>, told') = 1
      <4>1. /\ e \notin DOMAIN users => Times(<<"user.created", e>>, told) = 0
            /\ e \in DOMAIN users /\ users[e] # 0 => Times(<<"user.created", e>>, told) = 1
            BY DEF Accounts, History
      <4>2. CASE e = email
        <5>1. <<"user.created", e>> \in S
              BY <4>2
        <5>2. Times(<<"user.created", e>>, told') = 0 + 1
              BY <2>4, <2>5, <4>1, <4>2, <5>1
        <5>   QED  BY <2>4, <4>2, <5>2
      <4>3. CASE e # email
        <5>1. <<"user.created", e>> \notin S
              BY <4>3
        <5>2. Times(<<"user.created", e>>, told') = Times(<<"user.created", e>>, told) + 0
              BY <2>5, <5>1
        <5>   QED  BY <2>4, <4>1, <4>3, <5>2
      <4>   QED  BY <4>2, <4>3
    <3>   QED  BY <3>2, <3>3 DEF History
  <2>   QED  BY <2>3, <2>4, <2>6, <2>7, <2>8 DEF Accounts
<1>3. StoreRedemption(i) => \/ UNCHANGED <<users, invitations, told>>
                            \/ /\ Pending(i) /\ insertUser(email, i)
                               /\ invitations' = [invitations EXCEPT ![i] = row] /\ recordEvents(SetToBag(S))
      BY DEF StoreRedemption, open
<1>   QED  BY <1>1, <1>2, <1>3

\* What was pending for the address is superseded, and the new row comes after all others.
LEMMA InvitingAccounts ==
  ASSUME Accounts, NEW email \in Email, NEW at \in Nat, StoreInvitation(email, at), UNCHANGED <<users, now>>
  PROVE  Accounts' /\ DOMAIN invitations \subseteq DOMAIN invitations'
<1>   DEFINE n == Len(invitations)
             new == [email |-> email, status |-> "pending", link |-> TRUE,
                     expires |-> at + InvitationTTL, user |-> "none"]
             kept == [j \in DOMAIN invitations |-> IF j \in pendingFor(email)
                        THEN settled(invitations[j], "superseded") ELSE invitations[j]]
             S == {<<"superseded", j>> : j \in pendingFor(email)} \cup {<<"invitation.created", n + 1>>}
<1>1. invitations' = Append(kept, new) /\ recordEvents(SetToBag(S))
      BY DEF StoreInvitation
<1>2. invitations \in Seq(Invitation) /\ n \in Nat /\ DOMAIN invitations = 1..n
      BY DEF Accounts, InvitationsTypeOK
<1>3. new \in Invitation
      BY AccessAssumption DEF Invitation, InvitationStatuses
<1>4. ASSUME NEW j \in DOMAIN invitations, j \in pendingFor(email)
      PROVE  /\ settled(invitations[j], "superseded") \in Invitation
             /\ settled(invitations[j], "superseded").status = "superseded"
             /\ ~settled(invitations[j], "superseded").link
             /\ invitations[j].status = "pending"
      BY <1>2, <1>4, SettledRow DEF InvitationStatuses, pendingFor, Pending
<1>5. kept \in Seq(Invitation) /\ Len(kept) = n
      BY <1>2, <1>4
<1>6. /\ invitations' \in Seq(Invitation) /\ Len(invitations') = n + 1 /\ DOMAIN invitations' = 1..(n + 1)
      /\ invitations'[n + 1] = new
      /\ \A j \in 1..n : invitations'[j] = kept[j]
  <2>   HIDE DEF kept, new
  <2>   QED  BY <1>1, <1>2, <1>3, <1>5
<1>7. \A j \in 1..n : \/ j \in pendingFor(email) /\ invitations[j].status = "pending"
                         /\ invitations'[j].status = "superseded" /\ ~invitations'[j].link
                      \/ j \notin pendingFor(email) /\ invitations'[j] = invitations[j]
      BY <1>2, <1>4, <1>6
<1>8. /\ IsABag(told')
      /\ \A e : Times(e, told') = Times(e, told) + (IF e \in S THEN 1 ELSE 0)
      BY <1>1, ToldCounts
<1>9. \A e : Times(e, told) \in Nat
      BY TimesIsNat DEF Accounts, InvitationsTypeOK
<1>10. InvitationsTypeOK'
      BY <1>2, <1>6, <1>8 DEF Accounts, InvitationsTypeOK
<1>11. AccountsMatchInvitations'
  <2>1. \A j \in DOMAIN invitations' : invitations'[j].status = "redeemed" =>
          j \in DOMAIN invitations /\ invitations[j].status = "redeemed" /\ invitations'[j] = invitations[j]
        BY <1>2, <1>6, <1>7
  <2>2. \A j \in DOMAIN invitations : invitations[j].status = "redeemed" => invitations'[j] = invitations[j]
        BY <1>2, <1>7
  <2>3. \A e \in DOMAIN users : users[e] # 0 => users[e] \in DOMAIN invitations
        BY <1>2 DEF Accounts, InvitationsTypeOK
  <2>4. \A j \in 1..n : invitations'[j].status = "pending" =>
          /\ invitations[j].status = "pending" /\ invitations'[j].email = invitations[j].email
          /\ invitations[j].email # email
        BY <1>2, <1>7 DEF pendingFor, Pending
  <2>5. \A j, k \in DOMAIN invitations' :
          /\ invitations'[j].status = "pending" /\ invitations'[k].status = "pending"
          /\ invitations'[j].email = invitations'[k].email
          => j = k
        BY <1>2, <1>6, <2>4 DEF Accounts, AccountsMatchInvitations, Pending
  <2>   QED  BY <2>1, <2>2, <2>3, <2>5 DEF Accounts, AccountsMatchInvitations, Pending
<1>12. History'
  <2>1. ASSUME NEW j \in Nat
        PROVE  Times(<<"invitation.created", j>>, told') = IF j \in DOMAIN invitations' THEN 1 ELSE 0
    <3>1. Times(<<"invitation.created", j>>, told) = IF j \in DOMAIN invitations THEN 1 ELSE 0
          BY DEF Accounts, History
    <3>2. <<"invitation.created", j>> \in S <=> j = n + 1
          OBVIOUS
    <3>3. Times(<<"invitation.created", j>>, told')
            = Times(<<"invitation.created", j>>, told) + (IF j = n + 1 THEN 1 ELSE 0)
          BY <1>8, <3>2
    <3>   QED  BY <1>2, <1>6, <3>1, <3>3
  <2>2. ASSUME NEW j \in Nat, NEW st \in InvitationStatuses \ {"pending"}
        PROVE  Times(<<st, j>>, told') = IF j \in DOMAIN invitations' /\ invitations'[j].status = st THEN 1 ELSE 0
    <3>1. Times(<<st, j>>, told) = IF j \in DOMAIN invitations /\ invitations[j].status = st THEN 1 ELSE 0
          BY DEF Accounts, History
    <3>2. <<st, j>> \in S <=> (st = "superseded" /\ j \in pendingFor(email))
          BY DEF InvitationStatuses
    <3>3. Times(<<st, j>>, told')
            = Times(<<st, j>>, told) + (IF st = "superseded" /\ j \in pendingFor(email) THEN 1 ELSE 0)
          BY <1>8, <3>2
    <3>4. pendingFor(email) \subseteq 1..n
          BY <1>2 DEF pendingFor
    <3>5. CASE j \in 1..n
          BY <1>2, <1>6, <1>7, <3>1, <3>3, <3>5
    <3>6. CASE j \notin 1..n
          BY <1>2, <1>6, <3>1, <3>3, <3>4, <3>6
    <3>   QED  BY <3>5, <3>6
  <2>3. \A j \in DOMAIN invitations' : Terminal(invitations'[j].status) => ~invitations'[j].link
        BY <1>2, <1>6, <1>7 DEF Accounts, History, Terminal
  <2>4. ASSUME NEW e \in Email
        PROVE  Times(<<"user.created", e>>, told') = Times(<<"user.created", e>>, told)
    <3>1. <<"user.created", e>> \notin S
          OBVIOUS
    <3>2. Times(<<"user.created", e>>, told') = Times(<<"user.created", e>>, told) + 0
          BY <1>8, <3>1
    <3>   QED  BY <1>9, <3>2
  <2>   QED  BY <2>1, <2>2, <2>3, <2>4 DEF History, Accounts
<1>   QED  BY <1>2, <1>6, <1>10, <1>11, <1>12 DEF Accounts

\* An account made by hand says that no invitation made it.
LEMMA BootstrappingAccounts ==
  ASSUME Accounts, NEW email \in Email, insertUser(email, 0), UNCHANGED <<invitations, told, now>>
  PROVE  Accounts'
<1>1. /\ DOMAIN users' = DOMAIN users \cup {email} /\ email \notin DOMAIN users
      /\ users'[email] = 0 /\ \A e \in DOMAIN users : users'[e] = users[e]
      BY DEF insertUser
<1>2. InvitationsTypeOK'
      BY <1>1 DEF Accounts, InvitationsTypeOK
<1>3. AccountsMatchInvitations'
      BY <1>1 DEF Accounts, AccountsMatchInvitations, Pending
<1>4. History'
      BY <1>1 DEF Accounts, History
<1>   QED  BY <1>2, <1>3, <1>4 DEF Accounts

\* An event told after its write is none of those that the history counts.
LEMMA TellingAccounts ==
  ASSUME Accounts, NEW event, AfterTheWrite(event, users),
         recordEvents(SetToBag({event})), UNCHANGED <<users, invitations, now>>
  PROVE  Accounts'
<1>1. /\ IsABag(told')
      /\ \A e : Times(e, told') = Times(e, told) + (IF e \in {event} THEN 1 ELSE 0)
      BY ToldCounts
<1>2. \A e : Times(e, told) \in Nat
      BY TimesIsNat DEF Accounts, InvitationsTypeOK
<1>3. ASSUME NEW e, e # event
      PROVE  Times(e, told') = Times(e, told)
  <2>1. Times(e, told') = Times(e, told) + 0
        BY <1>1, <1>3
  <2>   QED  BY <1>2, <2>1
<1>4. \A j \in Nat : <<"invitation.created", j>> # event
      BY DEF AfterTheWrite
<1>5. \A j \in Nat : \A st \in InvitationStatuses \ {"pending"} : <<st, j>> # event
      BY DEF AfterTheWrite, InvitationStatuses
<1>6. \A e \in Email : /\ e \notin DOMAIN users => <<"user.created", e>> # event
                       /\ e \in DOMAIN users /\ users[e] # 0 => <<"user.created", e>> # event
      BY DEF AfterTheWrite
<1>7. History'
      BY <1>3, <1>4, <1>5, <1>6 DEF Accounts, History
<1>8. InvitationsTypeOK' /\ AccountsMatchInvitations'
      BY <1>1 DEF Accounts, InvitationsTypeOK, AccountsMatchInvitations, Pending
<1>   QED  BY <1>7, <1>8 DEF Accounts

LEMMA StepAInv == IInv /\ AInv /\ [Next]_vars => AInv'
<1>   SUFFICES ASSUME IInv, AInv, [Next]_vars PROVE AInv'
      OBVIOUS
<1>0. now \in Nat
      BY DEF AInv, Accounts, InvitationsTypeOK
<1>1. CASE UNCHANGED vars
  <2>1. Accounts'
        BY <1>1 DEF vars, AInv, Accounts, InvitationsTypeOK, AccountsMatchInvitations, History, Pending
  <2>   QED  BY <1>1, <2>1 DEF vars, AInv
<1>2. CASE Tick
  <2>1. Accounts'
        BY <1>0, <1>2 DEF Tick, accountVars, AInv, Accounts, InvitationsTypeOK, AccountsMatchInvitations, History,
                         Pending
  <2>   QED  BY <1>2, <2>1 DEF Tick, accountVars, AInv
<1>3. ASSUME NEW r \in Request, Serve(r) PROVE AInv'
  <2>0. IsRequest(requests[r]) /\ Asks(requests[r], users, invitations)
        BY HeldIsTyped DEF AInv
  <2>1. CASE SignIn(r)
    <3>1. PICK u \in DOMAIN users : Start(r, [Free EXCEPT !.op = "issue", !.who = u])
          BY <2>1 DEF SignIn
    <3>   DEFINE q == [Free EXCEPT !.op = "issue", !.who = u]
    <3>2. q.op = "issue"
          BY DEF Free
    <3>3. Asks(q, users, invitations)
          BY <3>2, OthersAsk
    <3>   QED  BY <1>0, <2>1, <3>1, <3>3, RequestMovesAInv DEF SignIn, Start
  <2>2. CASE issue(r)
    <3>1. AfterTheWrite(<<"session.created", tokens + 1>>, users)
          BY DEF AfterTheWrite
    <3>   QED  BY <1>0, <2>2, <3>1, ThenTellsAInv DEF issue
  <2>3. CASE FindSession(r)
    <3>1. PICK s \in DOMAIN sessions, o \in {"authenticate", "drop"} :
            Start(r, [Free EXCEPT !.op = o, !.who = sessions[s].user, !.session = s])
          BY <2>3 DEF FindSession
    <3>   DEFINE q == [Free EXCEPT !.op = o, !.who = sessions[s].user, !.session = s]
    <3>2. q.op \in {"authenticate", "drop"}
          BY DEF Free
    <3>3. Asks(q, users, invitations)
          BY <3>2, OthersAsk
    <3>   QED  BY <1>0, <2>3, <3>1, <3>3, RequestMovesAInv DEF FindSession, Start
  <2>4. CASE DropExpired(r)
    <3>1. Asks(Free, users, invitations)
          BY DEF Asks, Free
    <3>   QED  BY <1>0, <2>4, <3>1, RequestMovesAInv DEF DropExpired, Ends, Goes
  <2>5. CASE Authenticate(r)
    <3>   DEFINE q == [requests[r] EXCEPT !.op = "authenticated", !.held = GrantsForUser(requests[r].who)]
    <3>1. q.op = "authenticated"
          BY <2>0 DEF IsRequest
    <3>2. Asks(q, users, invitations)
          BY <3>1, OthersAsk
    <3>   QED  BY <1>0, <2>5, <3>2, RequestMovesAInv DEF Authenticate, Goes
  <2>6. CASE Logout(r)
    <3>1. AfterTheWrite(<<"session.ended", requests[r].session>>, users)
          BY DEF AfterTheWrite
    <3>   QED  BY <1>0, <2>6, <3>1, ThenTellsAInv DEF Logout
  <2>7. CASE BeginInvitation(r)
    <3>1. PICK e \in Email : Goes(r, [requests[r] EXCEPT !.op = "invite", !.arg = <<e, now>>])
          BY <2>7 DEF BeginInvitation
    <3>   DEFINE q == [requests[r] EXCEPT !.op = "invite", !.arg = <<e, now>>]
    <3>2. q.op = "invite" /\ q.arg = <<e, now>>
          BY <2>0 DEF IsRequest
    <3>3. Asks(q, users, invitations)
          BY <1>0, <3>2 DEF Asks
    <3>   QED  BY <1>0, <2>7, <3>1, <3>3, RequestMovesAInv DEF BeginInvitation, Goes
  <2>8. CASE CreateInvitation(r)
    <3>1. requests[r].arg[1] \in Email /\ requests[r].arg[2] \in Nat
          BY <2>0, <2>8 DEF CreateInvitation, Asks
    <3>2. Accounts' /\ DOMAIN invitations \subseteq DOMAIN invitations'
          BY <2>8, <3>1, InvitingAccounts DEF CreateInvitation, AInv
    <3>   QED  BY <2>8, <3>2, EndsAInv DEF CreateInvitation
  <2>9. CASE BeginRevocation(r)
    <3>1. PICK i \in DOMAIN invitations : Goes(r, [requests[r] EXCEPT !.op = "revoke", !.of = i])
          BY <2>9 DEF BeginRevocation
    <3>   DEFINE q == [requests[r] EXCEPT !.op = "revoke", !.of = i]
    <3>2. q.op = "revoke" /\ q.of = i
          BY <2>0 DEF IsRequest
    <3>3. Asks(q, users, invitations)
          BY <3>2 DEF Asks
    <3>   QED  BY <1>0, <2>9, <3>1, <3>3, RequestMovesAInv DEF BeginRevocation, Goes
  <2>10. CASE RevokeInvitation(r)
    <3>1. requests[r].of \in DOMAIN invitations
          BY <2>0, <2>10 DEF RevokeInvitation, Asks
    <3>2. Accounts'
          BY <2>10, <3>1, SettlingAccounts DEF RevokeInvitation, AInv
    <3>3. DOMAIN invitations' = DOMAIN invitations
          BY <2>10, <3>1 DEF RevokeInvitation, SettleInvitation
    <3>   QED  BY <2>10, <3>2, <3>3, EndsAInv DEF RevokeInvitation
  <2>11. CASE BeginRedemption(r)
    <3>1. PICK i \in DOMAIN invitations, o \in {"lapsed", "redeem"} :
            Start(r, [Free EXCEPT !.op = o, !.of = i])
          BY <2>11 DEF BeginRedemption
    <3>   DEFINE q == [Free EXCEPT !.op = o, !.of = i]
    <3>2. q.op = o /\ q.of = i
          BY DEF Free
    <3>3. Asks(q, users, invitations)
          BY <3>2 DEF Asks
    <3>   QED  BY <1>0, <2>11, <3>1, <3>3, RequestMovesAInv DEF BeginRedemption, Start
  <2>12. CASE Redeem(r)
    <3>1. requests[r].of \in DOMAIN invitations
          BY <2>0, <2>12 DEF Redeem, Asks
    <3>2. CASE StoreRedemption(requests[r].of)
      <4>1. /\ Accounts' /\ DOMAIN invitations' = DOMAIN invitations
            /\ DOMAIN users \subseteq DOMAIN users' /\ \A e \in DOMAIN users : users'[e] = users[e]
            BY <2>12, <3>1, <3>2, RedeemingAccounts DEF Redeem, AInv
      <4>   QED  BY <2>12, <4>1, EndsAInv DEF Redeem
    <3>3. CASE ClearInvitationToken(requests[r].of) /\ UNCHANGED <<users, told>>
      <4>1. Accounts' /\ DOMAIN invitations' = DOMAIN invitations
            BY <2>12, <3>1, <3>3, ClearingAccounts DEF Redeem, AInv
      <4>   QED  BY <2>12, <3>3, <4>1, EndsAInv DEF Redeem
    <3>   QED  BY <2>12, <3>2, <3>3 DEF Redeem
  <2>13. CASE CreateUser(r)
    <3>1. PICK e \in Email : /\ insertUser(e, 0)
                             /\ Start(r, [Free EXCEPT !.op = "tell", !.event = <<"user.created", e>>])
          BY <2>13 DEF CreateUser
    <3>   DEFINE q == [Free EXCEPT !.op = "tell", !.event = <<"user.created", e>>]
    <3>2. q.op = "tell" /\ q.event = <<"user.created", e>>
          BY DEF Free
    <3>3. /\ DOMAIN users \subseteq DOMAIN users' /\ e \in DOMAIN users' /\ users'[e] = 0
          /\ \A u \in DOMAIN users : users'[u] = users[u]
          BY <3>1 DEF insertUser
    <3>4. Asks(q, users', invitations')
          BY <3>2, <3>3 DEF Asks, AfterTheWrite
    <3>5. Accounts'
          BY <2>13, <3>1, BootstrappingAccounts DEF CreateUser, AInv
    <3>6. requests' = [requests EXCEPT ![r] = q] /\ invitations' = invitations
          BY <2>13, <3>1 DEF CreateUser, Start
    <3>   HIDE DEF q
    <3>   QED  BY <3>3, <3>4, <3>5, <3>6, RequestsStand DEF AInv
  <2>14. CASE grantAdminRole(r)
    <3>1. Asks(Free, users, invitations)
          BY DEF Asks, Free
    <3>   QED  BY <1>0, <2>14, <3>1, RequestMovesAInv DEF grantAdminRole, Ends, Goes
  <2>15. CASE CreateGrant(r)
    <3>1. PICK role \in Role : ThenTells(r, <<"grant.created", role>>)
          BY <2>15 DEF CreateGrant
    <3>2. AfterTheWrite(<<"grant.created", role>>, users)
          BY DEF AfterTheWrite
    <3>   QED  BY <1>0, <2>15, <3>1, <3>2, ThenTellsAInv DEF CreateGrant
  <2>16. CASE BeginAssigning(r)
    <3>1. PICK u \in DOMAIN users, role \in Role : Goes(r, [requests[r] EXCEPT !.op = "assign", !.arg = <<u, role>>])
          BY <2>16 DEF BeginAssigning
    <3>   DEFINE q == [requests[r] EXCEPT !.op = "assign", !.arg = <<u, role>>]
    <3>2. q.op = "assign"
          BY <2>0 DEF IsRequest
    <3>3. Asks(q, users, invitations)
          BY <3>2, OthersAsk
    <3>   QED  BY <1>0, <2>16, <3>1, <3>3, RequestMovesAInv DEF BeginAssigning, Goes
  <2>17. CASE AssignRole(r)
    <3>1. AfterTheWrite(<<"role.assigned", requests[r].arg[1]>>, users)
          BY DEF AfterTheWrite
    <3>   QED  BY <1>0, <2>17, <3>1, ThenTellsAInv DEF AssignRole
  <2>18. CASE Tell(r)
    <3>   DEFINE event == requests[r].event
                 q == IF event[1] = "user.created"
                      THEN [Free EXCEPT !.op = "promote", !.who = event[2]] ELSE Free
    <3>1. AfterTheWrite(event, users)
          BY <2>0, <2>18 DEF Tell, Asks
    <3>2. requests' = [requests EXCEPT ![r] = q]
          BY <2>18 DEF Tell, Ends, Goes
    <3>3. q.op \in {"promote", "free"}
          BY DEF Free
    <3>4. Asks(q, users', invitations')
          BY <3>3, OthersAsk
    <3>5. UNCHANGED <<users, invitations, now>>
          BY <2>18 DEF Tell
    <3>6. Accounts'
      <4>1. CASE recordEvents(SetToBag({event}))
            BY <3>1, <3>5, <4>1, TellingAccounts DEF AInv
      <4>2. CASE UNCHANGED told
            BY <3>5, <4>2 DEF AInv, Accounts, InvitationsTypeOK, AccountsMatchInvitations, History,
                               Pending
      <4>   QED  BY <2>18, <4>1, <4>2 DEF Tell
    <3>   HIDE DEF q
    <3>   QED  BY <3>2, <3>4, <3>5, <3>6, RequestsStand DEF AInv
  <2>19. CASE GiveUp(r)
    <3>1. Asks(Free, users, invitations)
          BY DEF Asks, Free
    <3>   QED  BY <1>0, <2>19, <3>1, RequestMovesAInv DEF GiveUp, Ends, Goes
  <2>   QED  BY <1>3, <2>1, <2>2, <2>3, <2>4, <2>5, <2>6, <2>7, <2>8, <2>9, <2>10, <2>11, <2>12, <2>13,
                <2>14, <2>15, <2>16, <2>17, <2>18, <2>19 DEF Serve
<1>   QED  BY <1>1, <1>2, <1>3 DEF Next

\* An invitation makes one account, for its own address, the account says which,
\* and no address has two invitations that can be taken up, for any addresses and
\* requests: whoever redeems, revokes, invites again or bootstraps meanwhile.
THEOREM AccountsAndInvitationsAgree == Spec => []AccountsMatchInvitations
<1>1. AInv => AccountsMatchInvitations
      BY DEF AInv, Accounts
<1>   QED  BY <1>1, InitIInv, StepIInv, InitAInv, StepAInv, PTL DEF Spec

\* The events about an invitation say what its row says, once each, and so do
\* those about an account that one made.
THEOREM HistoryIsKept == Spec => []HistoryExplainsInvitations
<1>1. AInv => HistoryExplainsInvitations
      BY HistoryIsExplained DEF AInv
<1>   QED  BY <1>1, InitIInv, StepIInv, InitAInv, StepAInv, PTL DEF Spec
================================================================================
