--------------------------------- MODULE Access ---------------------------------
(***************************************************************************)
(* Who may do what: sessions (service/sessions.go), invitations (service/  *)
(* invitations.go), roles and grants (service/grants.go), and the account  *)
(* that "cmsdb bootstrap" makes (cmd/cmsdb/identity.go).                   *)
(*                                                                         *)
(* A request finds its session, reads who its caller is and what they      *)
(* hold, reads what it is about to change, and writes: what it holds in    *)
(* between is its own copy.  A write by DB.Write and the event that tells  *)
(* of it are two steps, the second of which a request that is cut off does *)
(* not reach.                                                              *)
(***************************************************************************)
EXTENDS Authz, Invitations, Functions

CONSTANTS
  Role,
  AdminRole,     \* AdminRoleSlug
  StartUsers,    \* the accounts there are at first
  StartRoles,    \* who holds what at first: pairs of a user and a role
  StartGrants,   \* the grants cmsdb seed wrote
  Offered,       \* the scopes a request may ask a grant for
  OfferedPrivileges,
  Subject,       \* the subjects the properties ask about
  Request,       \* requests served at once
  SessionTTL,
  MaxSessions,   \* bound: session ids in use at once
  MaxRequests,   \* bound: requests ever served
  MaxGrants,     \* bound: grants
  MaxNow         \* bound: the clock

ASSUME AccessAssumption ==
  /\ AdminRole \in Role /\ StartUsers \subseteq Email /\ StartRoles \subseteq StartUsers \X Role
  /\ InvitationTTL \in Nat /\ SessionTTL \in Nat /\ MaxInvitations \in Nat
  /\ MaxSessions \in Nat /\ MaxRequests \in Nat /\ MaxGrants \in Nat /\ MaxNow \in Nat
  /\ OfferedPrivileges \subseteq Privileges
  /\ \A g \in StartGrants : g.privilege \in Privileges /\ CategoryOrNone(g.scope.category)
  /\ \A s \in Offered \cup Subject : CategoryOrNone(s.category)

VARIABLES
  roles,      \* user_roles: pairs of a user and a role
  grants,     \* the rows of grants; by: what their creator held
  sessions,   \* the rows of sessions: a function from the ids in use
  tokens,     \* how many session tokens were ever minted
  requests,   \* [Request -> what it has read and is about to do]
  served      \* how many requests there have been

accountVars == <<users, invitations, told>>
vars == <<users, invitations, told, now, roles, grants, sessions, tokens, requests, served>>

Nobody == "none"

\* held: Identity.Grants; of: the invitation; arg: what is asked for; event: what is to be told.
Free == [op |-> "free", who |-> Nobody, held |-> {}, session |-> 0, of |-> 0, arg |-> <<>>,
         event |-> <<>>]

\* The grants of every role somebody has (store.Identity).
GrantsForUser(u) == {g \in grants : <<u, g.role>> \in roles}

GrantsForRole(role) == {g \in grants : g.role = role}

\* The subject that only an unconstrained grant matches.
systemSubject == [at |-> [a \in Attributes |-> "zero"], category |-> NoCategory]

mayAdministerInvitations(held) == Allows(held, systemSubject, Create)

TypeOK ==
  /\ InvitationsTypeOK
  /\ roles \subseteq (DOMAIN users) \X Role
  /\ \A g \in grants : g.role \in Role /\ g.privilege \in Privileges
  /\ \A s \in DOMAIN sessions : /\ s \in 1..MaxSessions
                               /\ sessions[s].user \in DOMAIN users
                               /\ sessions[s].token \in 1..tokens
  /\ \A r \in Request : requests[r].who \in DOMAIN users \cup {Nobody}
  /\ served \in 0..MaxRequests

Init ==
  /\ users = [u \in StartUsers |-> 0]
  /\ invitations = <<>>
  /\ told = EmptyBag
  /\ now = 0
  /\ roles = StartRoles
  /\ grants = StartGrants
  /\ sessions = <<>>
  /\ tokens = 0
  /\ requests = [r \in Request |-> Free]
  /\ served = 0

--------------------------------------------------------------------------------

\* A request comes in and has made its first read.
Start(r, req) ==
  /\ requests[r] = Free /\ served < MaxRequests
  /\ served' = served + 1
  /\ requests' = [requests EXCEPT ![r] = req]

Goes(r, req) == requests' = [requests EXCEPT ![r] = req] /\ UNCHANGED served

Ends(r) == Goes(r, Free)

\* The row is written; its event is the next statement.
ThenTells(r, event) == Goes(r, [requests[r] EXCEPT !.op = "tell", !.event = event])

Tell(r) ==
  /\ requests[r].op = "tell"
  /\ \/ recordEvents(SetToBag({requests[r].event}))
     \/ UNCHANGED told  \* cut off
  /\ IF requests[r].event[1] = "user.created"
     THEN Goes(r, [Free EXCEPT !.op = "promote", !.who = requests[r].event[2]])
     ELSE Ends(r)
  /\ UNCHANGED <<users, invitations, now, roles, grants, sessions, tokens>>

--------------------------------------------------------------------------------
(* Sessions                                                                   *)

\* Login and DevLogin: the account, and the password it was given.
SignIn(r) ==
  /\ \E u \in DOMAIN users : Start(r, [Free EXCEPT !.op = "issue", !.who = u])
  /\ UNCHANGED <<accountVars, now, roles, grants, sessions, tokens>>

\* SQLite gives a row one more than the greatest id in use.
NextSession == CHOOSE i \in 1..(MaxSessions + 1) :
                 /\ \A s \in DOMAIN sessions : s < i
                 /\ i = 1 \/ i - 1 \in DOMAIN sessions

\* Slip: the token of the session before is handed out again.
mintAgain == tokens' = tokens

mint == tokens' = tokens + 1

issue(r) ==
  /\ requests[r].op = "issue" /\ NextSession <= MaxSessions
  /\ sessions' = sessions @@ (NextSession :> [user |-> requests[r].who, token |-> tokens + 1,
                                              expires |-> now + SessionTTL])
  /\ mint
  /\ ThenTells(r, <<"session.created", tokens + 1>>)
  /\ UNCHANGED <<accountVars, now, roles, grants>>

SessionLive(s) == now < sessions[s].expires

\* A token is handed out once the event of its session is there.
FindSession(r) ==
  /\ \E s \in DOMAIN sessions :
       /\ BagIn(<<"session.created", sessions[s].token>>, told)
       /\ Start(r, [Free EXCEPT !.op = IF SessionLive(s) THEN "authenticate" ELSE "drop",
                                !.who = sessions[s].user, !.session = s])
  /\ UNCHANGED <<accountVars, now, roles, grants, sessions, tokens>>

DeleteSession(s) == sessions' = Restrict(sessions, DOMAIN sessions \ {s})

\* An expired session is deleted on the way past.
DropExpired(r) ==
  /\ requests[r].op = "drop"
  /\ DeleteSession(requests[r].session)
  /\ Ends(r)
  /\ UNCHANGED <<accountVars, now, roles, grants, tokens>>

\* Who they are and what they hold, in one read.
Authenticate(r) ==
  /\ requests[r].op = "authenticate"
  /\ Goes(r, [requests[r] EXCEPT !.op = "authenticated",
                                  !.held = GrantsForUser(requests[r].who)])
  /\ UNCHANGED <<accountVars, now, roles, grants, sessions, tokens>>

Logout(r) ==
  /\ requests[r].op = "authenticated"
  /\ DeleteSession(requests[r].session)
  /\ ThenTells(r, <<"session.ended", requests[r].session>>)
  /\ UNCHANGED <<accountVars, now, roles, grants, tokens>>

--------------------------------------------------------------------------------
(* Invitations and accounts                                                   *)

BeginInvitation(r) ==
  /\ requests[r].op = "authenticated" /\ mayAdministerInvitations(requests[r].held)
  /\ \E e \in Email \ DOMAIN users : Goes(r, [requests[r] EXCEPT !.op = "invite", !.arg = <<e, now>>])
  /\ UNCHANGED <<accountVars, now, roles, grants, sessions, tokens>>

CreateInvitation(r) ==
  /\ requests[r].op = "invite"
  /\ StoreInvitation(requests[r].arg[1], requests[r].arg[2])
  /\ Ends(r)
  /\ UNCHANGED <<users, now, roles, grants, sessions, tokens>>

\* One that was settled is answered as it is, or refused.
BeginRevocation(r) ==
  /\ requests[r].op = "authenticated" /\ mayAdministerInvitations(requests[r].held)
  /\ \E i \in DOMAIN invitations : Pending(i) /\ Goes(r, [requests[r] EXCEPT !.op = "revoke", !.of = i])
  /\ UNCHANGED <<accountVars, now, roles, grants, sessions, tokens>>

RevokeInvitation(r) ==
  /\ requests[r].op = "revoke"
  /\ SettleInvitation(requests[r].of, "revoked")
  /\ Ends(r)
  /\ UNCHANGED <<users, now, roles, grants, sessions, tokens>>

\* Somebody with a link and the address it was for; another address is refused.
BeginRedemption(r) ==
  /\ \E i \in DOMAIN invitations :
       /\ invitations[i].link /\ Pending(i)
       /\ Start(r, [Free EXCEPT !.op = IF Expired(i) THEN "lapsed" ELSE "redeem", !.of = i])
  /\ UNCHANGED <<accountVars, now, roles, grants, sessions, tokens>>

Redeem(r) ==
  /\ \/ /\ requests[r].op = "redeem"
        /\ StoreRedemption(requests[r].of)
     \/ /\ requests[r].op = "lapsed"
        /\ ClearInvitationToken(requests[r].of)
        /\ UNCHANGED <<users, told>>
  /\ Ends(r)
  /\ UNCHANGED <<now, roles, grants, sessions, tokens>>

\* cmsdb bootstrap admin: the account, its event, and then the role.
CreateUser(r) ==
  /\ \E e \in Email :
       /\ insertUser(e, 0)
       /\ Start(r, [Free EXCEPT !.op = "tell", !.event = <<"user.created", e>>])
  /\ UNCHANGED <<invitations, told, now, roles, grants, sessions, tokens>>

grantAdminRole(r) ==
  /\ requests[r].op = "promote"
  /\ roles' = roles \cup {<<requests[r].who, AdminRole>>}
  /\ Ends(r)
  /\ UNCHANGED <<accountVars, now, grants, sessions, tokens>>

--------------------------------------------------------------------------------
(* Grants and roles                                                           *)

CreateGrant(r) ==
  /\ requests[r].op = "authenticated" /\ Cardinality(grants) < MaxGrants
  /\ \E role \in Role, p \in OfferedPrivileges, s \in Offered :
       /\ CanGrant(requests[r].held, s, p)
       /\ grants' = grants \cup {[role |-> role, privilege |-> p, scope |-> s,
                                  by |-> requests[r].held]}
       /\ ThenTells(r, <<"grant.created", role>>)
  /\ UNCHANGED <<accountVars, now, roles, sessions, tokens>>

\* Nobody hands on what they could not grant.
handsOn(held, role) == \A g \in GrantsForRole(role) : CanGrant(held, g.scope, g.privilege)

BeginAssigning(r) ==
  /\ requests[r].op = "authenticated"
  /\ \E u \in DOMAIN users, role \in Role :
       /\ handsOn(requests[r].held, role)
       /\ Goes(r, [requests[r] EXCEPT !.op = "assign", !.arg = <<u, role>>])
  /\ UNCHANGED <<accountVars, now, roles, grants, sessions, tokens>>

\* INSERT OR IGNORE.
AssignRole(r) ==
  /\ requests[r].op = "assign"
  /\ roles' = roles \cup {requests[r].arg}
  /\ ThenTells(r, <<"role.assigned", requests[r].arg[1]>>)
  /\ UNCHANGED <<accountVars, now, grants, sessions, tokens>>

\* Anything that reads only, is refused, or is cut off before it writes.
GiveUp(r) ==
  /\ requests[r].op \in {"issue", "authenticate", "authenticated", "invite", "revoke", "promote"}
  /\ Ends(r)
  /\ UNCHANGED <<accountVars, now, roles, grants, sessions, tokens>>

Tick ==
  /\ now < MaxNow
  /\ now' = now + 1
  /\ UNCHANGED <<accountVars, roles, grants, sessions, tokens, requests, served>>

Serve(r) ==
  \/ SignIn(r) \/ issue(r) \/ FindSession(r) \/ DropExpired(r) \/ Authenticate(r) \/ Logout(r)
  \/ BeginInvitation(r) \/ CreateInvitation(r) \/ BeginRevocation(r) \/ RevokeInvitation(r)
  \/ BeginRedemption(r) \/ Redeem(r) \/ CreateUser(r) \/ grantAdminRole(r)
  \/ CreateGrant(r) \/ BeginAssigning(r) \/ AssignRole(r) \/ Tell(r) \/ GiveUp(r)

Next == Tick \/ \E r \in Request : Serve(r)

Spec == Init /\ [][Next]_vars

--------------------------------------------------------------------------------
(* Properties                                                                 *)

\* Nobody confers, or forbids, what they could not do themselves: over every
\* subject that a grant reaches, whoever made it held what making it takes when
\* they asked (authz.CanGrant over scopes, against authz.Resolve over subjects).
GrantsWithinReach ==
  \A g \in grants \ StartGrants : \A s \in Subject :
    ScopeMatches(g.scope, s) => Allows(g.by, s, Needed(g.privilege))

\* An invitation makes one account, for the address it was sent to, and an account
\* says which; and no address has two invitations that can be taken up: whoever
\* redeems, revokes, invites again or makes the account by hand meanwhile
\* (store.Redeem, store.CreateInvitation).  An account made by hand may stand
\* beside an open invitation for its address, which then cannot be taken up.
AccountsMatchInvitations ==
  /\ \A e \in DOMAIN users : users[e] # 0 =>
       LET row == invitations[users[e]] IN row.status = "redeemed" /\ row.user = e /\ row.email = e
  /\ \A i \in DOMAIN invitations : invitations[i].status = "redeemed" =>
       invitations[i].user \in DOMAIN users /\ users[invitations[i].user] = i
  /\ \A i, j \in DOMAIN invitations :
       Pending(i) /\ Pending(j) /\ invitations[i].email = invitations[j].email => i = j

timesTold(event) == IF BagIn(event, told) THEN told[event] ELSE 0

\* The history of an invitation is what its row says, told once, so that what
\* is settled is not settled again and its link is gone; and an account made by
\* one is told of (the UPDATEs name 'pending', the events are in the transaction).
HistoryExplainsInvitations ==
  /\ \A i \in DOMAIN invitations :
       /\ timesTold(<<"invitation.created", i>>) = 1
       /\ Terminal(invitations[i].status) => ~invitations[i].link
       /\ \A status \in InvitationStatuses \ {"pending"} :
            timesTold(<<status, i>>) = IF invitations[i].status = status THEN 1 ELSE 0
  /\ \A e \in DOMAIN users : users[e] # 0 => timesTold(<<"user.created", e>>) = 1

\* Not so.  Logging out, and an expired session found on the way, end one's own session:
\* sessions are deleted by row id, and ids are used again (service.Logout).
NobodyElseIsSignedOut ==
  [][\A r \in Request, s \in DOMAIN sessions \ DOMAIN sessions' :
       requests'[r] # requests[r] => requests[r].who = sessions[s].user]_vars
================================================================================
