------------------------------ MODULE Invitations ------------------------------
(***************************************************************************)
(* The accounts and the invitations they come from: the statements and     *)
(* transactions of internal/store/users.go and internal/store/             *)
(* invitations.go, each an operator that Access uses as part of a step.    *)
(*                                                                         *)
(* An invitation's row is never deleted, so its place in the sequence is   *)
(* its uid.  Whoever was given a link holds it for ever; tokens differ, so *)
(* the row a link finds is the one it was made for, while that row has a   *)
(* hash.                                                                   *)
(***************************************************************************)
EXTENDS Naturals, Sequences, FiniteSets, Bags, BagsExt, TLC

CONSTANTS
  Email,           \* addresses, as NormalizeEmail leaves them
  InvitationTTL,   \* domain.InvitationTTL
  MaxInvitations   \* bound: invitations ever written

VARIABLES
  users,        \* [a set of addresses -> the invitation an account came from, or 0]
  invitations,  \* the rows of invitations
  told,         \* the bag of <<event, its subject>>; what settles an
                \* invitation is called by the status it gives it
  now           \* the clock

InvitationStatuses == {"pending", "redeemed", "revoked", "superseded"}

Terminal(status) == status \in InvitationStatuses \ {"pending"}

\* link: token_sha256 is set; user: the account redemption created.
Invitation == [email : Email, status : InvitationStatuses, link : BOOLEAN, expires : Nat,
               user : Email \cup {"none"}]

Expired(i) == now >= invitations[i].expires

Pending(i) == invitations[i].status = "pending"

recordEvents(bag) == told' = told (+) bag

\* Slip: INSERT OR IGNORE.
insertUserOrIgnore(email, from) == users' = users @@ (email :> from)

\* INSERT INTO users, whose addresses are unique.
insertUser(email, from) ==
  /\ email \notin DOMAIN users
  /\ users' = [e \in DOMAIN users \cup {email} |-> IF e = email THEN from ELSE users[e]]

settled(row, status) == [row EXCEPT !.status = status, !.link = FALSE]

pendingFor(email) == {i \in DOMAIN invitations : Pending(i) /\ invitations[i].email = email}

\* One transaction: what was pending for the address is superseded, and the new row goes in.
StoreInvitation(email, at) ==
  /\ Len(invitations) < MaxInvitations
  /\ invitations' = Append([i \in DOMAIN invitations |-> IF i \in pendingFor(email)
                              THEN settled(invitations[i], "superseded") ELSE invitations[i]],
                           [email |-> email, status |-> "pending", link |-> TRUE,
                            expires |-> at + InvitationTTL, user |-> "none"])
  /\ recordEvents(SetToBag({<<"superseded", i>> : i \in pendingFor(email)}
                           \cup {<<"invitation.created", Len(invitations) + 1>>}))

\* Slip: the event is recorded whatever the UPDATE changed.
SettleInvitationAndTell(i, status) ==
  /\ invitations' = IF Pending(i) THEN [invitations EXCEPT ![i] = settled(@, status)]
                    ELSE invitations
  /\ recordEvents(SetToBag({<<status, i>>}))

\* UPDATE ... WHERE id AND status = 'pending', and the event if a row changed.
SettleInvitation(i, status) ==
  IF Pending(i)
  THEN /\ invitations' = [invitations EXCEPT ![i] = settled(@, status)]
       /\ recordEvents(SetToBag({<<status, i>>}))
  ELSE UNCHANGED <<invitations, told>>

ClearInvitationToken(i) ==
  invitations' = IF Pending(i) THEN [invitations EXCEPT ![i].link = FALSE] ELSE invitations

\* The WHERE of the redeeming UPDATE.
open(i) == Pending(i)

\* One transaction: the row is settled, the account made, and both told of.
StoreRedemption(i) ==
  LET email == invitations[i].email IN
    \/ /\ open(i)
       /\ insertUser(email, i)
       /\ invitations' = [invitations EXCEPT ![i] = [settled(@, "redeemed") EXCEPT !.user = email]]
       /\ recordEvents(SetToBag({<<"user.created", email>>, <<"redeemed", i>>}))
    \/ /\ ~open(i) \/ email \in DOMAIN users  \* rolled back
       /\ UNCHANGED <<users, invitations, told>>

InvitationsTypeOK ==
  /\ DOMAIN users \subseteq Email
  /\ \A e \in DOMAIN users : users[e] \in 0..Len(invitations)
  /\ invitations \in Seq(Invitation)
  /\ IsABag(told)
  /\ now \in Nat
================================================================================
