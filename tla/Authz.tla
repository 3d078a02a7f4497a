--------------------------------- MODULE Authz ---------------------------------
(***************************************************************************)
(* Privileges, scopes and grants (internal/domain/privilege.go, authz.go,  *)
(* internal/authz): what a set of grants resolves to over a subject, and   *)
(* what somebody who holds it may hand on.                                 *)
(*                                                                         *)
(* A scope is [at, category, deep].  at is a function from the attributes  *)
(* it constrains to values: a nil pointer of the code is an attribute out  *)
(* of its domain.  A category is the sequence of the directories of its    *)
(* path: paths end in '/', so a prefix of the text is a prefix of the      *)
(* sequence.                                                               *)
(***************************************************************************)
EXTENDS Integers, Sequences

CONSTANT NoCategory  \* no category constraint; the empty path of a subject

NoPrivilege == 0
Read == 1
Create == 4
Publish == 5
Deny == 255

\* What a grant may carry: Read, Edit, Recall, Create, Publish and Deny.
Privileges == Read..Publish \cup {Deny}

Attributes == {"site", "doc_kind", "workflow", "state", "collection", "document"}

\* A category, or none, where a category is asked for.
CategoryOrNone(c) == c = NoCategory \/ c \in Seq(STRING)

\* Deny is the maximum, and permits nothing.
allows(p, want) == p # Deny /\ p >= want

categoryMatches(scopePath, deep, path) ==
  /\ path # NoCategory
  /\ \/ scopePath = path
     \/ deep /\ Len(scopePath) <= Len(path) /\ \A i \in 1..Len(scopePath) : path[i] = scopePath[i]

\* A subject is [at, category]; at has every attribute.
ScopeMatches(s, subject) ==
  /\ \A a \in DOMAIN s.at : s.at[a] = subject.at[a]
  /\ s.category # NoCategory => categoryMatches(s.category, s.deep, subject.category)

Matching(grants, subject) == {g.privilege : g \in {h \in grants : ScopeMatches(h.scope, subject)}}

\* The greatest matching privilege.
Resolve(grants, subject) ==
  LET P == Matching(grants, subject) \cup {NoPrivilege} IN CHOOSE p \in P : \A q \in P : q <= p

Allows(grants, subject, want) == allows(Resolve(grants, subject), want)

\* Everything inner reaches, outer reaches.
Covers(outer, inner) ==
  /\ \A a \in DOMAIN outer.at : a \in DOMAIN inner.at /\ outer.at[a] = inner.at[a]
  /\ outer.category # NoCategory =>
       /\ inner.category # NoCategory
       /\ categoryMatches(outer.category, outer.deep, inner.category)
       /\ inner.deep => outer.deep

\* Slip: a grant over nothing but a category touches only scopes of a category.
IntersectsIfAlike(a, b) ==
  /\ \A f \in DOMAIN a.at \cap DOMAIN b.at : a.at[f] = b.at[f]
  /\ \/ a.category = b.category
     \/ /\ a.category # NoCategory /\ b.category # NoCategory
        /\ \/ categoryMatches(a.category, a.deep, b.category)
           \/ categoryMatches(b.category, b.deep, a.category)

\* Some subject may be in both.
Intersects(a, b) ==
  /\ \A f \in DOMAIN a.at \cap DOMAIN b.at : a.at[f] = b.at[f]
  /\ a.category # NoCategory /\ b.category # NoCategory =>
       \/ categoryMatches(a.category, a.deep, b.category)
       \/ categoryMatches(b.category, b.deep, a.category)

\* The greatest privilege a holder may confer over all of a scope.
Delegable(held, scope) ==
  IF \E g \in held : g.privilege = Deny /\ Intersects(g.scope, scope) THEN NoPrivilege
  ELSE LET P == {g.privilege : g \in {h \in held : h.privilege # Deny /\ Covers(h.scope, scope)}}
                \cup {NoPrivilege}
       IN  CHOOSE p \in P : \A q \in P : q <= p

\* What granting p takes: one may forbid only where one may do everything.
Needed(p) == IF p = Deny THEN Publish ELSE p

CanGrant(held, scope, p) == p \in Privileges /\ allows(Delegable(held, scope), Needed(p))
================================================================================
