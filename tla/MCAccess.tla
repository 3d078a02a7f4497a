-------------------------------- MODULE MCAccess --------------------------------
(* A site with one section and a subsection of it; an administrator, and an   *)
(* editor who may do everything in the section except to what is live.        *)
EXTENDS Access

Features == <<"features">>
Film == <<"features", "film">>

Scope(at, category, deep) == [at |-> at, category |-> category, deep |-> deep]

Everything == Scope(<<>>, NoCategory, FALSE)

Grant(role, privilege, scope) == [role |-> role, privilege |-> privilege, scope |-> scope, by |-> {}]

MCStartRoles == {<<"ann", "admin">>, <<"ed", "editor">>}

MCStartGrants ==
  {Grant("admin", Publish, Everything),
   Grant("editor", Publish, Scope(<<>>, Features, TRUE)),
   Grant("editor", Deny, Scope("state" :> "live", NoCategory, FALSE))}

\* All of the section; the section itself; the subsection's drafts; what is live.
MCOffered ==
  {Scope(<<>>, Features, TRUE), Scope("state" :> "draft", Features, FALSE),
   Scope("state" :> "draft", Film, TRUE), Scope("state" :> "draft", <<>>, TRUE)}

MCSubject ==
  {[at |-> [a \in Attributes |-> IF a = "state" THEN s ELSE "zero"], category |-> c] :
     s \in {"draft", "live"}, c \in {<<>>, Features, Film, NoCategory}}
================================================================================
