----------------------------- MODULE MCDeployment -----------------------------
(* What operators do to a file in a day: each situation with the commands that
   are given in it, in any order and two at a time. *)
EXTENDS Deployment

MCThings ==
  {"role", "grant"} \X {"admin", "viewer"} \cup {"site", "channel"} \X {"a", "b"}
  \cup {<<"type", "story">>, <<"user", "admin">>, <<"assignment", "admin">>,
        <<"document", "sample">>, <<"filing", "sample">>, <<"job", "noop">>}
MCUnique == {"role", "site", "channel", "type", "user", "assignment", "filing"}
MCRoles == <<"admin", "viewer">>

File(version) == [there |-> version > 0, stamped |-> version > 0, version |-> version]
Nothing == serve :> 0
initialise(n) == [does |-> "init", embeds |-> n, to |-> n]
migrate(n, to) == [does |-> "migrate", embeds |-> n, to |-> to]
seed(domain, demo) == [does |-> "seed", embeds |-> 2, domain |-> domain, demo |-> demo]
bootstrap == [does |-> "bootstrap", embeds |-> 2]
backup(overwrite) == [does |-> "backup", embeds |-> 1, overwrite |-> overwrite]

MCSituations == {
  \* a binary is replaced by one that embeds another migration
  [file |-> File(0), plan |-> Nothing @@ initialise(1) :> 2 @@ initialise(2) :> 1
                                @@ migrate(2, 2) :> 1 @@ migrate(2, 1) :> 1],
  \* a database is filled
  [file |-> File(2), plan |-> Nothing @@ seed("a", TRUE) :> 2 @@ seed("b", FALSE) :> 1
                                @@ bootstrap :> 1],
  \* it is backed up
  [file |-> File(2), plan |-> Nothing @@ backup(FALSE) :> 1 @@ backup(TRUE) :> 2],
  \* it is served
  [file |-> File(2), plan |-> serve :> 1 @@ backup(FALSE) :> 1],
  [file |-> File(1), plan |-> serve :> 1 @@ migrate(2, 2) :> 1],
  [file |-> File(2), plan |-> serve :> 1 @@ bootstrap :> 1]}
===============================================================================
