------------------------------- MODULE Deployment ------------------------------
(***************************************************************************)
(* A database file and what an operator does to it with cmsdb: init,       *)
(* migrate up, seed, bootstrap admin and backup (cmd/cmsdb,                *)
(* internal/store/open.go, backup.go, check.go), any of which may be       *)
(* killed, next to each other and to the cmsd process of module Server.    *)
(*                                                                         *)
(* A command is a program of transactions. Seed and bootstrap are lists of *)
(* rows to have: each is looked for, and inserted, in turn; the schema's   *)
(* UNIQUE constraints refuse a second one of some of them.                 *)
(***************************************************************************)
EXTENDS Server, Sequences, SequencesExt

CONSTANTS
  Procs,     \* command lines, each running one command after another
  Roles,     \* the slugs of the seeded roles, in order
  Things,    \* rows: <<kind, name>>
  Unique,    \* the kinds of rows a UNIQUE constraint keeps single
  Embeds,    \* how many migrations the server's binary embeds
  Situations, \* how things begin: [file, plan]; plan: how often each command is given
  MaxKills   \* bound: commands killed

ASSUME DeploymentAssumption == Embeds \in Nat /\ MaxKills \in Nat /\ Roles \in Seq(STRING)

VARIABLES
  file,      \* [there, stamped, version]: the file, its application_id and user_version
  rows,      \* [Things -> how many of them]
  proc,      \* [Procs -> [command, at, step]]
  plan,      \* [commands -> how often it will still be given]
  partial,   \* the scratch file of backups: <<>> or <<[by, whole]>>
  named,     \* the file under the name that was asked for, likewise
  crossed,   \* two commands of one kind have run at once
  kills

commandVars == <<file, rows, proc, plan, partial, named, crossed, kills>>
vars == <<serverVars, commandVars>>

Ended == {"idle", "done", "failed", "killed"}
Running(p) == proc[p].at \notin Ended
Now(p) == proc[p].command

Init ==
  /\ ServerInit
  /\ \E s \in Situations : file = s.file /\ plan = s.plan
  /\ rows = [t \in Things |-> 0]
  /\ proc = [p \in Procs |-> [command |-> [does |-> "nothing"], at |-> "idle", step |-> 1]]
  /\ partial = <<>> /\ named = <<>>
  /\ crossed = FALSE /\ kills = 0

--------------------------------------------------------------------------------
(* Opening the file                                                           *)

\* store.verify: what a policy accepts of the two markers.
Verified(policy, embeds) ==
  /\ file.there /\ file.stamped
  /\ \/ policy = "any"
     \/ file.version = embeds
     \/ policy = "behind" /\ file.version < embeds

Policy(does) ==
  CASE does = "backup"             -> "any"
    [] does = "migrate"            -> "behind"
    [] does \in {"seed", "bootstrap"} -> "exact"

\* A connection of another process is in the middle of a statement.
Copying(p) == proc[p].at = "copying"
Reading == \E c \in Clients : client[c] \in {"reading", "writing"}
Writing == \E c \in Clients : client[c] = "writing"

GoTo(p, at) == proc' = [proc EXCEPT ![p].at = at]

Give(p, c) ==
  /\ ~Running(p) /\ plan[c] > 0
  /\ plan' = [plan EXCEPT ![c] = @ - 1]
  /\ proc' = [proc EXCEPT ![p] = [command |-> c, at |-> "open", step |-> 1]]
  /\ crossed' = (crossed \/ \E q \in Procs : Running(q) /\ Now(q).does = c.does)
  /\ UNCHANGED <<serverVars, file, rows, partial, named, kills>>

FirstStep(does) ==
  CASE does = "migrate" -> "stamp" [] does = "backup" -> "looking" [] OTHER -> "next"

Open(p) ==
  /\ proc[p].at = "open" /\ Now(p).does # "init"
  /\ GoTo(p, IF Verified(Policy(Now(p).does), Now(p).embeds) THEN FirstStep(Now(p).does) ELSE "failed")
  /\ UNCHANGED <<serverVars, file, rows, plan, partial, named, crossed, kills>>

\* store.Create: Exists, and then the one open that may create the file.
InitLooks(p) ==
  /\ proc[p].at = "open" /\ Now(p).does = "init"
  /\ GoTo(p, IF file.there THEN "reopen" ELSE "create")
  /\ UNCHANGED <<serverVars, file, rows, plan, partial, named, crossed, kills>>

Create(p) ==
  /\ proc[p].at = "create"
  /\ file' = [file EXCEPT !.there = TRUE]
  /\ GoTo(p, "stamp")
  /\ UNCHANGED <<serverVars, rows, plan, partial, named, crossed, kills>>

\* An init that finds a file reports it; one that made it opens it as cmsd does.
Reopen(p) ==
  /\ proc[p].at \in {"reopen", "verify"}
  /\ GoTo(p, IF Verified(IF proc[p].at = "reopen" THEN "behind" ELSE "exact", Now(p).embeds)
             THEN "succeeding" ELSE "failed")
  /\ UNCHANGED <<serverVars, file, rows, plan, partial, named, crossed, kills>>

--------------------------------------------------------------------------------
(* Migrations                                                                 *)

\* sqlitemigration sets the application_id of a file that has none yet ...
Stamp(p) ==
  /\ proc[p].at = "stamp" /\ ~Writing
  /\ file' = [file EXCEPT !.stamped = TRUE]
  /\ log' = TRUE
  /\ GoTo(p, "applying")
  /\ UNCHANGED <<phase, way, asked, signalled, spent, told, client, readers, rows, plan, partial, named, crossed, kills>>

\* A slip: one migration a run.
ApplyOne(p) ==
  /\ proc[p].at = "applying" /\ ~Writing
  /\ file' = [file EXCEPT !.version = IF @ < Now(p).to THEN @ + 1 ELSE @] /\ log' = TRUE
  /\ GoTo(p, IF Now(p).does = "init" THEN "verify" ELSE "succeeding")
  /\ UNCHANGED <<phase, way, asked, signalled, spent, told, client, readers, rows, plan, partial, named, crossed, kills>>

\* ... and applies each migration in a transaction of its own, which reads the
\* version again, up to the number it was given.
Apply(p) ==
  /\ proc[p].at = "applying" /\ ~Writing
  /\ IF file.version < Now(p).to
     THEN file' = [file EXCEPT !.version = @ + 1] /\ log' = TRUE /\ UNCHANGED proc
     ELSE GoTo(p, IF Now(p).does = "init" THEN "verify" ELSE "succeeding") /\ UNCHANGED <<file, log>>
  /\ UNCHANGED <<phase, way, asked, signalled, spent, told, client, readers, rows, plan, partial, named, crossed, kills>>

--------------------------------------------------------------------------------
(* Seed and bootstrap                                                         *)

Sites == {t \in Things : t[1] = "site" /\ rows[t] > 0}
\* A role, its grant, the next role.
RolesToHave ==
  [i \in 1..2 * Len(Roles) |-> <<IF i % 2 = 1 THEN "role" ELSE "grant", Roles[(i + 1) \div 2]>>]
SiteToHave(domain) == <<<<"site", domain>>, <<"channel", domain>>, <<"type", "story">>>>
\* The sample needs somebody to have written it.
SampleToHave == <<<<"author", "anyone">>, <<"document", "sample">>, <<"filing", "sample">>>>
JobToHave == <<<<"job", "noop">>>>
AdminToHave == <<<<"user", "admin">>, <<"assignment", "admin">>>>

Program(c) ==
  IF c.does = "bootstrap" THEN AdminToHave
  ELSE RolesToHave \o SiteToHave(c.domain) \o IF c.demo THEN SampleToHave \o JobToHave ELSE <<>>

Commands == UNION {DOMAIN s.plan : s \in Situations}
serve == [does |-> "serve"]

\* What is given is a command with what it takes, every row has its table, and the
\* schema keeps single what seed and bootstrap insert without looking.
ASSUME CommandsAssumption ==
  /\ \A s \in Situations : /\ s.file \in [there : BOOLEAN, stamped : BOOLEAN, version : Nat]
                            /\ s.plan \in [DOMAIN s.plan -> Nat]
  /\ \A c \in Commands \ {serve} :
       /\ c.does \in {"init", "migrate", "seed", "bootstrap", "backup"}
       /\ c.does \in {"init", "migrate"} => c.to \in Nat
       /\ c.does = "seed" => c.domain \in STRING /\ c.demo \in BOOLEAN
       /\ c.does \in {"seed", "bootstrap"} =>
            \A t \in Range(Program(c)) : t[1] # "author" => t \in Things
  /\ {"role", "user", "assignment", "filing"} \subseteq Unique

Wanted(p) == Program(Now(p))[proc[p].step]
\* After the step; a document that is there already needs no filing.
Past(p, n) ==
  IF proc[p].step + n > Len(Program(Now(p)))
  THEN proc' = [proc EXCEPT ![p].at = "succeeding"]
  ELSE proc' = [proc EXCEPT ![p].at = "next", ![p].step = @ + n]

\* A site of whatever domain will do.
Found(t) == IF t[1] = "site" THEN Sites # {} ELSE rows[t] > 0

\* What is looked for before it is inserted; a role or a user is not.
Look(p) ==
  /\ proc[p].at = "next"
  /\ LET t == Wanted(p) IN
       CASE t[1] \in {"role", "user", "filing"} -> GoTo(p, "insert")
         [] t[1] = "author" -> IF rows[<<"user", "admin">>] > 0 THEN Past(p, 1) ELSE GoTo(p, "failing")
         [] t[1] = "site" -> IF ~Found(t) THEN GoTo(p, "insert")
                             ELSE IF Sites = {t} THEN Past(p, 1) ELSE GoTo(p, "failing")
         [] t[1] = "document" -> IF Found(t) THEN Past(p, 2)
                                 ELSE GoTo(p, IF Cardinality(Sites) = 1 THEN "insert" ELSE "failing")
         [] t[1] = "assignment" -> IF rows[<<"role", "admin">>] > 0 THEN GoTo(p, "insert") ELSE Past(p, 1)
         [] OTHER -> IF Found(t) THEN Past(p, 1) ELSE GoTo(p, "insert")
  /\ UNCHANGED <<serverVars, file, rows, plan, partial, named, crossed, kills>>

\* A conflict means that a role is there already, and is an error of anything else.
Insert(p) ==
  /\ proc[p].at = "insert" /\ ~Writing
  /\ LET t == Wanted(p) IN
       IF t[1] \in Unique /\ rows[t] > 0
       THEN (IF t[1] = "role" THEN Past(p, 1) ELSE GoTo(p, "failing")) /\ UNCHANGED <<rows, log>>
       ELSE rows' = [rows EXCEPT ![t] = @ + 1] /\ log' = TRUE /\ Past(p, 1)
  /\ UNCHANGED <<phase, way, asked, signalled, spent, told, client, readers, file, plan, partial, named, crossed, kills>>

\* The server's writer has kept the lock for longer than the busy timeout.
GetsNoLock(p) ==
  /\ proc[p].at \in {"stamp", "applying", "insert"} /\ Writing
  /\ GoTo(p, "failing")
  /\ UNCHANGED <<serverVars, file, rows, plan, partial, named, crossed, kills>>

--------------------------------------------------------------------------------
(* Backup                                                                     *)

Fails(p) == GoTo(p, "failing") /\ partial' = <<>>

BackupLooks(p) ==
  /\ proc[p].at = "looking"
  /\ GoTo(p, IF named # <<>> /\ ~Now(p).overwrite THEN "failing" ELSE "removing")
  /\ UNCHANGED <<serverVars, file, rows, plan, partial, named, crossed, kills>>

\* A slip: the target makes way before there is a good file to put in its place.
RemoveBoth(p) ==
  /\ proc[p].at = "removing"
  /\ partial' = <<>> /\ named' = <<>> /\ GoTo(p, "copy")
  /\ UNCHANGED <<serverVars, file, rows, plan, crossed, kills>>

RemovePartial(p) ==
  /\ proc[p].at = "removing"
  /\ partial' = <<>> /\ GoTo(p, "copy")
  /\ UNCHANGED <<serverVars, file, rows, plan, named, crossed, kills>>

\* VACUUM INTO refuses a file that is there, and writes one that stays half
\* written if the process dies. The scratch file may meanwhile be removed or
\* renamed by somebody else's backup to the same name.
BeginCopy(p) ==
  /\ proc[p].at = "copy"
  /\ IF partial # <<>> THEN Fails(p)
     ELSE partial' = <<[by |-> p, whole |-> FALSE]>> /\ GoTo(p, "copying")
  /\ UNCHANGED <<serverVars, file, rows, plan, named, crossed, kills>>

Whole(f, p) == [i \in DOMAIN f |-> [f[i] EXCEPT !.whole = @ \/ f[i].by = p]]

EndCopy(p) ==
  /\ proc[p].at = "copying"
  /\ partial' = Whole(partial, p) /\ named' = Whole(named, p)
  /\ GoTo(p, "checking")
  /\ UNCHANGED <<serverVars, file, rows, plan, crossed, kills>>

\* Only a whole file of this system passes.
CheckFile == partial # <<>> /\ partial[1].whole

Check(p) ==
  /\ proc[p].at = "checking"
  /\ IF CheckFile THEN GoTo(p, "naming") /\ UNCHANGED partial ELSE Fails(p)
  /\ UNCHANGED <<serverVars, file, rows, plan, named, crossed, kills>>

Rename(p) ==
  /\ proc[p].at = "naming"
  /\ IF partial = <<>> THEN Fails(p) /\ UNCHANGED named
     ELSE named' = partial /\ partial' = <<>> /\ GoTo(p, "succeeding")
  /\ UNCHANGED <<serverVars, file, rows, plan, crossed, kills>>

--------------------------------------------------------------------------------
(* The end of a command, and the server                                       *)

\* DB.Close moves the log into the file unless somebody is in a statement.
Close(p) ==
  /\ proc[p].at \in {"succeeding", "failing"}
  /\ GoTo(p, IF proc[p].at = "failing" THEN "failed" ELSE "done")
  /\ log' = (log /\ (Reading \/ \E q \in Procs \ {p} : Copying(q)))
  /\ UNCHANGED <<phase, way, asked, signalled, spent, told, client, readers, file, rows, plan, partial, named, crossed, kills>>

Kill(p) ==
  /\ Running(p) /\ kills < MaxKills
  /\ kills' = kills + 1 /\ GoTo(p, "killed")
  /\ UNCHANGED <<serverVars, file, rows, plan, partial, named, crossed>>

\* cmsd serve: the database is opened and verified before anything binds a port.
StartServer ==
  /\ plan[serve] > 0 /\ Serve
  /\ Verified("exact", Embeds)
  /\ plan' = [plan EXCEPT ![serve] = 0]
  /\ UNCHANGED <<file, rows, proc, partial, named, crossed, kills>>

CloseDatabase == CloseWriter(\E p \in Procs : Copying(p)) /\ UNCHANGED commandVars

Step(p) ==
  \/ Open(p) \/ InitLooks(p) \/ Create(p) \/ Reopen(p) \/ Stamp(p) \/ Apply(p)
  \/ Look(p) \/ Insert(p) \/ GetsNoLock(p)
  \/ BackupLooks(p) \/ RemovePartial(p) \/ BeginCopy(p) \/ EndCopy(p) \/ Check(p) \/ Rename(p)
  \/ Close(p)

ServerStep == ServerNext /\ UNCHANGED commandVars
Leave == Exit /\ UNCHANGED commandVars
SpendBudget == DrainOver /\ UNCHANGED commandVars
GiveBack(c) == Return(c) /\ UNCHANGED commandVars

Next ==
  \/ \E p \in Procs : Step(p) \/ Kill(p) \/ \E c \in DOMAIN plan \ {serve} : Give(p, c)
  \/ StartServer \/ ServerStep \/ CloseDatabase

\* The server's statements end, its timer runs out and its code goes on; who
\* waits for the writer's mutex gets it, however often others take it. Nothing
\* makes a request be answered or a job be finished.
Fairness ==
  /\ \A c \in Clients : WF_vars(GiveBack(c))
  /\ WF_vars(Leave) /\ WF_vars(SpendBudget) /\ SF_vars(CloseDatabase)

Spec == Init /\ [][Next]_vars /\ Fairness

--------------------------------------------------------------------------------
(* Properties                                                                 *)

Copy == [by : Procs, whole : BOOLEAN]

\* Every variable keeps its type; a command is at one of its own places.
TypeOK ==
  /\ ServerTypeOK
  /\ file \in [there : BOOLEAN, stamped : BOOLEAN, version : Nat]
  /\ rows \in [Things -> Nat]
  /\ \A p \in Procs : Running(p) =>
       /\ Now(p) \in DOMAIN plan /\ proc[p].step \in Nat
       /\ proc[p].at \in {"open", "succeeding", "failing"} \cup
            CASE Now(p).does = "init"                   -> {"create", "reopen", "stamp", "applying", "verify"}
              [] Now(p).does = "migrate"                -> {"stamp", "applying"}
              [] Now(p).does \in {"seed", "bootstrap"} -> {"next", "insert"}
              [] Now(p).does = "backup"                 -> {"looking", "removing", "copy", "copying", "checking", "naming"}
  /\ plan \in [DOMAIN plan -> Nat]
  /\ partial \in {<<>>} \cup {<<c>> : c \in Copy} /\ named \in {<<>>} \cup {<<c>> : c \in Copy}
  /\ crossed \in BOOLEAN /\ kills \in 0..MaxKills

\* A command that has ended well has done what it is for, whatever was killed
\* before it and runs beside it (seed.go:112-160, db.go:18-140): the file is this
\* system's, the schema is there, and every row that seed or bootstrap is to make
\* sure of. (An init that finds a file may find it half migrated, and the sample's
\* filing is not made up for: see the hazards at db.go:37 and seed.go:448.)
Promised(c) ==
  CASE c.does = "init" -> file.stamped
    [] c.does = "migrate" -> file.stamped /\ file.version >= c.to
    [] c.does = "seed" -> \A t \in Range(Program(c)) : t[1] \notin {"author", "filing"} => rows[t] > 0
    [] c.does = "bootstrap" -> rows[<<"user", "admin">>] > 0
    [] c.does = "backup" -> named # <<>>
\* And seeding again, after a run that was killed too, doubles nothing and makes
\* no second site, as long as two seeds do not run at once (seed.go:112-118, 195-204).
PromisesAreKept ==
  /\ \A p \in Procs : proc[p].at \in {"succeeding", "done"} => Promised(Now(p))
  /\ ~crossed => (\A t \in Things : rows[t] <= 1) /\ Cardinality(Sites) <= 1

\* A file under the name of a backup is a whole one, however the command that
\* wrote it or a later one ended, and once there is one there always is
\* (backup.go:17-26), as long as two backups do not run at once.
BackupIsWhole ==
  [][~crossed => /\ \A i \in DOMAIN named' : named'[i].whole
                 /\ named # <<>> => named' # <<>>]_vars

\* Who asks the server to end sees it end, although requests and jobs may hang
\* (server.go:383-414), and after that the file alone is a complete copy, until
\* somebody else writes (store.go:187-206).
ShutdownEnds ==
  /\ (phase = "serving" /\ signalled) ~> (phase = "ended")
  /\ [][phase # "ended" /\ phase' = "ended" /\ (\A p \in Procs : ~Copying(p)) => ~log']_vars
================================================================================
