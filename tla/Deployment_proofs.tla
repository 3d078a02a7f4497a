--------------------------- MODULE Deployment_proofs ---------------------------
(***************************************************************************)
(* What a server and the command lines beside it guarantee for every       *)
(* number of them, every set of commands and however they are killed: who  *)
(* is waited for in a shutdown, what a command that ended well has done,   *)
(* and that a backup is whole.                                             *)
(*                                                                         *)
(* Three invariants: SInv of the server, which no command disturbs; CInv   *)
(* of every command by itself, whatever runs beside it; and OneByOne, what *)
(* holds besides as long as no two commands of a kind run at once.         *)
(*                                                                         *)
(* The last part is about module Answers, what the server says to whoever  *)
(* asks: to whom a request is attributed, that another site's page changes *)
(* nothing, and that an answer is what became of the request, for whatever *)
(* requests, travels and errors there are.                                 *)
(***************************************************************************)
EXTENDS Deployment, Answers, FiniteSetTheorems, SequenceTheorems, WellFoundedInduction, TLAPS

--------------------------------------------------------------------------------
(* The server's own invariant                                                 *)

ServerType ==
  /\ phase \in {"down", "serving", "draining", "stopping", "closing", "ended"}
  /\ client \in [Clients -> Inside \cup {"out", "gone", "broken"}]
  /\ spent \in BOOLEAN /\ told \in BOOLEAN

\* A reader is turned away only once the pool is closing, which is after Serve
\* has returned; requests come in only while it serves.
Orderly ==
  /\ phase = "down" => client = [c \in Clients |-> "out"]
  /\ phase \in {"down", "serving", "draining"} => ~told
  /\ phase \in {"serving", "draining", "stopping"} => readers = "open"
  /\ phase \notin {"closing", "ended"} => \A c \in Clients : client[c] # "broken"

\* What was waited for stays done, as long as nothing cut the waiting short.
WaitedFor ==
  ~spent /\ way # "failed" =>
    /\ phase \in {"stopping", "closing", "ended"} => \A r \in Requests : client[r] \in {"out", "gone"}
    /\ phase \in {"closing", "ended"} => \A w \in Workers : client[w] = "gone"

SInv == ServerType /\ Orderly /\ WaitedFor

LEMMA InitSInv == ServerInit => SInv
BY DEF ServerInit, SInv, ServerType, Orderly, WaitedFor

\* Nothing but these variables matters to it.
LEMMA SInvStutters ==
  ASSUME SInv, UNCHANGED <<phase, way, spent, told, client, readers>>
  PROVE  SInv'
BY DEF SInv, ServerType, Orderly, WaitedFor

\* Requests come in only while the server serves, and a worker that has gone
\* does not come back.
LEMMA ClientMoves ==
  ASSUME SInv, Up, NEW c \in Clients, NEW v \in Inside \cup {"out", "gone", "broken"},
         client' = [client EXCEPT ![c] = v],
         UNCHANGED <<phase, way, spent, told, readers>>,
         v = "broken" => readers # "open",
         c \in Requests => client[c] \in Inside \/ phase = "serving",
         c \in Workers => client[c] # "gone"
  PROVE  SInv'
<1>1. ServerType'
      BY DEF SInv, ServerType
<1>2. Orderly'
      BY DEF SInv, ServerType, Orderly, Up
<1>3. WaitedFor'
  <2>   SUFFICES ASSUME ~spent, way # "failed", phase \in {"stopping", "closing", "ended"}
                 PROVE  /\ \A r \in Requests : client'[r] \in {"out", "gone"}
                        /\ phase \in {"closing", "ended"} => \A w \in Workers : client'[w] = "gone"
        BY DEF WaitedFor
  <2>1. \A r \in Requests : client[r] \in {"out", "gone"}
        BY DEF SInv, WaitedFor
  <2>2. c \notin Requests /\ c \in Workers
        BY <2>1 DEF Inside, Clients
  <2>3. phase \notin {"closing", "ended"}
        BY <2>2 DEF SInv, WaitedFor
  <2>   QED  BY <2>1, <2>2, <2>3 DEF SInv, ServerType, Clients
<1>   QED  BY <1>1, <1>2, <1>3 DEF SInv

LEMMA ClientSInv ==
  ASSUME SInv,
         \/ \E r \in Requests : Arrive(r) \/ Answer(r)
         \/ \E w \in Workers : Claim(w) \/ Report(w) \/ StopWorking(w)
         \/ \E c \in Clients : Read(c) \/ Write(c) \/ Return(c)
  PROVE  SInv'
<1>1. ASSUME NEW r \in Requests, Arrive(r) \/ Answer(r) PROVE SInv'
  <2>1. r \in Clients /\ r \notin Workers
        BY ServerAssumption DEF Clients
  <2>2. CASE Arrive(r)
        BY <2>1, <2>2, ClientMoves DEF Arrive, Up, Inside
  <2>3. CASE Answer(r)
        BY <2>1, <2>3, ClientMoves DEF Answer, Inside
  <2>   QED  BY <1>1, <2>2, <2>3
<1>2. ASSUME NEW w \in Workers, Claim(w) \/ Report(w) \/ StopWorking(w) PROVE SInv'
  <2>1. w \in Clients /\ w \notin Requests
        BY ServerAssumption DEF Clients
  <2>2. CASE Claim(w)
        BY <2>1, <2>2, ClientMoves DEF Claim, Inside
  <2>3. CASE Report(w)
        BY <2>1, <2>3, ClientMoves DEF Report, Inside
  <2>4. CASE StopWorking(w)
        BY <2>1, <2>4, ClientMoves DEF StopWorking, Inside
  <2>   QED  BY <1>2, <2>2, <2>3, <2>4
<1>3. ASSUME NEW c \in Clients, Read(c) \/ Write(c) \/ Return(c) PROVE SInv'
  <2>1. Up /\ client[c] \in Inside
        BY <1>3 DEF Read, Write, Return, Inside
  <2>2. CASE Read(c)
        BY <2>1, <2>2, ClientMoves DEF Read, Inside
  <2>3. CASE Write(c)
        BY <2>1, <2>3, ClientMoves DEF Write, Inside
  <2>4. CASE Return(c)
        BY <2>1, <2>4, ClientMoves DEF Return, Inside
  <2>   QED  BY <1>3, <2>2, <2>3, <2>4
<1>   QED  BY <1>1, <1>2, <1>3

\* The way out: each phase begins when what the one before waited for is done.
LEMMA WayOutSInv ==
  ASSUME SInv,
         \/ Signal \/ ListenerFails \/ DrainOver \/ Exit
         \/ \E reason \in {"timeout", "request"} : RequestShutdown(reason)
  PROVE  SInv'
<1>1. CASE Signal \/ \E reason \in {"timeout", "request"} : RequestShutdown(reason)
      BY <1>1, SInvStutters DEF Signal, RequestShutdown
<1>2. CASE ListenerFails
      BY <1>2 DEF ListenerFails, SInv, ServerType, Orderly, WaitedFor
<1>3. CASE DrainOver
      BY <1>3 DEF DrainOver, SInv, ServerType, Orderly, WaitedFor
<1>4. CASE BeginDrain
      BY <1>4 DEF BeginDrain, SInv, ServerType, Orderly, WaitedFor
<1>5. CASE StopWorkers
  <2>1. ~spent => \A r \in Requests : client[r] \in {"out", "gone"}
        BY <1>5 DEF StopWorkers, drained, Busy, SInv, ServerType, Orderly, Clients
  <2>   QED  BY <1>5, <2>1 DEF StopWorkers, SInv, ServerType, Orderly, WaitedFor
<1>6. CASE LeaveServe
  <2>1. ~spent => \A w \in Workers : client[w] = "gone"
        BY <1>6 DEF LeaveServe, workersDone, SInv, Orderly, Clients
  <2>   QED  BY <1>6, <2>1 DEF LeaveServe, SInv, ServerType, Orderly, WaitedFor
<1>7. CASE CloseReaders \/ ReadersClosed
      BY <1>7 DEF CloseReaders, ReadersClosed, SInv, ServerType, Orderly, WaitedFor
<1>   QED  BY <1>1, <1>2, <1>3, <1>4, <1>5, <1>6, <1>7 DEF Exit

\* Command lines change the file and the log, and nothing of the server.
LEMMA CommandsSInv ==
  ASSUME SInv, NEW p \in Procs,
         Step(p) \/ Kill(p) \/ \E c \in DOMAIN plan \ {serve} : Give(p, c)
  PROVE  SInv'
<1>1. CASE Step(p)
      BY <1>1, SInvStutters DEF Step, Open, InitLooks, Create, Reopen, Stamp, Apply, Look, Insert, GetsNoLock,
         BackupLooks, RemovePartial, BeginCopy, EndCopy, Check, Rename, Close, serverVars
<1>2. CASE Kill(p) \/ \E c \in DOMAIN plan \ {serve} : Give(p, c)
      BY <1>2, SInvStutters DEF Kill, Give, serverVars
<1>   QED  BY <1>1, <1>2

LEMMA NextSInv == SInv /\ [Next]_vars => SInv'
<1>   SUFFICES ASSUME SInv, [Next]_vars PROVE SInv'
      OBVIOUS
<1>1. CASE UNCHANGED vars
      BY <1>1, SInvStutters DEF vars, serverVars
<1>2. CASE StartServer
      BY <1>2 DEF StartServer, Serve, SInv, ServerType, Orderly, WaitedFor
<1>3. CASE ServerStep
      BY <1>3, ClientSInv, WayOutSInv DEF ServerStep, ServerNext
<1>4. CASE CloseDatabase
      BY <1>4 DEF CloseDatabase, CloseWriter, SInv, ServerType, Orderly, WaitedFor
<1>   QED  BY <1>1, <1>2, <1>3, <1>4, CommandsSInv DEF Next

\* Workers are told to stop when no request is left that could enqueue a job, and
\* the database is closed when every request was answered and every worker is
\* back, unless the drain's budget ran out or the listener failed (Server.Serve).
THEOREM ShutdownWaits == Spec => []NobodyIsCutOff
<1>1. Init => SInv
      BY InitSInv DEF Init
<1>2. SInv /\ [Next]_vars => SInv'
      BY NextSInv
<1>3. SInv => NobodyIsCutOff
  <2>   SUFFICES ASSUME SInv, ~spent, way # "failed"
                 PROVE  /\ told => Busy(Requests) = {}
                        /\ phase \in {"closing", "ended"} =>
                             \A c \in Clients : client[c] \in {"out", "gone"} /\ (c \in Workers => client[c] = "gone")
        BY DEF NobodyIsCutOff
  <2>1. phase \in {"stopping", "closing", "ended"} => \A r \in Requests : client[r] \in {"out", "gone"}
        BY DEF SInv, WaitedFor
  <2>2. told => Busy(Requests) = {}
        BY <2>1 DEF SInv, Orderly, ServerType, Busy, Inside
  <2>3. phase \in {"closing", "ended"} =>
          \A c \in Clients : client[c] \in {"out", "gone"} /\ (c \in Workers => client[c] = "gone")
        BY <2>1 DEF SInv, WaitedFor, Clients
  <2>   QED  BY <2>2, <2>3
<1>   QED  BY <1>1, <1>2, <1>3, PTL DEF Spec

--------------------------------------------------------------------------------
(* The programs of seed and bootstrap                                         *)

\* The kinds of rows that a seed makes sure of, and bootstrap.
SeedKind == {"role", "grant", "site", "channel", "type", "author", "document", "filing", "job"}
Name == STRING \cup {"admin", "story", "anyone", "sample", "noop"}
Row == (SeedKind \cup {"user", "assignment"}) \X Name

LEMMA RolesFacts ==
  /\ RolesToHave \in Seq(SeedKind \X Name)
  /\ \A i \in DOMAIN RolesToHave : RolesToHave[i][1] \in {"role", "grant"}
<1>1. Roles \in Seq(STRING) /\ Len(Roles) \in Nat /\ \A i \in 1..Len(Roles) : Roles[i] \in Name
      BY DeploymentAssumption DEF Name
<1>2. ASSUME NEW i \in 1..2 * Len(Roles)
      PROVE  <<IF i % 2 = 1 THEN "role" ELSE "grant", Roles[(i + 1) \div 2]>> \in {"role", "grant"} \X Name
  <2>1. (i + 1) \div 2 \in 1..Len(Roles)
        BY <1>1
  <2>   QED  BY <1>1, <2>1
<1>3. RolesToHave \in [1..2 * Len(Roles) -> {"role", "grant"} \X Name] /\ 2 * Len(Roles) \in Nat
      BY <1>1, <1>2 DEF RolesToHave
<1>4. \A row \in {"role", "grant"} \X Name : row \in SeedKind \X Name /\ row[1] \in {"role", "grant"}
      BY DEF SeedKind
<1>   QED  BY <1>3, <1>4, SeqDef

\* A seed's program makes the roles and the site, and then perhaps the sample,
\* whose filing follows its document.
LEMMA SeedFacts ==
  ASSUME NEW c \in Commands \ {serve}, c.does = "seed"
  PROVE  LET program == Program(c) IN
         /\ program \in Seq(Row) /\ Len(program) > 0
         /\ \A i \in DOMAIN program : program[i][1] \in SeedKind
         /\ \A i \in DOMAIN program : i + 1 \in DOMAIN program /\ program[i][1] = "document" =>
              program[i + 1][1] = "filing"
<1>   DEFINE SeedRow == SeedKind \X Name
             site    == SiteToHave(c.domain)
             sample  == IF c.demo THEN SampleToHave \o JobToHave ELSE <<>>
             before  == RolesToHave \o site
<1>1. Program(c) = before \o sample
      BY DEF Program
<1>2. c.domain \in STRING /\ c.demo \in BOOLEAN
      BY CommandsAssumption
<1>3. /\ site \in Seq(SeedRow) /\ Len(site) = 3
      /\ \A i \in 1..3 : site[i][1] \in {"site", "channel", "type"}
  <2>1. /\ <<"site", c.domain>> \in SeedRow /\ <<"channel", c.domain>> \in SeedRow
        /\ <<"type", "story">> \in SeedRow
        BY <1>2 DEF SeedKind, Name
  <2>   HIDE DEF SeedRow
  <2>   QED  BY <2>1 DEF SiteToHave
<1>4. RolesToHave \in Seq(SeedRow) /\ \A i \in DOMAIN RolesToHave : RolesToHave[i][1] \in {"role", "grant"}
      BY RolesFacts
<1>5. /\ before \in Seq(SeedRow) /\ Len(before) > 0 /\ Len(before) \in Nat
      /\ \A i \in 1..Len(before) : before[i][1] # "document"
  <2>   HIDE DEF SeedRow, site
  <2>1. /\ Len(RolesToHave) \in Nat /\ DOMAIN RolesToHave = 1..Len(RolesToHave)
        /\ before \in Seq(SeedRow) /\ Len(before) = Len(RolesToHave) + 3
        /\ \A i \in 1..Len(RolesToHave) : before[i] = RolesToHave[i]
        /\ \A i \in 1..3 : before[Len(RolesToHave) + i] = site[i]
    <3>1. /\ Len(RolesToHave) \in Nat /\ DOMAIN RolesToHave = 1..Len(RolesToHave)
          /\ RolesToHave \in Seq(SeedRow) /\ site \in Seq(SeedRow) /\ Len(site) = 3
          BY <1>3, <1>4
    <3>2. /\ before \in Seq(SeedRow) /\ Len(before) = Len(RolesToHave) + 3
          /\ \A i \in 1..Len(RolesToHave) + 3 :
               before[i] = IF i <= Len(RolesToHave) THEN RolesToHave[i] ELSE site[i - Len(RolesToHave)]
      <4>1. /\ RolesToHave \o site \in Seq(SeedRow)
            /\ Len(RolesToHave \o site) = Len(RolesToHave) + Len(site)
            /\ \A i \in 1..Len(RolesToHave) + Len(site) : (RolesToHave \o site)[i] =
                 IF i <= Len(RolesToHave) THEN RolesToHave[i] ELSE site[i - Len(RolesToHave)]
            BY <3>1, ConcatProperties, Zenon
      <4>   QED  BY <3>1, <4>1
    <3>   HIDE DEF before
    <3>3. \A i \in 1..3 : before[Len(RolesToHave) + i] = site[i]
      <4>   TAKE i \in 1..3
      <4>1. /\ Len(RolesToHave) + i \in 1..Len(RolesToHave) + 3 /\ ~(Len(RolesToHave) + i <= Len(RolesToHave))
            /\ (Len(RolesToHave) + i) - Len(RolesToHave) = i
            BY <3>1
      <4>   QED  BY <3>2, <4>1
    <3>   QED  BY <3>1, <3>2, <3>3
  <2>2. ASSUME NEW i \in 1..Len(before)
        PROVE  before[i][1] # "document"
    <3>1. CASE i \in 1..Len(RolesToHave)
          BY <1>4, <2>1, <3>1
    <3>2. CASE i \notin 1..Len(RolesToHave)
      <4>1. i - Len(RolesToHave) \in 1..3 /\ i = Len(RolesToHave) + (i - Len(RolesToHave))
            BY <2>1, <3>2
      <4>   QED  BY <1>3, <2>1, <4>1
    <3>   QED  BY <3>1, <3>2
  <2>   QED  BY <2>1, <2>2
<1>6. /\ sample \in Seq(SeedRow) /\ Len(sample) \in {0, 4}
      /\ Len(sample) = 4 => /\ sample[1][1] = "author" /\ sample[2][1] = "document"
                            /\ sample[3][1] = "filing" /\ sample[4][1] = "job"
  <2>1. /\ <<"author", "anyone">> \in SeedRow /\ <<"document", "sample">> \in SeedRow
        /\ <<"filing", "sample">> \in SeedRow /\ <<"job", "noop">> \in SeedRow
        BY DEF SeedKind, Name
  <2>   HIDE DEF SeedRow
  <2>2. SampleToHave \in Seq(SeedRow) /\ JobToHave \in Seq(SeedRow)
        BY <2>1 DEF SampleToHave, JobToHave
  <2>3. Len(SampleToHave) = 3 /\ Len(JobToHave) = 1
        BY DEF SampleToHave, JobToHave
  <2>4. /\ SampleToHave[1][1] = "author" /\ SampleToHave[2][1] = "document"
        /\ SampleToHave[3][1] = "filing" /\ JobToHave[1][1] = "job"
        BY DEF SampleToHave, JobToHave
  <2>   DEFINE both == SampleToHave \o JobToHave
  <2>5. /\ both \in Seq(SeedRow) /\ Len(both) = 4
        /\ \A i \in 1..4 : both[i] = IF i <= 3 THEN SampleToHave[i] ELSE JobToHave[i - 3]
    <3>1. /\ SampleToHave \o JobToHave \in Seq(SeedRow)
          /\ Len(SampleToHave \o JobToHave) = Len(SampleToHave) + Len(JobToHave)
          /\ \A i \in 1..Len(SampleToHave) + Len(JobToHave) : (SampleToHave \o JobToHave)[i] =
               IF i <= Len(SampleToHave) THEN SampleToHave[i] ELSE JobToHave[i - Len(SampleToHave)]
          BY <2>2, ConcatProperties, Zenon
    <3>   QED  BY <2>3, <3>1
  <2>6. CASE c.demo
    <3>1. sample = both
          BY <2>6
    <3>   HIDE DEF both, sample
    <3>   QED  BY <2>4, <2>5, <3>1
  <2>7. CASE ~c.demo
        BY <2>7
  <2>   QED  BY <2>6, <2>7
<1>   HIDE DEF before, sample, SeedRow
<1>7. /\ Program(c) \in Seq(SeedRow) /\ Len(Program(c)) = Len(before) + Len(sample)
      /\ DOMAIN Program(c) = 1..Len(Program(c)) /\ Len(sample) \in Nat
      /\ \A i \in 1..Len(before) : Program(c)[i] = before[i]
      /\ \A i \in 1..Len(sample) : Program(c)[Len(before) + i] = sample[i]
      BY <1>1, <1>5, <1>6
<1>8. ASSUME NEW i \in DOMAIN Program(c), i + 1 \in DOMAIN Program(c), Program(c)[i][1] = "document"
      PROVE  Program(c)[i + 1][1] = "filing"
  <2>1. i \notin 1..Len(before)
        BY <1>5, <1>7, <1>8
  <2>2. PICK k \in 1..Len(sample) : i = Len(before) + k
    <3>1. i - Len(before) \in 1..Len(sample) /\ i = Len(before) + (i - Len(before))
          BY <1>5, <1>7, <2>1
    <3>   QED  BY <3>1
  <2>3. Program(c)[i] = sample[k] /\ Len(sample) = 4 /\ k \in 1..4
    <3>1. Program(c)[i] = sample[k]
          BY <1>7, <2>2
    <3>2. Len(sample) # 0
          BY <2>2
    <3>   QED  BY <1>6, <3>1, <3>2
  <2>4. k = 2
        BY <1>6, <1>8, <2>3
  <2>5. i + 1 = Len(before) + 3
        BY <1>5, <2>2, <2>4
  <2>   QED  BY <1>6, <1>7, <2>3, <2>5
<1>9. \A i \in DOMAIN Program(c) : Program(c)[i] \in SeedRow
      BY <1>7
<1>10. \A i \in DOMAIN Program(c) : Program(c)[i] \in Row /\ Program(c)[i][1] \in SeedKind
  <2>1. \A row \in SeedRow : row \in Row /\ row[1] \in SeedKind
        BY DEF Row, SeedRow
  <2>   QED  BY <1>9, <2>1
<1>11. Program(c) \in Seq(Row)
      BY <1>7, <1>10, SeqDef
<1>   QED  BY <1>5, <1>7, <1>8, <1>10, <1>11

LEMMA BootstrapFacts ==
  ASSUME NEW c \in Commands \ {serve}, c.does = "bootstrap"
  PROVE  LET program == Program(c) IN
         /\ program \in Seq(Row) /\ Len(program) = 2
         /\ program[1] = <<"user", "admin">> /\ program[2] = <<"assignment", "admin">>
<1>1. Program(c) = <<<<"user", "admin">>, <<"assignment", "admin">>>>
      BY DEF Program, AdminToHave
<1>2. <<"user", "admin">> \in Row /\ <<"assignment", "admin">> \in Row
      BY DEF Row, Name
<1>   QED  BY <1>1, <1>2

LEMMA ProgramFacts ==
  ASSUME NEW c \in Commands \ {serve}, c.does \in {"seed", "bootstrap"}
  PROVE  LET program == Program(c) IN
         /\ program \in Seq(Row) /\ Len(program) \in Nat \ {0} /\ DOMAIN program = 1..Len(program)
         /\ \A i \in DOMAIN program : program[i] \in Range(program)
         /\ \A i \in DOMAIN program : program[i][1] # "author" => program[i] \in Things
<1>1. Program(c) \in Seq(Row) /\ Len(Program(c)) > 0
      BY SeedFacts, BootstrapFacts
<1>2. \A i \in DOMAIN Program(c) : Program(c)[i] \in Range(Program(c))
      BY DEF Range
<1>   QED  BY <1>1, <1>2, CommandsAssumption

--------------------------------------------------------------------------------
(* What every command keeps to, whatever runs beside it                       *)

CommandTypes ==
  /\ DOMAIN plan \subseteq Commands
  /\ file \in [there : BOOLEAN, stamped : BOOLEAN, version : Nat]
  /\ rows \in [Things -> Nat]
  /\ partial \in Seq(Copy) /\ Len(partial) <= 1 /\ named \in Seq(Copy)
  /\ DOMAIN proc = Procs
  /\ \A p \in Procs : /\ DOMAIN proc[p] = {"command", "at", "step"}
                      /\ proc[p].at # "idle" => Now(p) \in Commands \ {serve}

BackupPlaces == {"looking", "removing", "copy", "copying", "checking", "naming"}

\* Each command is at one of its own places.
Placed(p) ==
  /\ proc[p].at = "open" => proc[p].step = 1
  /\ proc[p].at \in {"create", "reopen", "verify"} => Now(p).does = "init"
  /\ proc[p].at \in {"stamp", "applying"} => Now(p).does \in {"init", "migrate"}
  /\ proc[p].at \in {"next", "insert"} =>
       Now(p).does \in {"seed", "bootstrap"} /\ proc[p].step \in DOMAIN Program(Now(p))
  /\ proc[p].at = "insert" => Wanted(p)[1] # "author"
  /\ proc[p].at \in BackupPlaces => Now(p).does = "backup"

\* The sample's author is looked for only, its filing is not made up for, and an
\* administrator's assignment waits for the role.
Have(t) == t[1] \notin {"author", "filing", "assignment"} => rows[t] > 0

\* What a command has done on its way.
SoFar(p) ==
  /\ proc[p].at \in {"applying", "verify"} => file.stamped
  /\ proc[p].at \in {"next", "insert"} => \A i \in 1..(proc[p].step - 1) : Have(Program(Now(p))[i])
  /\ proc[p].at \in {"succeeding", "done"} => Promised(Now(p))

CInv == CommandTypes /\ \A p \in Procs : Placed(p) /\ SoFar(p)

\* A step takes nothing away: no row, no mark in the file, no backup.
Grows ==
  /\ \A t \in Things : rows'[t] >= rows[t]
  /\ file.stamped => file'.stamped
  /\ file'.version >= file.version
  /\ named # <<>> => named' # <<>>

\* Have, after the step.
HaveNext(t) == t[1] \notin {"author", "filing", "assignment"} => rows'[t] > 0

\* The rows a program has are there to stay.
LEMMA HaveStays ==
  ASSUME CommandTypes, CommandTypes', Grows, NEW c \in Commands \ {serve}, c.does \in {"seed", "bootstrap"},
         NEW i \in DOMAIN Program(c), Have(Program(c)[i])
  PROVE  HaveNext(Program(c)[i])
<1>   DEFINE t == Program(c)[i]
<1>1. t[1] # "author" => t \in Things
      BY ProgramFacts
<1>   HIDE DEF t
<1>2. HaveNext(t)
      BY <1>1 DEF Have, HaveNext, Grows, CommandTypes, t
<1>   QED  BY <1>2 DEF t

\* So what a command has promised it has promised for good.
LEMMA PromiseStays ==
  ASSUME CommandTypes, CommandTypes', Grows, NEW c \in Commands \ {serve}, Promised(c)
  PROVE  Promised(c)'
<1>1. CASE c.does = "init"
      BY <1>1 DEF Promised, Grows
<1>2. CASE c.does = "migrate"
  <2>1. c.to \in Nat /\ file.version \in Nat /\ file'.version \in Nat
        BY <1>2, CommandsAssumption DEF CommandTypes
  <2>   QED  BY <1>2, <2>1 DEF Promised, Grows
<1>3. CASE c.does = "seed"
  <2>   SUFFICES ASSUME NEW t \in Range(Program(c)), t[1] \notin {"author", "filing"}
                 PROVE  rows'[t] > 0
        BY <1>3 DEF Promised
  <2>1. rows[t] > 0 /\ t \in Things
        BY <1>3, CommandsAssumption DEF Promised
  <2>   QED  BY <2>1 DEF Grows, CommandTypes
<1>4. CASE c.does = "bootstrap"
  <2>1. <<"user", "admin">> \in Things
    <3>1. Program(c)[1] = <<"user", "admin">> /\ 1 \in DOMAIN Program(c)
          BY <1>4, BootstrapFacts
    <3>   QED  BY <1>4, <3>1, ProgramFacts
  <2>   QED  BY <1>4, <2>1 DEF Promised, Grows, CommandTypes
<1>5. CASE c.does = "backup"
      BY <1>5 DEF Promised, Grows
<1>   QED  BY <1>1, <1>2, <1>3, <1>4, <1>5, CommandsAssumption

\* A step of one command leaves the others where they are: what is to be shown of
\* it is its own.
LEMMA OneCommandMoves ==
  ASSUME CInv, NEW p \in Procs, \A q \in Procs \ {p} : proc'[q] = proc[q],
         CommandTypes', Grows, Placed(p)', SoFar(p)'
  PROVE  CInv'
<1>   SUFFICES ASSUME NEW q \in Procs, q # p PROVE Placed(q)' /\ SoFar(q)'
      BY DEF CInv
<1>1. proc'[q] = proc[q] /\ Placed(q) /\ SoFar(q) /\ CommandTypes
      BY DEF CInv
<1>2. Placed(q)'
      BY <1>1 DEF Placed, Now, Wanted
<1>3. CASE proc[q].at \in {"applying", "verify"}
      BY <1>1, <1>2, <1>3 DEF SoFar, Grows
<1>4. CASE proc[q].at \in {"next", "insert"}
  <2>1. PICK c \in Commands \ {serve} : c = Now(q) /\ c = Now(q)' /\ c.does \in {"seed", "bootstrap"}
        BY <1>1, <1>4 DEF CommandTypes, Placed, Now
  <2>2. ASSUME NEW i \in 1..(proc[q].step - 1) PROVE HaveNext(Program(c)[i])
    <3>1. i \in DOMAIN Program(c) /\ Have(Program(c)[i])
          BY <1>1, <1>4, <2>1, ProgramFacts DEF Placed, SoFar
    <3>   QED  BY <1>1, <2>1, <3>1, HaveStays
  <2>   QED  BY <1>1, <1>2, <1>4, <2>1, <2>2 DEF SoFar, Have, HaveNext
<1>5. CASE proc[q].at \in {"succeeding", "done"}
  <2>1. PICK c \in Commands \ {serve} : c = Now(q) /\ c = Now(q)' /\ Promised(c)
        BY <1>1, <1>5 DEF CommandTypes, SoFar, Now
  <2>2. Promised(c)'
        BY <1>1, <2>1, PromiseStays
  <2>   QED  BY <1>1, <1>2, <1>5, <2>1, <2>2 DEF SoFar, Have, HaveNext
<1>   QED  BY <1>1, <1>2, <1>3, <1>4, <1>5 DEF SoFar, Have, HaveNext

\* A command goes to a place of its program, with the same command.
Moved(p, at, step) ==
  /\ DOMAIN proc' = Procs /\ \A q \in Procs : DOMAIN proc'[q] = {"command", "at", "step"}
  /\ \A q \in Procs \ {p} : proc'[q] = proc[q]
  /\ Now(p)' = Now(p) /\ proc'[p].at = at /\ proc'[p].step = step

LEMMA GoToMoves ==
  ASSUME CommandTypes, NEW p \in Procs, NEW at, GoTo(p, at)
  PROVE  Moved(p, at, proc[p].step)
BY DEF CommandTypes, GoTo, Moved, Now

LEMMA PastMoves ==
  ASSUME CommandTypes, NEW p \in Procs, NEW n \in {1, 2}, Past(p, n)
  PROVE  IF proc[p].step + n > Len(Program(Now(p)))
         THEN Moved(p, "succeeding", proc[p].step) ELSE Moved(p, "next", proc[p].step + n)
<1>1. CASE proc[p].step + n > Len(Program(Now(p)))
  <2>1. proc' = [proc EXCEPT ![p].at = "succeeding"]
        BY <1>1 DEF Past
  <2>2. Moved(p, "succeeding", proc[p].step)
        BY <2>1 DEF CommandTypes, Moved, Now
  <2>   QED  BY <1>1, <2>2
<1>2. CASE ~(proc[p].step + n > Len(Program(Now(p))))
      BY <1>2 DEF CommandTypes, Past, Moved, Now
<1>   QED  BY <1>1, <1>2

LEMMA TypesStay ==
  ASSUME CommandTypes, NEW p \in Procs, NEW at, NEW step, Moved(p, at, step), proc[p].at # "idle",
         plan' = plan, file' \in [there : BOOLEAN, stamped : BOOLEAN, version : Nat], rows' \in [Things -> Nat],
         partial' \in Seq(Copy), Len(partial') <= 1, named' \in Seq(Copy)
  PROVE  CommandTypes'
BY DEF CommandTypes, Moved, Now

\* A step that changes no data, to a place where nothing new is claimed.
LEMMA MoveKeepsCInv ==
  ASSUME CInv, NEW p \in Procs, NEW at, Moved(p, at, proc[p].step), proc[p].at # "idle",
         UNCHANGED <<file, rows, plan, partial, named>>, Placed(p)', SoFar(p)'
  PROVE  CInv'
<1>1. CommandTypes'
      BY TypesStay DEF CInv, CommandTypes
<1>2. Grows
      BY DEF Grows, CInv, CommandTypes
<1>   QED  BY <1>1, <1>2, OneCommandMoves DEF Moved

\* Where a command ends up that has failed or was killed nothing is claimed.
LEMMA FailureClaimsNothing ==
  ASSUME NEW p \in Procs, NEW at \in {"failing", "failed", "killed"}, NEW step, Moved(p, at, step)
  PROVE  Placed(p)' /\ SoFar(p)'
<1>1. Placed(p)'
      BY DEF Moved, Placed, BackupPlaces
<1>2. SoFar(p)'
      BY DEF Moved, SoFar, Have, HaveNext
<1>   QED  BY <1>1, <1>2

LEMMA OpenCInv ==
  ASSUME CInv, NEW p \in Procs, Open(p)
  PROVE  CInv'
<1>1. /\ Now(p) \in Commands \ {serve} /\ Now(p).does \in {"migrate", "seed", "bootstrap", "backup"}
      /\ proc[p].at = "open" /\ proc[p].step = 1
      BY CommandsAssumption DEF CInv, CommandTypes, Open, Placed
<1>2. PICK at \in {"failed", FirstStep(Now(p).does)} : Moved(p, at, proc[p].step)
      BY GoToMoves DEF Open, CInv
<1>3. CASE at = "failed"
      BY <1>1, <1>2, <1>3, FailureClaimsNothing, MoveKeepsCInv DEF Open
<1>4. CASE at = FirstStep(Now(p).does)
  <2>1. CASE Now(p).does \in {"migrate", "backup"}
    <3>1. \/ at = "stamp" /\ Now(p).does = "migrate"
          \/ at = "looking" /\ Now(p).does = "backup"
          BY <1>4, <2>1 DEF FirstStep
    <3>2. Placed(p)' /\ SoFar(p)'
      <4>1. Placed(p)'
            BY <1>2, <3>1 DEF Moved, Placed, BackupPlaces, Now
      <4>2. SoFar(p)'
            BY <1>2, <3>1 DEF Moved, SoFar, Have, HaveNext
      <4>   QED  BY <4>1, <4>2
    <3>   QED  BY <1>1, <1>2, <3>2, MoveKeepsCInv DEF Open
  <2>2. CASE Now(p).does \in {"seed", "bootstrap"}
    <3>1. at = "next"
          BY <1>4, <2>2 DEF FirstStep
    <3>2. 1 \in DOMAIN Program(Now(p))
          BY <1>1, <2>2, ProgramFacts
    <3>3. Placed(p)'
          BY <1>1, <1>2, <2>2, <3>1, <3>2 DEF Moved, Placed, BackupPlaces, Now
    <3>4. SoFar(p)'
      <4>1. 1..(proc'[p].step - 1) = {}
            BY <1>1, <1>2 DEF Moved
      <4>   QED  BY <1>2, <3>1, <4>1 DEF Moved, SoFar, Have, HaveNext
    <3>   QED  BY <1>1, <1>2, <3>3, <3>4, MoveKeepsCInv DEF Open
  <2>   QED  BY <1>1, <2>1, <2>2
<1>   QED  BY <1>2, <1>3, <1>4

LEMMA InitCommandCInv ==
  ASSUME CInv, NEW p \in Procs, InitLooks(p) \/ Create(p) \/ Reopen(p)
  PROVE  CInv'
<1>1. proc[p].at # "idle" /\ Placed(p) /\ SoFar(p) /\ CommandTypes
      BY DEF CInv, InitLooks, Create, Reopen
<1>2. CASE InitLooks(p)
  <2>1. PICK at \in {"reopen", "create"} : Moved(p, at, proc[p].step)
        BY <1>1, <1>2, GoToMoves DEF InitLooks
  <2>2. Placed(p)'
        BY <1>2, <2>1 DEF InitLooks, Moved, Placed, BackupPlaces, Now
  <2>3. SoFar(p)'
        BY <2>1 DEF Moved, SoFar, Have, HaveNext
  <2>   QED  BY <1>1, <1>2, <2>1, <2>2, <2>3, MoveKeepsCInv DEF InitLooks
<1>3. CASE Create(p)
  <2>1. Moved(p, "stamp", proc[p].step) /\ Now(p).does = "init"
        BY <1>1, <1>3, GoToMoves DEF Create, Placed
  <2>2. Placed(p)'
        BY <2>1 DEF Moved, Placed, BackupPlaces, Now
  <2>3. SoFar(p)'
        BY <2>1 DEF Moved, SoFar, Have, HaveNext
  <2>4. CommandTypes' /\ Grows
    <3>1. file' \in [there : BOOLEAN, stamped : BOOLEAN, version : Nat]
          /\ file'.stamped = file.stamped /\ file'.version = file.version
          BY <1>1, <1>3 DEF Create, CommandTypes
    <3>2. Grows
          BY <1>1, <1>3, <3>1 DEF Create, CommandTypes, Grows
    <3>3. CommandTypes'
          BY <1>1, <1>3, <2>1, <3>1, TypesStay DEF Create, CommandTypes
    <3>   QED  BY <3>2, <3>3
  <2>   QED  BY <2>1, <2>2, <2>3, <2>4, OneCommandMoves DEF Moved
<1>4. CASE Reopen(p)
  <2>1. Now(p).does = "init"
    <3>1. proc[p].at \in {"create", "reopen", "verify"}
          BY <1>4 DEF Reopen
    <3>   QED  BY <1>1, <3>1 DEF Placed
  <2>2. CASE Moved(p, "failed", proc[p].step)
        BY <1>1, <1>4, <2>2, FailureClaimsNothing, MoveKeepsCInv DEF Reopen
  <2>3. CASE Moved(p, "succeeding", proc[p].step) /\ file.stamped
    <3>1. Placed(p)'
          BY <2>3 DEF Moved, Placed, BackupPlaces
    <3>2. Promised(Now(p))'
          BY <1>4, <2>1, <2>3 DEF Reopen, Moved, Promised, Now
    <3>3. SoFar(p)'
          BY <2>3, <3>2 DEF Moved, SoFar, Have, HaveNext
    <3>   QED  BY <1>1, <1>4, <2>3, <3>1, <3>3, MoveKeepsCInv DEF Reopen
  <2>   QED  BY <1>1, <1>4, <2>2, <2>3, GoToMoves DEF Reopen, Verified
<1>   QED  BY <1>2, <1>3, <1>4

LEMMA MigrationCInv ==
  ASSUME CInv, NEW p \in Procs, Stamp(p) \/ Apply(p)
  PROVE  CInv'
<1>1. /\ proc[p].at # "idle" /\ SoFar(p) /\ CommandTypes
      /\ Now(p) \in Commands \ {serve} /\ Now(p).does \in {"init", "migrate"}
  <2>1. proc[p].at \in {"stamp", "applying"}
        BY DEF Stamp, Apply
  <2>   QED  BY <2>1 DEF CInv, CommandTypes, Placed
<1>2. CASE Stamp(p)
  <2>1. Moved(p, "applying", proc[p].step)
        BY <1>1, <1>2, GoToMoves DEF Stamp
  <2>2. /\ file' \in [there : BOOLEAN, stamped : BOOLEAN, version : Nat]
        /\ file'.stamped /\ file'.version = file.version
        BY <1>1, <1>2 DEF Stamp, CommandTypes
  <2>3. Placed(p)'
        BY <1>1, <2>1 DEF Moved, Placed, BackupPlaces, Now
  <2>4. SoFar(p)'
        BY <2>1, <2>2 DEF Moved, SoFar, Have, HaveNext
  <2>5. CommandTypes'
        BY <1>1, <1>2, <2>1, <2>2, TypesStay DEF Stamp, CommandTypes
  <2>6. Grows
        BY <1>1, <1>2, <2>2 DEF Stamp, CommandTypes, Grows
  <2>   QED  BY <2>1, <2>3, <2>4, <2>5, <2>6, OneCommandMoves DEF Moved
<1>3. CASE Apply(p) /\ file.version < Now(p).to
  <2>1. /\ file' \in [there : BOOLEAN, stamped : BOOLEAN, version : Nat]
        /\ file'.stamped = file.stamped /\ file'.version = file.version + 1 /\ proc' = proc
        BY <1>1, <1>3 DEF Apply, CommandTypes
  <2>2. CommandTypes'
        BY <1>1, <1>3, <2>1 DEF Apply, CommandTypes, Now
  <2>3. Grows
        BY <1>1, <1>3, <2>1 DEF Apply, CommandTypes, Grows
  <2>4. Placed(p)'
        BY <1>1, <2>1 DEF CInv, Placed, Now, Wanted
  <2>5. SoFar(p)'
        BY <1>1, <1>3, <2>1 DEF Apply, SoFar
  <2>   QED  BY <2>1, <2>2, <2>3, <2>4, <2>5, OneCommandMoves
<1>4. CASE Apply(p) /\ ~(file.version < Now(p).to)
  <2>1. /\ Moved(p, IF Now(p).does = "init" THEN "verify" ELSE "succeeding", proc[p].step)
        /\ UNCHANGED <<file, rows, plan, partial, named>> /\ file.stamped
        BY <1>1, <1>4, GoToMoves DEF Apply, SoFar
  <2>2. CASE Now(p).does = "init"
    <3>1. Placed(p)'
          BY <2>1, <2>2 DEF Moved, Placed, BackupPlaces, Now
    <3>2. SoFar(p)'
          BY <2>1, <2>2 DEF Moved, SoFar, Have, HaveNext
    <3>   QED  BY <1>1, <2>1, <2>2, <3>1, <3>2, MoveKeepsCInv
  <2>3. CASE Now(p).does = "migrate"
    <3>1. Placed(p)'
          BY <2>1, <2>3 DEF Moved, Placed, BackupPlaces, Now
    <3>2. file.version >= Now(p).to
      <4>1. Now(p).to \in Nat /\ file.version \in Nat
            BY <1>1, <2>3, CommandsAssumption DEF CommandTypes
      <4>   QED  BY <1>4, <4>1
    <3>3. Promised(Now(p))'
          BY <2>1, <2>3, <3>2 DEF Moved, Promised, Now
    <3>4. SoFar(p)'
          BY <2>1, <2>3, <3>3 DEF Moved, SoFar, Have, HaveNext
    <3>   QED  BY <1>1, <2>1, <2>3, <3>1, <3>4, MoveKeepsCInv
  <2>   QED  BY <1>1, <2>2, <2>3
<1>   QED  BY <1>2, <1>3, <1>4

\* A command begins at its first step, and ends with what it has promised or
\* without.
LEMMA GiveCInv ==
  ASSUME CInv, NEW p \in Procs, NEW c \in DOMAIN plan \ {serve}, Give(p, c)
  PROVE  CInv'
<1>1. /\ DOMAIN proc' = Procs /\ proc'[p] = [command |-> c, at |-> "open", step |-> 1]
      /\ \A q \in Procs \ {p} : proc'[q] = proc[q]
      /\ DOMAIN plan' = DOMAIN plan /\ UNCHANGED <<file, rows, partial, named>>
      BY DEF Give, CInv, CommandTypes
<1>2. CommandTypes'
  <2>1. c \in Commands \ {serve}
        BY DEF CInv, CommandTypes
  <2>2. ASSUME NEW q \in Procs
        PROVE  /\ DOMAIN proc'[q] = {"command", "at", "step"}
               /\ proc'[q].at # "idle" => proc'[q].command \in Commands \ {serve}
        BY <1>1, <2>1 DEF CInv, CommandTypes, Now
  <2>   QED  BY <1>1, <2>2 DEF CInv, CommandTypes, Now
<1>3. Grows
      BY <1>1 DEF Grows, CInv, CommandTypes
<1>4. Placed(p)'
      BY <1>1 DEF Placed, BackupPlaces
<1>5. SoFar(p)'
      BY <1>1 DEF SoFar, Have, HaveNext
<1>   QED  BY <1>1, <1>2, <1>3, <1>4, <1>5, OneCommandMoves

LEMMA EndCInv ==
  ASSUME CInv, NEW p \in Procs, Close(p) \/ Kill(p) \/ GetsNoLock(p)
  PROVE  CInv'
<1>1. /\ proc[p].at # "idle" /\ SoFar(p) /\ CommandTypes /\ UNCHANGED <<file, rows, plan, partial, named>>
      BY DEF CInv, Close, Kill, GetsNoLock, Running, Ended
<1>2. CASE \E at \in {"failing", "failed", "killed"} : Moved(p, at, proc[p].step)
      BY <1>1, <1>2, FailureClaimsNothing, MoveKeepsCInv
<1>3. CASE Moved(p, "done", proc[p].step) /\ proc[p].at = "succeeding"
  <2>1. PICK c \in Commands \ {serve} : c = Now(p) /\ c = Now(p)' /\ Promised(c)
        BY <1>1, <1>3 DEF CommandTypes, SoFar, Moved
  <2>2. Promised(c)'
        BY <1>1, <2>1 DEF Promised
  <2>3. Placed(p)'
        BY <1>3 DEF Moved, Placed, BackupPlaces
  <2>4. SoFar(p)'
        BY <1>3, <2>1, <2>2 DEF Moved, SoFar, Have, HaveNext
  <2>   QED  BY <1>1, <1>3, <2>3, <2>4, MoveKeepsCInv
<1>   QED  BY <1>1, <1>2, <1>3, GoToMoves DEF Close, Kill, GetsNoLock

\* The end of a copy makes files whole and none to be one.
LEMMA WholeFiles ==
  ASSUME NEW p \in Procs, NEW f \in Seq(Copy)
  PROVE  /\ Whole(f, p) \in Seq(Copy) /\ Len(Whole(f, p)) = Len(f) /\ DOMAIN Whole(f, p) = DOMAIN f
         /\ \A i \in DOMAIN f : f[i].whole => Whole(f, p)[i].whole
         /\ f # <<>> => Whole(f, p) # <<>>
<1>1. Len(f) \in Nat /\ DOMAIN f = 1..Len(f) /\ \A i \in 1..Len(f) : f[i] \in Copy
      OBVIOUS
<1>2. ASSUME NEW i \in 1..Len(f)
      PROVE  Whole(f, p)[i] \in Copy /\ (f[i].whole => Whole(f, p)[i].whole)
  <2>1. f[i] \in Copy /\ Whole(f, p)[i] = [f[i] EXCEPT !.whole = @ \/ f[i].by = p]
        BY <1>1 DEF Whole
  <2>2. (f[i].whole \/ f[i].by = p) \in BOOLEAN
        OBVIOUS
  <2>3. CASE f[i].whole \/ f[i].by = p
        BY <2>1, <2>3 DEF Copy
  <2>4. CASE ~(f[i].whole \/ f[i].by = p)
        BY <2>1, <2>4 DEF Copy
  <2>   QED  BY <2>3, <2>4
<1>3. Whole(f, p) \in [1..Len(f) -> Copy] /\ DOMAIN Whole(f, p) = 1..Len(f)
      BY <1>1, <1>2 DEF Whole
<1>4. Whole(f, p) \in Seq(Copy) /\ Len(Whole(f, p)) = Len(f)
      BY <1>1, <1>3, SeqDef
<1>5. f # <<>> => Whole(f, p) # <<>>
      BY <1>4
<1>   QED  BY <1>1, <1>2, <1>3, <1>4, <1>5

\* A step of a backup, to a place of a backup or to its end.
LEMMA BackupMoves ==
  ASSUME CInv, NEW p \in Procs, NEW at \in BackupPlaces \cup {"succeeding", "failing"},
         Moved(p, at, proc[p].step), proc[p].at \in BackupPlaces, UNCHANGED <<file, rows, plan>>,
         partial' \in Seq(Copy), Len(partial') <= 1, named' \in Seq(Copy),
         named # <<>> => named' # <<>>, at = "succeeding" => named' # <<>>
  PROVE  CInv'
<1>1. CommandTypes /\ proc[p].at # "idle" /\ Now(p).does = "backup"
      BY DEF CInv, Placed, BackupPlaces
<1>2. CommandTypes'
      BY <1>1, TypesStay DEF CommandTypes
<1>3. Grows
      BY <1>1 DEF Grows, CommandTypes
<1>4. Placed(p)'
      BY <1>1 DEF Moved, Placed, BackupPlaces, Now
<1>5. at = "succeeding" => Promised(Now(p))'
      BY <1>1 DEF Moved, Promised, Now
<1>6. SoFar(p)'
      BY <1>5 DEF Moved, SoFar, BackupPlaces
<1>   QED  BY <1>2, <1>3, <1>4, <1>6, OneCommandMoves DEF Moved

LEMMA BackupCInv ==
  ASSUME CInv, NEW p \in Procs,
         BackupLooks(p) \/ RemovePartial(p) \/ BeginCopy(p) \/ EndCopy(p) \/ Check(p) \/ Rename(p)
  PROVE  CInv'
<1>1. CommandTypes
      BY DEF CInv
<1>2. /\ proc[p].at \in BackupPlaces /\ UNCHANGED <<file, rows, plan>>
      /\ <<>> \in Seq(Copy) /\ Len(<<>>) = 0
      BY DEF BackupLooks, RemovePartial, BeginCopy, EndCopy, Check, Rename, BackupPlaces
<1>3. \A at \in {"removing", "copy", "copying", "checking", "naming", "succeeding", "failing"} :
        at \in BackupPlaces \cup {"succeeding", "failing"}
      BY DEF BackupPlaces
<1>4. partial \in Seq(Copy) /\ Len(partial) <= 1 /\ named \in Seq(Copy)
      BY <1>1 DEF CommandTypes
<1>5. CASE Fails(p) /\ named' = named
  <2>1. Moved(p, "failing", proc[p].step) /\ partial' = <<>>
        BY <1>1, <1>5, GoToMoves DEF Fails
  <2>2. /\ partial' \in Seq(Copy) /\ Len(partial') <= 1 /\ named' \in Seq(Copy)
        /\ named # <<>> => named' # <<>>
        BY <1>2, <1>4, <1>5, <2>1
  <2>   QED  BY <1>2, <1>3, <2>1, <2>2, BackupMoves
<1>6. CASE BackupLooks(p)
  <2>1. PICK at \in {"failing", "removing"} : Moved(p, at, proc[p].step)
        BY <1>1, <1>6, GoToMoves DEF BackupLooks
  <2>   QED  BY <1>2, <1>3, <1>4, <1>6, <2>1, BackupMoves DEF BackupLooks
<1>7. CASE RemovePartial(p)
  <2>1. Moved(p, "copy", proc[p].step)
        BY <1>1, <1>7, GoToMoves DEF RemovePartial
  <2>   QED  BY <1>2, <1>3, <1>4, <1>7, <2>1, BackupMoves DEF RemovePartial
<1>8. CASE BeginCopy(p) /\ ~(Fails(p) /\ named' = named)
  <2>1. Moved(p, "copying", proc[p].step) /\ partial' = <<[by |-> p, whole |-> FALSE]>> /\ named' = named
        BY <1>1, <1>8, GoToMoves DEF BeginCopy
  <2>2. partial' \in Seq(Copy) /\ Len(partial') <= 1
        BY <2>1 DEF Copy
  <2>3. named' \in Seq(Copy) /\ (named # <<>> => named' # <<>>)
        BY <1>4, <2>1
  <2>   QED  BY <1>2, <1>3, <2>1, <2>2, <2>3, BackupMoves
<1>9. CASE EndCopy(p)
  <2>1. Moved(p, "checking", proc[p].step) /\ partial' = Whole(partial, p) /\ named' = Whole(named, p)
        BY <1>1, <1>9, GoToMoves DEF EndCopy
  <2>   QED  BY <1>2, <1>3, <1>4, <2>1, WholeFiles, BackupMoves
<1>10. CASE Check(p) /\ ~(Fails(p) /\ named' = named)
  <2>1. Moved(p, "naming", proc[p].step) /\ partial' = partial /\ named' = named
        BY <1>1, <1>10, GoToMoves DEF Check
  <2>   QED  BY <1>2, <1>3, <1>4, <2>1, BackupMoves
<1>11. CASE Rename(p) /\ ~(Fails(p) /\ named' = named)
  <2>1. Moved(p, "succeeding", proc[p].step) /\ partial # <<>> /\ partial' = <<>> /\ named' = partial
        BY <1>1, <1>11, GoToMoves DEF Rename
  <2>2. partial' \in Seq(Copy) /\ Len(partial') <= 1 /\ named' \in Seq(Copy) /\ named' # <<>>
        BY <1>2, <1>4, <2>1
  <2>   QED  BY <1>2, <1>3, <2>1, <2>2, BackupMoves
<1>   QED  BY <1>5, <1>6, <1>7, <1>8, <1>9, <1>10, <1>11

\* Seed and bootstrap go past rows they have, and so have all of them at the end.
LEMMA PastCInv ==
  ASSUME CInv, NEW p \in Procs, NEW n \in {1, 2}, proc[p].at \in {"next", "insert"}, Past(p, n),
         NEW c \in Commands \ {serve}, c = Now(p),
         UNCHANGED <<file, plan, partial, named>>,
         rows' \in [Things -> Nat], \A t \in Things : rows'[t] >= rows[t],
         \A i \in DOMAIN Program(c) :
           i >= proc[p].step /\ i < proc[p].step + n => HaveNext(Program(c)[i])
  PROVE  CInv'
<1>1. CommandTypes /\ proc[p].at # "idle" /\ SoFar(p)
      BY DEF CInv
<1>2. c.does \in {"seed", "bootstrap"} /\ proc[p].step \in DOMAIN Program(c)
      BY <1>1 DEF CInv, CommandTypes, Placed
<1>3. /\ DOMAIN Program(c) = 1..Len(Program(c)) /\ Len(Program(c)) \in Nat
      /\ proc[p].step \in 1..Len(Program(c))
      BY <1>2, ProgramFacts
<1>4. \/ Moved(p, "succeeding", proc[p].step) /\ proc[p].step + n > Len(Program(c))
      \/ Moved(p, "next", proc[p].step + n) /\ ~(proc[p].step + n > Len(Program(c)))
      BY <1>1, <1>2, PastMoves
<1>5. Now(p)' = c
      BY <1>2, <1>4 DEF Moved
<1>6. CommandTypes'
  <2>1. PICK at, step : Moved(p, at, step)
        BY <1>4
  <2>   QED  BY <1>1, <2>1, TypesStay DEF CommandTypes
<1>7. Grows
      BY <1>1 DEF Grows, CommandTypes
<1>8. \A i \in DOMAIN Program(c) : i < proc[p].step + n => HaveNext(Program(c)[i])
  <2>   SUFFICES ASSUME NEW i \in DOMAIN Program(c), i < proc[p].step PROVE HaveNext(Program(c)[i])
        BY <1>2, <1>3 DEF Have, HaveNext
  <2>1. Have(Program(c)[i])
    <3>1. i \in 1..(proc[p].step - 1)
          BY <1>3
    <3>   QED  BY <1>1, <1>2, <3>1 DEF SoFar, Have, HaveNext
  <2>   QED  BY <1>1, <1>2, <1>6, <1>7, <2>1, HaveStays
<1>9. CASE Moved(p, "succeeding", proc[p].step) /\ proc[p].step + n > Len(Program(c))
  <2>1. \A i \in DOMAIN Program(c) : HaveNext(Program(c)[i])
        BY <1>3, <1>8, <1>9 DEF Have, HaveNext
  <2>2. Promised(c)'
    <3>1. CASE c.does = "seed"
      <4>1. ASSUME NEW t \in Range(Program(c)), t[1] \notin {"author", "filing"}
            PROVE  rows'[t] > 0
        <5>1. PICK i \in DOMAIN Program(c) : t = Program(c)[i]
              BY DEF Range
        <5>2. t[1] # "assignment"
              BY <3>1, <5>1, SeedFacts DEF SeedKind
        <5>   QED  BY <2>1, <4>1, <5>1, <5>2 DEF HaveNext
      <4>   QED  BY <3>1, <4>1 DEF Promised
    <3>2. CASE c.does = "bootstrap"
      <4>1. 1 \in DOMAIN Program(c) /\ Program(c)[1] = <<"user", "admin">>
            BY <1>2, <3>2, BootstrapFacts
      <4>2. HaveNext(<<"user", "admin">>)
            BY <2>1, <4>1
      <4>   QED  BY <3>2, <4>2 DEF Promised, HaveNext
    <3>   QED  BY <1>2, <3>1, <3>2
  <2>5. Placed(p)'
        BY <1>9 DEF Moved, Placed, BackupPlaces
  <2>6. SoFar(p)'
        BY <1>5, <1>9, <2>2 DEF Moved, SoFar
  <2>   QED  BY <1>6, <1>7, <1>9, <2>5, <2>6, OneCommandMoves DEF Moved
<1>10. CASE Moved(p, "next", proc[p].step + n) /\ ~(proc[p].step + n > Len(Program(c)))
  <2>1. proc[p].step + n \in DOMAIN Program(c)
        BY <1>3, <1>10
  <2>2. Placed(p)'
        BY <1>2, <1>5, <1>10, <2>1 DEF Moved, Placed, BackupPlaces
  <2>3. \A i \in 1..(proc'[p].step - 1) : HaveNext(Program(c)[i])
    <3>   TAKE i \in 1..(proc'[p].step - 1)
    <3>1. i \in DOMAIN Program(c) /\ i < proc[p].step + n
      <4>1. proc'[p].step = proc[p].step + n
            BY <1>10 DEF Moved
      <4>   QED  BY <1>3, <1>10, <4>1
    <3>   QED  BY <1>8, <3>1
  <2>4. SoFar(p)'
    <3>1. proc'[p].at = "next"
          BY <1>10 DEF Moved
    <3>   QED  BY <1>5, <2>3, <3>1 DEF SoFar, Have, HaveNext
  <2>   QED  BY <1>6, <1>7, <1>10, <2>2, <2>4, OneCommandMoves DEF Moved
<1>   QED  BY <1>4, <1>9, <1>10

LEMMA LookCInv ==
  ASSUME CInv, NEW p \in Procs, Look(p)
  PROVE  CInv'
<1>1. /\ proc[p].at = "next" /\ CommandTypes /\ UNCHANGED <<file, rows, plan, partial, named>>
      /\ rows' \in [Things -> Nat] /\ \A row \in Things : rows'[row] >= rows[row]
      BY DEF CInv, CommandTypes, Look
<1>2. PICK c \in Commands \ {serve} : /\ c = Now(p) /\ c.does \in {"seed", "bootstrap"}
                                      /\ proc[p].step \in DOMAIN Program(c)
      BY <1>1 DEF CInv, CommandTypes, Placed, Wanted
<1>3. /\ DOMAIN Program(c) = 1..Len(Program(c)) /\ Len(Program(c)) \in Nat
      /\ proc[p].step \in 1..Len(Program(c))
      BY <1>2, ProgramFacts
<1>t. PICK t : t = Program(c)[proc[p].step] /\ t = Wanted(p)
      BY <1>2 DEF Wanted
<1>4. CASE GoTo(p, "failing")
      BY <1>1, <1>4, GoToMoves, FailureClaimsNothing, MoveKeepsCInv
<1>5. CASE GoTo(p, "insert") /\ t[1] # "author"
  <2>1. Moved(p, "insert", proc[p].step)
        BY <1>1, <1>5, GoToMoves
  <2>2. Placed(p)'
        BY <1>2, <1>t, <1>5, <2>1 DEF Moved, Placed, BackupPlaces, Wanted, Now
  <2>3. \A i \in 1..(proc[p].step - 1) : HaveNext(Program(c)[i])
        BY <1>1, <1>2 DEF CInv, SoFar, Have, HaveNext
  <2>4. SoFar(p)'
        BY <1>2, <2>1, <2>3 DEF Moved, SoFar, Have, HaveNext
  <2>   QED  BY <1>1, <2>1, <2>2, <2>4, MoveKeepsCInv
<1>6. CASE Past(p, 1) /\ Have(t)
  <2>1. \A i \in DOMAIN Program(c) :
          i >= proc[p].step /\ i < proc[p].step + 1 => HaveNext(Program(c)[i])
    <3>1. HaveNext(t)
          BY <1>1, <1>6 DEF Have, HaveNext
    <3>2. \A i \in 1..Len(Program(c)) : i >= proc[p].step /\ i < proc[p].step + 1 => i = proc[p].step
          BY <1>3
    <3>   QED  BY <1>3, <1>t, <3>1, <3>2
  <2>   QED  BY <1>1, <1>2, <1>6, <2>1, PastCInv
<1>7. CASE Past(p, 2) /\ t[1] = "document" /\ Have(t)
  <2>1. c.does = "seed"
    <3>1. ASSUME c.does = "bootstrap" PROVE FALSE
      <4>1. /\ Len(Program(c)) = 2 /\ Program(c)[1] = <<"user", "admin">>
            /\ Program(c)[2] = <<"assignment", "admin">>
            BY <3>1, BootstrapFacts
      <4>2. t = <<"user", "admin">> \/ t = <<"assignment", "admin">>
        <5>1. proc[p].step = 1 \/ proc[p].step = 2
              BY <1>3, <4>1
        <5>   QED  BY <1>t, <4>1, <5>1
      <4>   QED  BY <1>7, <4>2
    <3>   QED  BY <1>2, <3>1
  <2>2. \A i \in DOMAIN Program(c) :
          i >= proc[p].step /\ i < proc[p].step + 2 => HaveNext(Program(c)[i])
    <3>   SUFFICES ASSUME NEW i \in DOMAIN Program(c), i = proc[p].step \/ i = proc[p].step + 1
                   PROVE  HaveNext(Program(c)[i])
          BY <1>3
    <3>1. CASE i = proc[p].step
          BY <1>1, <1>t, <1>7, <3>1 DEF Have, HaveNext
    <3>2. CASE i = proc[p].step + 1
      <4>1. Program(c)[i][1] = "filing"
            BY <1>2, <1>t, <1>7, <2>1, <3>2, SeedFacts
      <4>   QED  BY <4>1 DEF Have, HaveNext
    <3>   QED  BY <3>1, <3>2
  <2>   QED  BY <1>1, <1>2, <1>7, <2>2, PastCInv
<1>8. \/ GoTo(p, "failing")
      \/ GoTo(p, "insert") /\ t[1] # "author"
      \/ Past(p, 1) /\ Have(t)
      \/ Past(p, 2) /\ t[1] = "document" /\ Have(t)
  <2>1. CASE t[1] \in {"role", "user", "filing"}
        BY <1>t, <2>1 DEF Look
  <2>2. CASE t[1] = "author"
        BY <1>t, <2>2 DEF Look, Have, HaveNext
  <2>3. CASE t[1] = "site"
    <3>1. Sites = {t} => rows[t] > 0
          BY DEF Sites
    <3>   QED  BY <1>t, <2>3, <3>1 DEF Look, Have, HaveNext
  <2>4. CASE t[1] = "document"
        BY <1>t, <2>4 DEF Look, Found, Have, HaveNext
  <2>5. CASE t[1] = "assignment"
        BY <1>t, <2>5 DEF Look, Have, HaveNext
  <2>6. CASE t[1] \notin {"role", "user", "filing", "author", "site", "document", "assignment"}
        BY <1>t, <2>6 DEF Look, Found, Have, HaveNext
  <2>   QED  BY <2>1, <2>2, <2>3, <2>4, <2>5, <2>6
<1>   QED  BY <1>4, <1>5, <1>6, <1>7, <1>8

\* An insert adds the row that is wanted, or leaves the rows alone.
Inserted(p, c, t) ==
  /\ c = Now(p) /\ c.does \in {"seed", "bootstrap"} /\ proc[p].step \in DOMAIN Program(c)
  /\ t = Wanted(p) /\ t = Program(c)[proc[p].step] /\ t \in Row
  /\ \/ rows' = rows /\ GoTo(p, "failing")
     \/ rows' = rows /\ rows[t] > 0 /\ Past(p, 1)
     \/ /\ rows' = [rows EXCEPT ![t] = @ + 1] /\ Past(p, 1)
        /\ t[1] \in Unique => rows[t] = 0
  /\ rows' \in [Things -> Nat] /\ \A row \in Things : rows'[row] >= rows[row]

LEMMA InsertRows ==
  ASSUME CInv, NEW p \in Procs, Insert(p)
  PROVE  \E c \in Commands \ {serve}, t \in Things : Inserted(p, c, t)
<1>1. /\ proc[p].at = "insert" /\ CommandTypes /\ Placed(p)
      BY DEF CInv, Insert
<1>2. PICK c \in Commands \ {serve} : /\ c = Now(p) /\ c.does \in {"seed", "bootstrap"}
                                      /\ proc[p].step \in DOMAIN Program(c)
      BY <1>1 DEF CommandTypes, Placed
<1>3. PICK t \in Things : t = Wanted(p) /\ t = Program(c)[proc[p].step] /\ t \in Row
  <2>1. Wanted(p) = Program(c)[proc[p].step] /\ Wanted(p)[1] # "author"
        BY <1>1, <1>2 DEF Wanted, Placed
  <2>2. Wanted(p) \in Things /\ Wanted(p) \in Row
        BY <1>2, <2>1, ProgramFacts
  <2>   QED  BY <2>1, <2>2
<1>4. rows \in [Things -> Nat] /\ rows[t] \in Nat
      BY <1>1 DEF CommandTypes
<1>5. \/ rows' = rows /\ GoTo(p, "failing")
      \/ rows' = rows /\ rows[t] > 0 /\ Past(p, 1)
      \/ /\ rows' = [rows EXCEPT ![t] = @ + 1] /\ Past(p, 1)
         /\ t[1] \in Unique => rows[t] = 0
  <2>1. CASE t[1] \in Unique /\ rows[t] > 0
        BY <1>3, <2>1 DEF Insert
  <2>2. CASE ~(t[1] \in Unique /\ rows[t] > 0)
    <3>1. rows' = [rows EXCEPT ![t] = @ + 1] /\ Past(p, 1)
          BY <1>3, <2>2 DEF Insert
    <3>   QED  BY <1>4, <2>2, <3>1
  <2>   QED  BY <2>1, <2>2
<1>6. rows' \in [Things -> Nat] /\ \A row \in Things : rows'[row] >= rows[row]
      BY <1>4, <1>5
<1>   QED  BY <1>2, <1>3, <1>5, <1>6 DEF Inserted

LEMMA InsertCInv ==
  ASSUME CInv, NEW p \in Procs, Insert(p)
  PROVE  CInv'
<1>1. PICK c \in Commands \ {serve}, t \in Things : Inserted(p, c, t)
      BY InsertRows
<1>2. /\ c = Now(p) /\ c.does \in {"seed", "bootstrap"} /\ proc[p].step \in DOMAIN Program(c)
      /\ t = Program(c)[proc[p].step]
      /\ \/ rows' = rows /\ GoTo(p, "failing")
         \/ rows' = rows /\ rows[t] > 0 /\ Past(p, 1)
         \/ rows' = [rows EXCEPT ![t] = @ + 1] /\ Past(p, 1)
      /\ rows' \in [Things -> Nat] /\ \A other \in Things : rows'[other] >= rows[other]
      BY <1>1 DEF Inserted
<1>3. /\ proc[p].at = "insert" /\ CommandTypes /\ UNCHANGED <<file, plan, partial, named>>
      BY DEF CInv, Insert
<1>4. CASE rows' = rows /\ GoTo(p, "failing")
      BY <1>3, <1>4, GoToMoves, FailureClaimsNothing, MoveKeepsCInv
<1>5. CASE Past(p, 1) /\ ((rows' = rows /\ rows[t] > 0) \/ rows' = [rows EXCEPT ![t] = @ + 1])
  <2>1. HaveNext(t)
        BY <1>3, <1>5 DEF HaveNext, CommandTypes
  <2>2. DOMAIN Program(c) = 1..Len(Program(c)) /\ Len(Program(c)) \in Nat
        BY <1>2, ProgramFacts
  <2>3. \A i \in DOMAIN Program(c) :
          i >= proc[p].step /\ i < proc[p].step + 1 => HaveNext(Program(c)[i])
    <3>1. \A i \in 1..Len(Program(c)) : i >= proc[p].step /\ i < proc[p].step + 1 => i = proc[p].step
          BY <1>2, <2>2
    <3>   QED  BY <1>2, <2>1, <2>2, <3>1
  <2>   QED  BY <1>2, <1>3, <1>5, <2>3, PastCInv
<1>   QED  BY <1>2, <1>4, <1>5

\* The server and the one who starts it change nothing of what the commands own.
LEMMA OthersCInv ==
  ASSUME CInv, UNCHANGED <<file, rows, proc, partial, named>>, DOMAIN plan' = DOMAIN plan
  PROVE  CInv'
<1>1. CommandTypes'
      BY DEF CInv, CommandTypes, Now
<1>2. ASSUME NEW p \in Procs PROVE Placed(p)' /\ SoFar(p)'
  <2>1. Placed(p)'
        BY DEF CInv, Placed, Now, Wanted
  <2>2. SoFar(p)'
        BY DEF CInv, SoFar, Now, Have, Promised
  <2>   QED  BY <2>1, <2>2
<1>   QED  BY <1>1, <1>2 DEF CInv

LEMMA InitCInv == Init => CInv
<1>   SUFFICES ASSUME Init PROVE CInv
      OBVIOUS
<1>1. CommandTypes
  <2>1. PICK s \in Situations : file = s.file /\ plan = s.plan
        BY DEF Init
  <2>2. DOMAIN plan \subseteq Commands
        BY <2>1 DEF Commands
  <2>3. file \in [there : BOOLEAN, stamped : BOOLEAN, version : Nat]
        BY <2>1, CommandsAssumption
  <2>   QED  BY <2>2, <2>3 DEF Init, CommandTypes
<1>2. \A p \in Procs : Placed(p) /\ SoFar(p)
      BY DEF Init, Placed, SoFar, BackupPlaces
<1>   QED  BY <1>1, <1>2 DEF CInv

LEMMA NextCInv == CInv /\ [Next]_vars => CInv'
<1>   SUFFICES ASSUME CInv, [Next]_vars PROVE CInv'
      OBVIOUS
<1>1. CASE UNCHANGED vars
      BY <1>1, OthersCInv DEF vars, commandVars
<1>2. CASE StartServer
      BY <1>2, OthersCInv DEF StartServer
<1>3. CASE ServerStep \/ CloseDatabase
      BY <1>3, OthersCInv DEF ServerStep, CloseDatabase, commandVars
<1>4. ASSUME NEW p \in Procs, Step(p) \/ Kill(p) PROVE CInv'
      BY <1>4, OpenCInv, InitCommandCInv, MigrationCInv, EndCInv, BackupCInv, LookCInv, InsertCInv DEF Step
<1>   QED  BY <1>1, <1>2, <1>3, <1>4, GiveCInv DEF Next

--------------------------------------------------------------------------------
(* What more they keep to as long as no two of a kind run at once             *)

Alone ==
  \A p, q \in Procs : Running(p) /\ Running(q) /\ Now(p).does = Now(q).does => p = q

\* What is about to be inserted and has no constraint is not there yet.
Missing(p) ==
  proc[p].at = "insert" =>
    /\ Wanted(p)[1] \notin Unique => rows[Wanted(p)] = 0
    /\ Wanted(p)[1] = "site" => Sites = {}

Single ==
  /\ \A t \in Things : rows[t] <= 1
  /\ \A s, t \in Sites : s = t
  /\ \A p \in Procs : Missing(p)

WholeBackups ==
  /\ \A i \in DOMAIN named : named[i].whole
  /\ \A p \in Procs : proc[p].at = "naming" => \A i \in DOMAIN partial : partial[i].whole

OneByOne == CInv /\ (~crossed => Alone /\ Single /\ WholeBackups)

\* What a step of the command of p may do for the others to go on as before: it
\* stays the command it is, and nobody else's rows or files are touched.
LEMMA AloneStays ==
  ASSUME Alone, CInv, NEW p \in Procs, Running(p), NEW at, NEW step, Moved(p, at, step)
  PROVE  Alone'
<1>   SUFFICES ASSUME NEW q \in Procs, NEW r \in Procs, Running(q)', Running(r)', Now(q)'.does = Now(r)'.does
               PROVE  q = r
      BY DEF Alone
<1>1. ASSUME NEW s \in Procs, Running(s)' PROVE Running(s) /\ Now(s)' = Now(s)
      BY <1>1 DEF Moved, Running, Now
<1>   QED  BY <1>1 DEF Alone

LEMMA SingleStays ==
  ASSUME Single, NEW p \in Procs, NEW at, NEW step, Moved(p, at, step), rows' = rows, Missing(p)'
  PROVE  Single'
<1>1. Sites' = Sites
      BY DEF Sites
<1>2. ASSUME NEW q \in Procs, q # p PROVE Missing(q)'
  <2>1. proc'[q] = proc[q] /\ Missing(q)
        BY <1>2 DEF Moved, Single
  <2>   QED  BY <1>1, <2>1 DEF Missing, Wanted, Now
<1>   QED  BY <1>1, <1>2 DEF Single

LEMMA WholeBackupsStay ==
  ASSUME WholeBackups, NEW p \in Procs, NEW at, NEW step, Moved(p, at, step), at # "naming",
         UNCHANGED <<partial, named>>
  PROVE  WholeBackups'
BY DEF WholeBackups, Moved

\* Every step of a command but its insert, its look and those of a backup.
LEMMA MoveKeepsApart ==
  ASSUME CInv, Alone, Single, WholeBackups, NEW p \in Procs, Running(p),
         NEW at, NEW step, Moved(p, at, step), at \notin {"insert", "naming"},
         UNCHANGED <<rows, partial, named>>
  PROVE  Alone' /\ Single' /\ WholeBackups'
<1>1. Missing(p)'
      BY DEF Moved, Missing
<1>   QED  BY <1>1, AloneStays, SingleStays, WholeBackupsStay

LEMMA PlainStepsApart ==
  ASSUME CInv, Alone, Single, WholeBackups, NEW p \in Procs,
         \/ Open(p) \/ InitLooks(p) \/ Create(p) \/ Reopen(p) \/ Stamp(p) \/ Apply(p)
         \/ GetsNoLock(p) \/ BackupLooks(p) \/ Close(p) \/ Kill(p)
  PROVE  Alone' /\ Single' /\ WholeBackups'
<1>1. CommandTypes /\ Running(p) /\ UNCHANGED <<rows, partial, named>>
      BY DEF CInv, Open, InitLooks, Create, Reopen, Stamp, Apply, GetsNoLock, BackupLooks, Close, Kill, Running, Ended
<1>2. PICK at : at \notin {"insert", "naming"} /\ Moved(p, at, proc[p].step)
  <2>1. CASE Open(p)
    <3>1. FirstStep(Now(p).does) \notin {"insert", "naming"}
          BY DEF FirstStep
    <3>2. PICK at \in {"failed", FirstStep(Now(p).does)} : Moved(p, at, proc[p].step)
          BY <1>1, <2>1, GoToMoves DEF Open
    <3>   QED  BY <3>1, <3>2
  <2>2. CASE InitLooks(p) \/ Create(p) \/ Reopen(p)
    <3>1. PICK at \in {"reopen", "create", "stamp", "succeeding", "failed"} : Moved(p, at, proc[p].step)
          BY <1>1, <2>2, GoToMoves DEF InitLooks, Create, Reopen
    <3>   QED  BY <3>1
  <2>3. CASE Apply(p) /\ proc' = proc
    <3>1. proc[p].at = "applying"
          BY <2>3 DEF Apply
    <3>   QED  BY <1>1, <2>3, <3>1 DEF CommandTypes, Moved, Now
  <2>4. CASE Stamp(p) \/ (Apply(p) /\ proc' # proc) \/ GetsNoLock(p)
    <3>1. PICK at \in {"applying", "verify", "succeeding", "failing"} : Moved(p, at, proc[p].step)
          BY <1>1, <2>4, GoToMoves DEF Stamp, Apply, GetsNoLock
    <3>   QED  BY <3>1
  <2>5. CASE BackupLooks(p) \/ Close(p) \/ Kill(p)
    <3>1. PICK at \in {"failing", "removing", "failed", "done", "killed"} : Moved(p, at, proc[p].step)
          BY <1>1, <2>5, GoToMoves DEF BackupLooks, Close, Kill
    <3>   QED  BY <3>1
  <2>   QED  BY <2>1, <2>2, <2>3, <2>4, <2>5
<1>   QED  BY <1>1, <1>2, MoveKeepsApart

LEMMA LookApart ==
  ASSUME CInv, Alone, Single, WholeBackups, NEW p \in Procs, Look(p)
  PROVE  Alone' /\ Single' /\ WholeBackups'
<1>1. CommandTypes /\ Running(p) /\ UNCHANGED <<rows, partial, named>> /\ proc[p].at = "next"
      BY DEF CInv, Look, Running, Ended
<1>2. PICK t : t = Wanted(p)
      OBVIOUS
<1>3. t[1] # "author" => t \in Things
  <2>1. PICK c \in Commands \ {serve} : /\ c = Now(p) /\ c.does \in {"seed", "bootstrap"}
                                        /\ proc[p].step \in DOMAIN Program(c)
        BY <1>1 DEF CInv, CommandTypes, Placed
  <2>   QED  BY <1>2, <2>1, ProgramFacts DEF Wanted
<1>   DEFINE Steps == {proc[p].step, proc[p].step + 1, proc[p].step + 2}
<1>4. CASE \E at \in {"failing", "succeeding", "next"}, step \in Steps : Moved(p, at, step)
      BY <1>1, <1>4, MoveKeepsApart
<1>5. ASSUME GoTo(p, "insert"),
             t[1] \in {"role", "user", "filing", "assignment"} \/ (t[1] # "author" /\ ~Found(t))
      PROVE  Alone' /\ Single' /\ WholeBackups'
  <2>1. Moved(p, "insert", proc[p].step)
        BY <1>1, <1>5, GoToMoves
  <2>2. t[1] \notin Unique => rows[t] = 0
    <3>   SUFFICES ASSUME t[1] \notin Unique PROVE rows[t] = 0
          OBVIOUS
    <3>1. t[1] \notin {"role", "user", "assignment", "filing"}
          BY CommandsAssumption
    <3>   QED  BY <1>1, <1>3, <1>5, <3>1 DEF Found, Sites, CommandTypes
  <2>3. t[1] = "site" => Sites = {}
        BY <1>5 DEF Found
  <2>4. Missing(p)'
    <3>1. Wanted(p)' = t /\ Sites' = Sites
          BY <1>1, <1>2, <2>1 DEF Moved, Wanted, Now, Sites
    <3>   QED  BY <1>1, <2>2, <2>3, <3>1 DEF Missing
  <2>   QED  BY <1>1, <2>1, <2>4, AloneStays, SingleStays, WholeBackupsStay
<1>6. \/ GoTo(p, "failing") \/ Past(p, 1) \/ Past(p, 2)
      \/ /\ GoTo(p, "insert")
         /\ t[1] \in {"role", "user", "filing", "assignment"} \/ (t[1] # "author" /\ ~Found(t))
  <2>1. CASE t[1] \in {"role", "user", "filing", "assignment"}
        BY <1>2, <2>1 DEF Look
  <2>2. CASE t[1] \in {"author", "site"}
        BY <1>2, <2>2 DEF Look
  <2>3. CASE t[1] = "document"
        BY <1>2, <2>3 DEF Look
  <2>4. CASE t[1] \notin {"role", "user", "filing", "author", "site", "document", "assignment"}
        BY <1>2, <2>4 DEF Look
  <2>   QED  BY <2>1, <2>2, <2>3, <2>4
<1>7. GoTo(p, "failing") \/ Past(p, 1) \/ Past(p, 2) =>
        \E at \in {"failing", "succeeding", "next"}, step \in Steps : Moved(p, at, step)
  <2>1. GoTo(p, "failing") => Moved(p, "failing", proc[p].step)
        BY <1>1, GoToMoves
  <2>2. \A n \in {1, 2} : Past(p, n) =>
          Moved(p, "succeeding", proc[p].step) \/ Moved(p, "next", proc[p].step + n)
        BY <1>1, PastMoves
  <2>   QED  BY <2>1, <2>2
<1>   QED  BY <1>4, <1>5, <1>6, <1>7

\* Seed and bootstrap want rows of different tables.
LEMMA KindsWanted ==
  ASSUME CInv, NEW p \in Procs, proc[p].at = "insert"
  PROVE  /\ Now(p).does \in {"seed", "bootstrap"} /\ Running(p)
         /\ Now(p).does = "seed" => Wanted(p)[1] \in SeedKind
         /\ Now(p).does = "bootstrap" => Wanted(p)[1] \in {"user", "assignment"}
<1>1. PICK c \in Commands \ {serve} : /\ c = Now(p) /\ c.does \in {"seed", "bootstrap"}
                                      /\ proc[p].step \in DOMAIN Program(c)
      BY DEF CInv, CommandTypes, Placed
<1>2. Wanted(p) = Program(c)[proc[p].step]
      BY <1>1 DEF Wanted
<1>3. c.does = "seed" => Wanted(p)[1] \in SeedKind
      BY <1>1, <1>2, SeedFacts
<1>4. c.does = "bootstrap" => Wanted(p)[1] \in {"user", "assignment"}
  <2>   SUFFICES ASSUME c.does = "bootstrap" PROVE Wanted(p)[1] \in {"user", "assignment"}
        OBVIOUS
  <2>1. /\ Len(Program(c)) = 2 /\ Program(c)[1] = <<"user", "admin">> /\ Program(c)[2] = <<"assignment", "admin">>
        BY BootstrapFacts
  <2>2. proc[p].step = 1 \/ proc[p].step = 2
    <3>1. DOMAIN Program(c) = 1..Len(Program(c))
          BY <1>1, ProgramFacts
    <3>   QED  BY <1>1, <2>1, <3>1
  <2>   QED  BY <1>2, <2>1, <2>2
<1>   QED  BY <1>1, <1>3, <1>4 DEF Running, Ended

LEMMA InsertApart ==
  ASSUME CInv, Alone, Single, WholeBackups, NEW p \in Procs, Insert(p)
  PROVE  Alone' /\ Single' /\ WholeBackups'
<1>1. PICK c \in Commands \ {serve}, t \in Things : Inserted(p, c, t)
      BY InsertRows
<1>2. /\ CommandTypes /\ proc[p].at = "insert" /\ Running(p) /\ UNCHANGED <<partial, named>>
      /\ t = Wanted(p) /\ rows[t] \in Nat
      BY <1>1 DEF CInv, CommandTypes, Insert, Inserted, Running, Ended
<1>3. PICK at \in {"failing", "succeeding", "next"}, step \in {proc[p].step, proc[p].step + 1} : Moved(p, at, step)
  <2>1. GoTo(p, "failing") => Moved(p, "failing", proc[p].step)
        BY <1>2, GoToMoves
  <2>2. Past(p, 1) => Moved(p, "succeeding", proc[p].step) \/ Moved(p, "next", proc[p].step + 1)
        BY <1>2, PastMoves
  <2>3. GoTo(p, "failing") \/ Past(p, 1)
        BY <1>1 DEF Inserted
  <2>   QED  BY <2>1, <2>2, <2>3
<1>4. CASE rows' = rows
      BY <1>2, <1>3, <1>4, MoveKeepsApart
<1>5. ASSUME rows' = [rows EXCEPT ![t] = @ + 1], t[1] \in Unique => rows[t] = 0
      PROVE  Alone' /\ Single' /\ WholeBackups'
  <2>1. rows[t] = 0 /\ (t[1] = "site" => Sites = {})
        BY <1>2, <1>5 DEF Single, Missing
  <2>2. rows \in [Things -> Nat] /\ rows'[t] = 1 /\ \A s \in Things \ {t} : rows'[s] = rows[s]
        BY <1>2, <1>5, <2>1 DEF CommandTypes
  <2>3. \A s \in Things : rows'[s] <= 1
        BY <2>2 DEF Single
  <2>4. t[1] # "site" => Sites' = Sites
        BY <2>2 DEF Sites
  <2>5. t[1] = "site" => Sites' \subseteq {t}
        BY <2>1, <2>2 DEF Sites
  <2>6. \A s, u \in Sites' : s = u
        BY <2>4, <2>5 DEF Single
  <2>7. ASSUME NEW q \in Procs, proc'[q].at = "insert"
        PROVE  /\ Wanted(q)'[1] \notin Unique => rows'[Wanted(q)'] = 0
               /\ Wanted(q)'[1] = "site" => Sites' = {}
    <3>1. q # p /\ proc'[q] = proc[q] /\ proc[q].at = "insert" /\ Wanted(q)' = Wanted(q)
      <4>1. q # p
            BY <1>3, <2>7 DEF Moved
      <4>   QED  BY <1>3, <2>7, <4>1 DEF Moved, Wanted, Now
    <3>2. Missing(q) /\ Running(q) /\ Now(q).does # Now(p).does
          BY <1>2, <3>1, KindsWanted DEF Single, Alone
    <3>3. \/ t[1] \in SeedKind /\ Wanted(q)[1] \in {"user", "assignment"}
          \/ Wanted(q)[1] \in SeedKind /\ t[1] \in {"user", "assignment"}
          BY <1>2, <3>1, <3>2, KindsWanted
    <3>4. t # Wanted(q) /\ (Wanted(q)[1] = "site" => t[1] # "site")
          BY <3>3 DEF SeedKind
    <3>5. Wanted(q)[1] # "author" => Wanted(q) \in Things
      <4>1. PICK d \in Commands \ {serve} : /\ d = Now(q) /\ d.does \in {"seed", "bootstrap"}
                                            /\ proc[q].step \in DOMAIN Program(d)
            BY <1>2, <3>1 DEF CInv, CommandTypes, Placed
      <4>   QED  BY <4>1, ProgramFacts DEF Wanted
    <3>6. Wanted(q)[1] # "author"
          BY <3>1 DEF CInv, Placed
    <3>   QED  BY <2>2, <2>4, <3>1, <3>2, <3>4, <3>5, <3>6 DEF Missing
  <2>8. Single'
        BY <2>3, <2>6, <2>7 DEF Single, Missing
  <2>9. WholeBackups'
        BY <1>2, <1>3, WholeBackupsStay
  <2>   QED  BY <1>2, <1>3, <2>8, <2>9, AloneStays
<1>   QED  BY <1>1, <1>4, <1>5 DEF Inserted

\* Nobody else is in a backup.
LEMMA BackupApart ==
  ASSUME CInv, Alone, Single, WholeBackups, NEW p \in Procs,
         RemovePartial(p) \/ BeginCopy(p) \/ EndCopy(p) \/ Check(p) \/ Rename(p)
  PROVE  Alone' /\ Single' /\ WholeBackups'
<1>1. /\ CommandTypes /\ proc[p].at \in BackupPlaces /\ Running(p) /\ Now(p).does = "backup" /\ rows' = rows
  <2>1. proc[p].at \in BackupPlaces /\ rows' = rows
        BY DEF RemovePartial, BeginCopy, EndCopy, Check, Rename, BackupPlaces
  <2>   QED  BY <2>1 DEF CInv, Placed, Running, Ended, BackupPlaces
<1>2. ASSUME NEW q \in Procs, q # p PROVE proc[q].at # "naming"
  <2>   SUFFICES ASSUME proc[q].at = "naming" PROVE FALSE
        OBVIOUS
  <2>1. Running(q) /\ Now(q).does = "backup"
        BY DEF CInv, Placed, Running, Ended, BackupPlaces
  <2>   QED  BY <1>1, <1>2, <2>1 DEF Alone
<1>3. PICK at \in {"failing", "copy", "copying", "checking", "naming", "succeeding"} : Moved(p, at, proc[p].step)
      BY <1>1, GoToMoves DEF RemovePartial, BeginCopy, EndCopy, Check, Rename, Fails
<1>4. Missing(p)'
      BY <1>3 DEF Moved, Missing
<1>5. \A i \in DOMAIN named' : named'[i].whole
  <2>1. CASE named' = named
        BY <2>1 DEF WholeBackups
  <2>2. CASE named' = Whole(named, p)
    <3>1. named \in Seq(Copy)
          BY <1>1 DEF CommandTypes
    <3>   QED  BY <2>2, <3>1, WholeFiles DEF WholeBackups
  <2>3. CASE named' = partial /\ proc[p].at = "naming"
        BY <2>3 DEF WholeBackups
  <2>   QED  BY <2>1, <2>2, <2>3 DEF RemovePartial, BeginCopy, EndCopy, Check, Rename, Fails
<1>6. proc'[p].at = "naming" => \A i \in DOMAIN partial' : partial'[i].whole
  <2>   SUFFICES ASSUME proc'[p].at = "naming" PROVE \A i \in DOMAIN partial' : partial'[i].whole
        OBVIOUS
  <2>1. partial' = partial /\ CheckFile
    <3>1. \A place : GoTo(p, place) => proc'[p].at = place
          BY <1>1, GoToMoves DEF Moved
    <3>2. ~Fails(p)
          BY <3>1 DEF Fails
    <3>3. /\ ~GoTo(p, "copy") /\ ~GoTo(p, "copying")
          /\ ~GoTo(p, "checking") /\ ~GoTo(p, "succeeding")
          BY <3>1
    <3>4. ~(RemovePartial(p) \/ BeginCopy(p) \/ EndCopy(p) \/ Rename(p))
          BY <3>2, <3>3 DEF RemovePartial, BeginCopy, EndCopy, Rename
    <3>   QED  BY <3>2, <3>4 DEF Check
  <2>2. DOMAIN partial \subseteq {1}
    <3>1. partial \in Seq(Copy) /\ Len(partial) \in Nat /\ Len(partial) <= 1 /\ DOMAIN partial = 1..Len(partial)
          BY <1>1 DEF CommandTypes
    <3>   QED  BY <3>1
  <2>   QED  BY <2>1, <2>2 DEF CheckFile
<1>7. WholeBackups'
      BY <1>2, <1>3, <1>5, <1>6 DEF Moved, WholeBackups
<1>   QED  BY <1>1, <1>3, <1>4, <1>7, AloneStays, SingleStays

\* Who gives a command while another of its kind is running crosses it.
LEMMA GiveApart ==
  ASSUME CInv, Alone, Single, WholeBackups, NEW p \in Procs, NEW c \in DOMAIN plan \ {serve}, Give(p, c), ~crossed'
  PROVE  Alone' /\ Single' /\ WholeBackups'
<1>1. /\ proc'[p] = [command |-> c, at |-> "open", step |-> 1]
      /\ \A q \in Procs \ {p} : proc'[q] = proc[q]
      /\ UNCHANGED <<rows, partial, named>>
      BY DEF Give, CInv, CommandTypes
<1>2. \A q \in Procs : Running(q) => Now(q).does # c.does
      BY DEF Give
<1>3. ASSUME NEW q \in Procs \ {p}
      PROVE  /\ Running(q)' = Running(q) /\ Now(q)' = Now(q) /\ Missing(q)'
             /\ proc'[q].at = proc[q].at
  <2>1. proc'[q] = proc[q]
        BY <1>1
  <2>   QED  BY <1>1, <2>1 DEF Running, Now, Single, Missing, Wanted, Sites
<1>4. Now(p)' = c /\ proc'[p].at = "open"
      BY <1>1 DEF Now
<1>5. Alone'
  <2>   SUFFICES ASSUME NEW q \in Procs, NEW r \in Procs, Running(q)', Running(r)', Now(q)'.does = Now(r)'.does
                 PROVE  q = r
        BY DEF Alone
  <2>   QED  BY <1>2, <1>3, <1>4 DEF Alone
<1>6. Single'
  <2>1. Missing(p)'
        BY <1>4 DEF Missing
  <2>   QED  BY <1>1, <1>3, <2>1 DEF Single, Sites
<1>7. WholeBackups'
      BY <1>1, <1>3, <1>4 DEF WholeBackups
<1>   QED  BY <1>5, <1>6, <1>7

LEMMA OthersApart ==
  ASSUME Alone, Single, WholeBackups, UNCHANGED <<rows, proc, partial, named>>
  PROVE  Alone' /\ Single' /\ WholeBackups'
<1>1. Alone'
      BY DEF Alone, Running, Now
<1>2. Single'
      BY DEF Single, Missing, Wanted, Now, Sites
<1>3. WholeBackups'
      BY DEF WholeBackups
<1>   QED  BY <1>1, <1>2, <1>3

LEMMA InitOneByOne == Init => OneByOne
<1>   SUFFICES ASSUME Init PROVE CInv /\ Alone /\ Single /\ WholeBackups
      BY DEF OneByOne
<1>1. Alone
      BY DEF Init, Alone, Running, Ended
<1>2. Single
      BY DEF Init, Single, Sites, Missing
<1>3. WholeBackups
      BY DEF Init, WholeBackups
<1>   QED  BY <1>1, <1>2, <1>3, InitCInv

LEMMA NextOneByOne == OneByOne /\ [Next]_vars => OneByOne'
<1>   SUFFICES ASSUME OneByOne, [Next]_vars PROVE OneByOne'
      OBVIOUS
<1>1. CInv /\ CInv'
      BY NextCInv DEF OneByOne
<1>2. ASSUME NEW p \in Procs, NEW c \in DOMAIN plan \ {serve}, Give(p, c), ~crossed'
      PROVE  Alone' /\ Single' /\ WholeBackups'
  <2>1. ~crossed
        BY <1>2 DEF Give
  <2>   QED  BY <1>1, <1>2, <2>1, GiveApart DEF OneByOne
<1>3. ASSUME NEW p \in Procs, Step(p) \/ Kill(p), ~crossed'
      PROVE  Alone' /\ Single' /\ WholeBackups'
  <2>1. ~crossed
        BY <1>3 DEF Step, Kill, Open, InitLooks, Create, Reopen, Stamp, Apply, Look, Insert, GetsNoLock,
           BackupLooks, RemovePartial, BeginCopy, EndCopy, Check, Rename, Close
  <2>   QED  BY <1>1, <1>3, <2>1, PlainStepsApart, LookApart, InsertApart, BackupApart DEF OneByOne, Step
<1>4. ASSUME UNCHANGED vars \/ StartServer \/ ServerStep \/ CloseDatabase, ~crossed'
      PROVE  Alone' /\ Single' /\ WholeBackups'
  <2>1. UNCHANGED <<rows, proc, partial, named, crossed>>
        BY <1>4 DEF vars, commandVars, StartServer, ServerStep, CloseDatabase
  <2>   QED  BY <1>4, <2>1, OthersApart DEF OneByOne
<1>   QED  BY <1>1, <1>2, <1>3, <1>4 DEF OneByOne, Next

LEMMA OneByOneAlways == Spec => []OneByOne
BY InitOneByOne, NextOneByOne, PTL DEF Spec

LEMMA OneSiteAtMost ==
  ASSUME \A s, t \in Sites : s = t
  PROVE  Cardinality(Sites) <= 1
<1>1. CASE Sites = {}
      BY <1>1, FS_EmptySet
<1>2. CASE Sites # {}
  <2>1. PICK s : Sites = {s}
        BY <1>2
  <2>   QED  BY <2>1, FS_Singleton
<1>   QED  BY <1>1, <1>2

\* A command that has ended well has done what it is for, and as long as no two of
\* a kind run at once nothing is doubled and there is one site at most (cmd/cmsdb).
THEOREM PromisesHold == Spec => []PromisesAreKept
<1>1. OneByOne => PromisesAreKept
  <2>   SUFFICES ASSUME OneByOne PROVE PromisesAreKept
        OBVIOUS
  <2>1. \A p \in Procs : proc[p].at \in {"succeeding", "done"} => Promised(Now(p))
        BY DEF OneByOne, CInv, SoFar
  <2>2. ~crossed => (\A t \in Things : rows[t] <= 1) /\ Cardinality(Sites) <= 1
        BY OneSiteAtMost DEF OneByOne, Single
  <2>   QED  BY <2>1, <2>2 DEF PromisesAreKept
<1>   QED  BY <1>1, OneByOneAlways, PTL

\* What has the name of a backup is whole, and stays, as long as no two backups
\* run at once (internal/store/backup.go).
THEOREM BackupsAreWhole == Spec => BackupIsWhole
<1>1. OneByOne /\ OneByOne' /\ [Next]_vars =>
        [~crossed => /\ \A i \in DOMAIN named' : named'[i].whole
                     /\ named # <<>> => named' # <<>>]_vars
  <2>   SUFFICES ASSUME OneByOne, OneByOne', Next, ~crossed
                 PROVE  (\A i \in DOMAIN named' : named'[i].whole) /\ (named # <<>> => named' # <<>>)
        OBVIOUS
  <2>1. CASE crossed'
    <3>1. named' = named
      <4>1. \E p \in Procs, c \in DOMAIN plan \ {serve} : Give(p, c)
        <5>1. crossed' = crossed \/ \E p \in Procs, c \in DOMAIN plan \ {serve} : Give(p, c)
              BY DEF Next, Step, Kill, Open, InitLooks, Create, Reopen, Stamp, Apply, Look, Insert, GetsNoLock,
                 BackupLooks, RemovePartial, BeginCopy, EndCopy, Check, Rename, Close,
                 StartServer, ServerStep, CloseDatabase, commandVars
        <5>   QED  BY <2>1, <5>1
      <4>   QED  BY <4>1 DEF Give
    <3>   QED  BY <3>1 DEF OneByOne, WholeBackups
  <2>2. CASE ~crossed'
    <3>1. \A i \in DOMAIN named' : named'[i].whole
          BY <2>2 DEF OneByOne, WholeBackups
    <3>2. named # <<>> => named' # <<>>
      <4>1. CASE \E p \in Procs : EndCopy(p)
        <5>1. named \in Seq(Copy)
              BY DEF OneByOne, CInv, CommandTypes
        <5>   QED  BY <4>1, <5>1, WholeFiles DEF EndCopy
      <4>2. CASE \E p \in Procs : Rename(p)
            BY <4>2 DEF Rename
      <4>3. CASE ~(\E p \in Procs : EndCopy(p) \/ Rename(p))
        <5>1. named' = named
              BY <4>3 DEF Next, Step, Kill, Give, Open, InitLooks, Create, Reopen, Stamp, Apply, Look, Insert,
                 GetsNoLock, BackupLooks, RemovePartial, BeginCopy, Check, Close,
                 StartServer, ServerStep, CloseDatabase, commandVars
        <5>   QED  BY <5>1
      <4>   QED  BY <4>1, <4>2, <4>3
    <3>   QED  BY <3>1, <3>2
  <2>   QED  BY <2>1, <2>2
<1>   QED  BY <1>1, OneByOneAlways, PTL DEF Spec, BackupIsWhole

--------------------------------------------------------------------------------
(* Type correctness, of the server and of the commands                        *)

LEMMA ClientTypes ==
  ASSUME ServerTypeOK, NEW c \in Clients, NEW v \in Inside \cup {"out", "gone", "broken"},
         client' = [client EXCEPT ![c] = v], v = "writing" => \A d \in Clients : client[d] # "writing",
         UNCHANGED <<phase, way, asked, signalled, spent, told, readers>>, log' \in BOOLEAN
  PROVE  ServerTypeOK'
BY DEF ServerTypeOK

LEMMA ServerTypes ==
  ASSUME ServerTypeOK, ServerNext \/ Serve
  PROVE  ServerTypeOK'
<1>   USE DEF Inside, Clients
<1>1. log \in BOOLEAN
      BY DEF ServerTypeOK
<1>2. ASSUME NEW r \in Requests, Arrive(r) \/ Answer(r) PROVE ServerTypeOK'
      BY <1>1, <1>2, ClientTypes DEF Arrive, Answer
<1>3. ASSUME NEW w \in Workers, Claim(w) \/ Report(w) \/ StopWorking(w) PROVE ServerTypeOK'
      BY <1>1, <1>3, ClientTypes DEF Claim, Report, StopWorking
<1>4. ASSUME NEW c \in Clients, Read(c) \/ Write(c) PROVE ServerTypeOK'
      BY <1>1, <1>4, ClientTypes DEF Read, Write
<1>5. ASSUME NEW c \in Clients, Return(c) PROVE ServerTypeOK'
  <2>1. log' \in BOOLEAN
        BY <1>1, <1>5 DEF Return
  <2>   QED  BY <1>5, <2>1, ClientTypes DEF Return
<1>6. CASE Signal \/ ListenerFails \/ DrainOver \/ Serve
      BY <1>6 DEF Signal, ListenerFails, DrainOver, Serve, ServerTypeOK
<1>7. CASE Exit
  <2>1. CASE CloseReaders \/ ReadersClosed \/ StopWorkers \/ LeaveServe
        BY <2>1 DEF CloseReaders, ReadersClosed, StopWorkers, LeaveServe, ServerTypeOK
  <2>2. CASE BeginDrain
        BY <2>2 DEF BeginDrain, ServerTypeOK
  <2>   QED  BY <1>7, <2>1, <2>2 DEF Exit
<1>8. ASSUME NEW reason \in {"timeout", "request"}, RequestShutdown(reason) PROVE ServerTypeOK'
      BY <1>8 DEF RequestShutdown, ServerTypeOK
<1>   QED  BY <1>2, <1>3, <1>4, <1>5, <1>6, <1>7, <1>8 DEF ServerNext

Places == Ended \cup {"open", "succeeding", "failing", "create", "reopen", "stamp", "applying", "verify",
                      "next", "insert"} \cup BackupPlaces

\* What TypeOK says besides.
MoreTypes ==
  /\ plan \in [DOMAIN plan -> Nat] /\ Len(named) <= 1
  /\ crossed \in BOOLEAN /\ kills \in 0..MaxKills
  /\ \A p \in Procs : /\ proc[p].step \in Nat /\ proc[p].at \in Places
                      /\ proc[p].at # "idle" => Now(p) \in DOMAIN plan

TInv == CInv /\ ServerTypeOK /\ MoreTypes

LEMMA MoreTypesStay ==
  ASSUME CInv, MoreTypes, NEW p \in Procs, NEW at \in Places, NEW step \in Nat, Moved(p, at, step),
         proc[p].at # "idle", plan' = plan, crossed' = crossed, kills' \in 0..MaxKills, Len(named') <= 1
  PROVE  MoreTypes'
<1>1. ASSUME NEW q \in Procs
      PROVE  /\ proc'[q].step \in Nat /\ proc'[q].at \in Places
             /\ proc'[q].at # "idle" => proc'[q].command \in DOMAIN plan
  <2>1. CASE q = p
        BY <2>1 DEF Moved, MoreTypes, Now
  <2>2. CASE q # p
        BY <2>2 DEF Moved, MoreTypes, Now
  <2>   QED  BY <2>1, <2>2
<1>   QED  BY <1>1 DEF MoreTypes, Now

\* A step of a command is a move of it to a place there is.
LEMMA StepsMove ==
  ASSUME CInv, MoreTypes, NEW p \in Procs, Step(p) \/ Kill(p)
  PROVE  /\ \E at \in Places, step \in Nat : Moved(p, at, step)
         /\ proc[p].at # "idle" /\ plan' = plan /\ crossed' = crossed
         /\ kills' \in 0..MaxKills /\ Len(named') <= 1
<1>1. CommandTypes /\ proc[p].step \in Nat
      BY DEF CInv, MoreTypes
<1>2. /\ proc[p].at # "idle" /\ plan' = plan /\ crossed' = crossed
      BY DEF Step, Kill, Open, InitLooks, Create, Reopen, Stamp, Apply, Look, Insert, GetsNoLock, BackupLooks,
         RemovePartial, BeginCopy, EndCopy, Check, Rename, Close, Running, Ended
<1>3. kills' \in 0..MaxKills
  <2>1. kills \in 0..MaxKills /\ MaxKills \in Nat
        BY DeploymentAssumption DEF MoreTypes
  <2>2. kills' = kills \/ (kills' = kills + 1 /\ kills < MaxKills)
        BY DEF Step, Kill, Open, InitLooks, Create, Reopen, Stamp, Apply, Look, Insert, GetsNoLock, BackupLooks,
           RemovePartial, BeginCopy, EndCopy, Check, Rename, Close
  <2>   QED  BY <2>1, <2>2
<1>4. Len(named') <= 1
  <2>1. /\ named \in Seq(Copy) /\ Len(named) <= 1 /\ Len(partial) <= 1
        BY <1>1 DEF CommandTypes, MoreTypes
  <2>2. named' \in {named, partial, Whole(named, p)}
        BY DEF Step, Kill, Open, InitLooks, Create, Reopen, Stamp, Apply, Look, Insert, GetsNoLock, BackupLooks,
           RemovePartial, BeginCopy, EndCopy, Check, Rename, Close
  <2>3. Len(Whole(named, p)) <= 1
        BY <2>1, WholeFiles
  <2>   QED  BY <2>1, <2>2, <2>3
<1>5. ASSUME NEW at \in Places, GoTo(p, at) PROVE \E a \in Places, step \in Nat : Moved(p, a, step)
      BY <1>1, <1>5, GoToMoves
<1>6. ASSUME NEW n \in {1, 2}, Past(p, n) PROVE \E a \in Places, step \in Nat : Moved(p, a, step)
  <2>1. Moved(p, "succeeding", proc[p].step) \/ Moved(p, "next", proc[p].step + n)
        BY <1>1, <1>6, PastMoves
  <2>2. proc[p].step + n \in Nat /\ "succeeding" \in Places /\ "next" \in Places
        BY <1>1 DEF Places
  <2>   QED  BY <1>1, <2>1, <2>2
<1>7. CASE Apply(p) /\ proc' = proc
  <2>1. Moved(p, proc[p].at, proc[p].step) /\ proc[p].at \in Places
        BY <1>1, <1>7 DEF CommandTypes, Moved, Now, MoreTypes
  <2>   QED  BY <1>1, <1>2, <1>3, <1>4, <2>1
<1>8. CASE ~(Apply(p) /\ proc' = proc)
  <2>1. \/ \E at \in Places : GoTo(p, at)
        \/ Past(p, 1) \/ Past(p, 2)
    <3>1. CASE Open(p)
      <4>1. FirstStep(Now(p).does) \in Places /\ "failed" \in Places
            BY DEF FirstStep, Places, BackupPlaces, Ended
      <4>   QED  BY <3>1, <4>1 DEF Open
    <3>2. CASE InitLooks(p) \/ Create(p) \/ Reopen(p) \/ Stamp(p) \/ Apply(p) \/ GetsNoLock(p) \/ Close(p) \/ Kill(p)
      <4>1. \E at \in {"reopen", "create", "stamp", "succeeding", "failed", "applying", "verify", "failing",
                       "done", "killed"} : GoTo(p, at)
            BY <1>8, <3>2 DEF InitLooks, Create, Reopen, Stamp, Apply, GetsNoLock, Close, Kill
      <4>   QED  BY <4>1 DEF Places, Ended
    <3>3. CASE Look(p)
      <4>1. GoTo(p, "insert") \/ GoTo(p, "failing") \/ Past(p, 1) \/ Past(p, 2)
            BY <3>3 DEF Look
      <4>   QED  BY <4>1 DEF Places
    <3>4. CASE Insert(p)
      <4>1. GoTo(p, "failing") \/ Past(p, 1)
            BY <3>4 DEF Insert
      <4>   QED  BY <4>1 DEF Places
    <3>5. CASE BackupLooks(p) \/ RemovePartial(p) \/ BeginCopy(p) \/ EndCopy(p) \/ Check(p) \/ Rename(p)
      <4>1. \E at \in {"failing", "removing", "copy", "copying", "checking", "naming", "succeeding"} : GoTo(p, at)
            BY <3>5 DEF BackupLooks, RemovePartial, BeginCopy, EndCopy, Check, Rename, Fails
      <4>   QED  BY <4>1 DEF Places, BackupPlaces
    <3>   QED  BY <3>1, <3>2, <3>3, <3>4, <3>5 DEF Step
  <2>2. \E at \in Places, step \in Nat : Moved(p, at, step)
        BY <1>5, <1>6, <2>1
  <2>   QED  BY <1>2, <1>3, <1>4, <2>2
<1>   QED  BY <1>7, <1>8

LEMMA CommandsServerTypes ==
  ASSUME ServerTypeOK, UNCHANGED <<phase, way, asked, signalled, spent, told, client, readers>>, log' \in BOOLEAN
  PROVE  ServerTypeOK'
BY DEF ServerTypeOK

LEMMA InitTInv == Init => TInv
<1>   SUFFICES ASSUME Init PROVE ServerTypeOK /\ MoreTypes
      BY InitCInv DEF TInv
<1>1. ServerTypeOK
      BY DEF Init, ServerInit, ServerTypeOK, Inside
<1>2. MoreTypes
  <2>1. plan \in [DOMAIN plan -> Nat]
        BY CommandsAssumption DEF Init
  <2>2. Len(named) <= 1 /\ crossed \in BOOLEAN /\ kills \in 0..MaxKills
    <3>1. named = <<>> /\ crossed = FALSE /\ kills = 0
          BY DEF Init
    <3>2. Len(named) = 0
          BY <3>1
    <3>3. kills \in 0..MaxKills
          BY <3>1, DeploymentAssumption
    <3>4. Len(named) <= 1
          BY <3>2
    <3>   QED  BY <3>1, <3>3, <3>4
  <2>3. \A p \in Procs : proc[p].step \in Nat /\ proc[p].at = "idle"
        BY DEF Init
  <2>   QED  BY <2>1, <2>2, <2>3 DEF MoreTypes, Places, Ended
<1>   QED  BY <1>1, <1>2

LEMMA NextTInv == TInv /\ [Next]_vars => TInv'
<1>   SUFFICES ASSUME TInv, [Next]_vars PROVE ServerTypeOK' /\ MoreTypes'
      BY NextCInv DEF TInv
<1>1. CInv /\ ServerTypeOK /\ MoreTypes /\ log \in BOOLEAN
      BY DEF TInv, ServerTypeOK
<1>2. CASE UNCHANGED vars
  <2>1. ServerTypeOK'
        BY <1>1, <1>2, CommandsServerTypes DEF vars, serverVars
  <2>2. MoreTypes'
        BY <1>1, <1>2 DEF vars, commandVars, MoreTypes, Now
  <2>   QED  BY <2>1, <2>2
<1>3. CASE StartServer
  <2>1. ServerTypeOK'
        BY <1>1, <1>3, ServerTypes DEF StartServer
  <2>2. MoreTypes'
        BY <1>1, <1>3 DEF StartServer, MoreTypes, Now
  <2>   QED  BY <2>1, <2>2
<1>4. CASE ServerStep
  <2>1. ServerTypeOK'
        BY <1>1, <1>4, ServerTypes DEF ServerStep
  <2>2. MoreTypes'
        BY <1>1, <1>4 DEF ServerStep, commandVars, MoreTypes, Now
  <2>   QED  BY <2>1, <2>2
<1>5. CASE CloseDatabase
  <2>1. ServerTypeOK'
        BY <1>1, <1>5 DEF CloseDatabase, CloseWriter, ServerTypeOK
  <2>2. MoreTypes'
        BY <1>1, <1>5 DEF CloseDatabase, commandVars, MoreTypes, Now
  <2>   QED  BY <2>1, <2>2
<1>6. ASSUME NEW p \in Procs, Step(p) \/ Kill(p) PROVE ServerTypeOK' /\ MoreTypes'
  <2>1. log' \in BOOLEAN /\ UNCHANGED <<phase, way, asked, signalled, spent, told, client, readers>>
        BY <1>1, <1>6 DEF Step, Kill, Open, InitLooks, Create, Reopen, Stamp, Apply, Look, Insert, GetsNoLock,
           BackupLooks, RemovePartial, BeginCopy, EndCopy, Check, Rename, Close, serverVars
  <2>2. ServerTypeOK'
        BY <1>1, <2>1, CommandsServerTypes
  <2>   QED  BY <1>1, <1>6, <2>2, StepsMove, MoreTypesStay
<1>7. ASSUME NEW p \in Procs, NEW c \in DOMAIN plan \ {serve}, Give(p, c) PROVE ServerTypeOK' /\ MoreTypes'
  <2>1. ServerTypeOK'
        BY <1>1, <1>7, CommandsServerTypes DEF Give, serverVars
  <2>2. /\ proc'[p] = [command |-> c, at |-> "open", step |-> 1]
        /\ \A q \in Procs \ {p} : proc'[q] = proc[q]
        BY <1>1, <1>7 DEF Give, CInv, CommandTypes
  <2>3. plan' \in [DOMAIN plan -> Nat] /\ DOMAIN plan' = DOMAIN plan
        BY <1>1, <1>7 DEF Give, MoreTypes
  <2>4. ASSUME NEW q \in Procs
        PROVE  /\ proc'[q].step \in Nat /\ proc'[q].at \in Places
               /\ proc'[q].at # "idle" => proc'[q].command \in DOMAIN plan
    <3>1. CASE q = p
          BY <2>2, <3>1 DEF Places
    <3>2. CASE q # p
          BY <1>1, <2>2, <3>2 DEF MoreTypes, Now
    <3>   QED  BY <3>1, <3>2
  <2>5. crossed' \in BOOLEAN /\ kills' = kills /\ named' = named
        BY <1>7 DEF Give
  <2>6. MoreTypes'
        BY <1>1, <2>3, <2>4, <2>5 DEF MoreTypes, Now
  <2>   QED  BY <2>1, <2>6
<1>   QED  BY <1>2, <1>3, <1>4, <1>5, <1>6, <1>7 DEF Next

\* Every variable keeps its type, one client at most is in the writer, and each
\* command is at one of its own places (server.go, store.go, cmd/cmsdb).
THEOREM TypeCorrect == Spec => []TypeOK
<1>1. TInv => TypeOK
  <2>   SUFFICES ASSUME TInv PROVE TypeOK
        OBVIOUS
  <2>1. CommandTypes /\ MoreTypes /\ ServerTypeOK
        BY DEF TInv, CInv
  <2>2. ASSUME NEW f \in Seq(Copy), Len(f) <= 1 PROVE f \in {<<>>} \cup {<<c>> : c \in Copy}
    <3>1. CASE Len(f) = 0
          BY <3>1
    <3>2. CASE Len(f) = 1
      <4>1. f = <<f[1]>> /\ f[1] \in Copy
            BY <3>2
      <4>   QED  BY <4>1
    <3>3. Len(f) = 0 \/ Len(f) = 1
      <4>   DEFINE n == Len(f)
      <4>1. n \in Nat /\ n <= 1
            BY <2>2
      <4>   HIDE DEF n
      <4>2. n = 0 \/ n = 1
            BY <4>1
      <4>   QED  BY <4>2 DEF n
    <3>   QED  BY <3>1, <3>2, <3>3
  <2>3. ASSUME NEW p \in Procs, Running(p)
        PROVE  proc[p].at \in {"open", "succeeding", "failing"} \cup
                 CASE Now(p).does = "init"                   -> {"create", "reopen", "stamp", "applying", "verify"}
                   [] Now(p).does = "migrate"                -> {"stamp", "applying"}
                   [] Now(p).does \in {"seed", "bootstrap"} -> {"next", "insert"}
                   [] Now(p).does = "backup"                 -> {"looking", "removing", "copy", "copying", "checking", "naming"}
    <3>1. /\ proc[p].at \in Places \ Ended /\ Placed(p)
          /\ Now(p).does \in {"init", "migrate", "seed", "bootstrap", "backup"}
      <4>1. proc[p].at \in Places \ Ended /\ Placed(p)
            BY <2>1, <2>3 DEF TInv, CInv, MoreTypes, Running
      <4>2. Now(p) \in Commands \ {serve}
            BY <2>1, <4>1 DEF CommandTypes, Ended
      <4>   QED  BY <4>1, <4>2, CommandsAssumption
    <3>2. CASE Now(p).does = "init"
          BY <3>1, <3>2 DEF Placed, Places, BackupPlaces
    <3>3. CASE Now(p).does = "migrate"
          BY <3>1, <3>3 DEF Placed, Places, BackupPlaces
    <3>4. CASE Now(p).does \in {"seed", "bootstrap"}
          BY <3>1, <3>4 DEF Placed, Places, BackupPlaces
    <3>5. CASE Now(p).does = "backup"
          BY <3>1, <3>5 DEF Placed, Places, BackupPlaces
    <3>   QED  BY <3>1, <3>2, <3>3, <3>4, <3>5
  <2>4. \A p \in Procs : Running(p) => Now(p) \in DOMAIN plan /\ proc[p].step \in Nat
        BY <2>1 DEF MoreTypes, Running, Ended
  <2>5. partial \in {<<>>} \cup {<<c>> : c \in Copy} /\ named \in {<<>>} \cup {<<c>> : c \in Copy}
        BY <2>1, <2>2 DEF CommandTypes, MoreTypes
  <2>   QED  BY <2>1, <2>3, <2>4, <2>5 DEF TypeOK, CommandTypes, MoreTypes
<1>   QED  BY <1>1, InitTInv, NextTInv, PTL DEF Spec

--------------------------------------------------------------------------------
(* Answers: to whom a request is attributed, and what it is answered          *)

\* A set of naturals has the least that the model chooses.
LEMMA LeastOf ==
  ASSUME NEW D \in SUBSET Nat, D # {}
  PROVE  Min(D) \in D /\ \A j \in D : Min(D) <= j
<1>   DEFINE R == {p \in Nat \X Nat : p[1] < p[2]}
<1>1. IsWellFoundedOn(R, Nat)
      BY NatLessThanWellFounded DEF OpToRel
<1>2. PICK i \in D : \A j \in D : ~ (<<j, i>> \in R)
      BY <1>1, WFMin
<1>3. ASSUME NEW j \in D PROVE i <= j
  <2>1. j < i => <<j, i>> \in R
        OBVIOUS
  <2>2. i \in Nat /\ j \in Nat
        OBVIOUS
  <2>   QED  BY <1>2, <2>1, <2>2
<1>   QED  BY <1>3 DEF Min

\* And one below a bound has its greatest.
LEMMA GreatestOf ==
  ASSUME NEW M \in Nat, NEW D \in SUBSET (1..M), D # {}
  PROVE  Max(D) \in D /\ \A j \in D : j <= Max(D)
<1>   DEFINE T == {M - i : i \in D}
<1>1. T \in SUBSET Nat /\ T # {}
      OBVIOUS
<1>   HIDE DEF T
<1>2. Min(T) \in T /\ \A j \in T : Min(T) <= j
      BY <1>1, LeastOf
<1>3. PICK i \in D : Min(T) = M - i
      BY <1>2 DEF T
<1>4. \A j \in D : M - i <= M - j
      BY <1>2, <1>3 DEF T
<1>5. \A j \in D : j <= i
      BY <1>4
<1>   QED  BY <1>5 DEF Max

\* Whoever is last on the way writes nothing down: what the others wrote follows
\* what the sender wrote.
LEMMA AllButLast ==
  ASSUME NEW D, NEW s \in Seq(D), NEW t \in Seq(D), t # <<>>
  PROVE  /\ s \o Front(t) \in Seq(D) /\ Len(s \o Front(t)) = Len(s) + Len(t) - 1
         /\ \A n \in 1..(Len(t) - 1) : (s \o Front(t))[Len(s) + n] = t[n]
<1>   DEFINE f == SubSeq(t, 1, Len(t) - 1)
<1>1. Len(t) \in Nat \ {0} /\ Len(s) \in Nat /\ \A i \in 1..(Len(t) - 1) : t[i] \in D
      OBVIOUS
<1>2. f = [i \in 1..(Len(t) - 1) |-> t[i]]
      BY <1>1
<1>   HIDE DEF f
<1>3. f \in Seq(D) /\ Len(f) = Len(t) - 1
      BY <1>1, <1>2
<1>4. \A i \in 1..(Len(t) - 1) : f[i] = t[i]
      BY <1>1, <1>2
<1>5. /\ s \o f \in Seq(D) /\ Len(s \o f) = Len(s) + Len(t) - 1
      /\ \A n \in 1..(Len(t) - 1) : (s \o f)[Len(s) + n] = t[n]
  <2>0. s \in Seq(D) /\ f \in Seq(D)
        BY <1>3
  <2>1. Len(f) \in Nat /\ Len(s \o f) = Len(s) + Len(f)
        BY <2>0, ConcatProperties
  <2>3. s \o f \in Seq(D)
        BY <2>0, ConcatProperties
  <2>2. \A n \in 1..Len(f) : (s \o f)[Len(s) + n] = f[n]
        BY <2>0
  <2>   QED  BY <1>1, <1>3, <1>4, <2>1, <2>2, <2>3
<1>   QED  BY <1>5 DEF f, Front

\* Whatever the sender claims: what the nearest stranger's neighbour wrote down.
LEMMA NearestIsWitnessed ==
  ASSUME NEW claims \in Seq(Addresses_ \cup {Unreadable}), NEW trip \in Seq(Addresses_), trip # <<>>,
         E!Strangers(trip) # {}
  PROVE  E!resolveClientAddr(Last(trip), claims \o Front(trip)) = trip[Max(E!Strangers(trip))]
<1>   DEFINE S == E!Strangers(trip)
             seen == claims \o Front(trip)
             H == E!Strangers(seen)
             k == Max(S)
<1>1. /\ Len(trip) \in Nat \ {0} /\ Last(trip) = trip[Len(trip)] /\ Len(claims) \in Nat
      /\ S = {n \in 1..Len(trip) : trip[n] \notin Trusted}
      BY DEF Last, E!Strangers
<1>2. trip \in Seq(Addresses_ \cup {Unreadable})
      OBVIOUS
<1>3. /\ seen \in Seq(Addresses_ \cup {Unreadable}) /\ Len(seen) = Len(claims) + Len(trip) - 1
      /\ \A n \in 1..(Len(trip) - 1) : seen[Len(claims) + n] = trip[n]
      BY <1>2, AllButLast
<1>4. H = {n \in 1..Len(seen) : seen[n] \notin Trusted} /\ Len(seen) \in Nat
      BY <1>1, <1>3 DEF E!Strangers
<1>   HIDE DEF seen, S, H
<1>5. k \in S /\ \A m \in S : m <= k
      BY <1>1, GreatestOf DEF S
<1>   HIDE DEF k
<1>6. CASE Last(trip) \notin Trusted
  <2>1. Len(trip) \in S /\ k = Len(trip)
        BY <1>1, <1>5, <1>6
  <2>   QED  BY <1>1, <1>6, <2>1 DEF E!resolveClientAddr, seen, k, S
<1>7. CASE Last(trip) \in Trusted
  <2>1. k \in 1..(Len(trip) - 1) /\ trip[k] \notin Trusted
        BY <1>1, <1>5, <1>7
  <2>2. Len(claims) + k \in H /\ H # {}
    <3>1. Len(claims) + k \in 1..Len(seen)
          BY <1>1, <1>3, <2>1
    <3>2. seen[Len(claims) + k] = trip[k]
          BY <1>3, <2>1
    <3>   QED  BY <1>4, <2>1, <3>1, <3>2
  <2>3. Max(H) \in H /\ Len(claims) + k <= Max(H)
        BY <1>4, <2>2, GreatestOf
  <2>4. Max(H) \in 1..(Len(claims) + Len(trip) - 1) /\ seen[Max(H)] \notin Trusted
        BY <1>3, <1>4, <2>3
  <2>5. PICK m \in 1..(Len(trip) - 1) : Max(H) = Len(claims) + m
    <3>1. Max(H) - Len(claims) \in 1..(Len(trip) - 1) /\ Max(H) = Len(claims) + (Max(H) - Len(claims))
          BY <1>1, <2>1, <2>3, <2>4
    <3>   QED  BY <3>1
  <2>6. m \in S /\ k <= m
    <3>1. seen[Max(H)] = trip[m]
          BY <1>3, <2>5
    <3>2. m \in 1..Len(trip) /\ k <= m
          BY <1>1, <2>1, <2>3, <2>5
    <3>   QED  BY <1>1, <2>4, <3>1, <3>2
  <2>7. m = k
        BY <1>5, <2>1, <2>5, <2>6
  <2>8. seen[Max(H)] = trip[k]
        BY <1>3, <2>5, <2>7
  <2>9. trip[k] # Unreadable
    <3>1. k \in 1..Len(trip) /\ trip[k] \in Addresses_
          BY <1>1, <2>1
    <3>   QED  BY <3>1, EdgeAssumption
  <2>10. E!Nearest(H) = Max(H)
         BY DEF E!Nearest, E!Max, Max
  <2>   DEFINE last == Last(trip)
  <2>   HIDE DEF last, H, seen
  <2>11. E!resolveClientAddr(last, seen) = seen[Max(H)]
         BY <1>7, <2>2, <2>8, <2>9, <2>10 DEF E!resolveClientAddr, H, last
  <2>   QED  BY <2>8, <2>11 DEF seen, k, S, last
<1>   QED  BY <1>6, <1>7

\* A question that may be asked of the edge.
AskedBy(a, route, f) ==
  /\ a \in Asks /\ route \in E!buildRoutes(E!Environment(a.settings) = "development")
  /\ f \in {NoFailure} \cup [of : ToSet(route.handler.steps) \cup {"Authenticate"}, error : a.errors]
  /\ question = [of |-> "request", settings |-> a.settings, route |-> route,
                 request |-> a.request, failure |-> f]

\* What the way of a request is, and whom it is attributed to.
AttributedWhenAsked ==
  question.of = "client" =>
    /\ question.claims \in Seq(Addresses_ \cup {Unreadable})
    /\ question.way \in Seq(Addresses_) /\ question.way # <<>>
    /\ answer # <<>> =>
         answer = <<E!resolveClientAddr(Last(question.way), question.claims \o Front(question.way))>>

\* What a request may be, and what it is answered.
ServedWhenAsked ==
  question.of = "request" =>
    /\ \E a, route, f : AskedBy(a, route, f)
    /\ answer # <<>> =>
         answer = <<E!Serve(question.route, question.request, question.failure,
                            E!Environment(question.settings) = "development")>>

\* Both hold of every first state: nothing is answered, and a question is what
\* EdgeAssumption says of it.
LEMMA NothingAnsweredYet ==
  ASSUME AnswersInit PROVE AttributedWhenAsked /\ ServedWhenAsked
<1>1. answer = <<>>
      BY DEF AnswersInit
<1>2. CASE \E a, b \in Texts_ : question = [of |-> "diff", from |-> a, to |-> b]
      BY <1>2 DEF AttributedWhenAsked, ServedWhenAsked
<1>3. CASE \E s \in Revisions, t \in Trees :
             question = [of |-> "content", schema |-> s[1], later |-> s[2], tree |-> t]
      BY <1>3 DEF AttributedWhenAsked, ServedWhenAsked
<1>4. CASE \E d \in Documents_, f \in Filters, u \in 1..2 :
             question = [of |-> "list", documents |-> d, filter |-> f, reader |-> u]
      BY <1>4 DEF AttributedWhenAsked, ServedWhenAsked
<1>5. CASE \E p \in Paths_, t \in Templates : question = [of |-> "template", path |-> p, files |-> t]
      BY <1>5 DEF AttributedWhenAsked, ServedWhenAsked
<1>6. CASE \E p \in Paths_, d \in Pages_, c \in Channels :
             question = [of |-> "address", path |-> p, page |-> d, channel |-> c]
      BY <1>6 DEF AttributedWhenAsked, ServedWhenAsked
<1>7. ASSUME NEW t \in Travels, question = [of |-> "client", claims |-> t.claims, way |-> t.way]
      PROVE  AttributedWhenAsked /\ ServedWhenAsked
  <2>1. question.of = "client" /\ question.claims = t.claims /\ question.way = t.way
        BY <1>7
  <2>2. t.claims \in Seq(Addresses_ \cup {Unreadable}) /\ t.way \in Seq(Addresses_) \ {<<>>}
        BY EdgeAssumption
  <2>   QED  BY <1>1, <2>1, <2>2 DEF AttributedWhenAsked, ServedWhenAsked
<1>8. ASSUME NEW a \in Asks, NEW route \in E!buildRoutes(E!Environment(a.settings) = "development"),
             NEW f \in {NoFailure} \cup [of : ToSet(route.handler.steps) \cup {"Authenticate"}, error : a.errors],
             question = [of |-> "request", settings |-> a.settings, route |-> route,
                         request |-> a.request, failure |-> f]
      PROVE  AttributedWhenAsked /\ ServedWhenAsked
  <2>1. question.of = "request"
        BY <1>8
  <2>2. AskedBy(a, route, f)
        BY <1>8 DEF AskedBy
  <2>   QED  BY <1>1, <2>1, <2>2 DEF AttributedWhenAsked, ServedWhenAsked
<1>   QED  BY <1>2, <1>3, <1>4, <1>5, <1>6, <1>7, <1>8 DEF AnswersInit

\* And every step keeps them: a question stays, and is answered by what it is of.
LEMMA AnsweredOnce ==
  ASSUME AttributedWhenAsked, ServedWhenAsked, [AnswersNext]_answersVars
  PROVE  AttributedWhenAsked' /\ ServedWhenAsked'
<1>1. CASE UNCHANGED answersVars
      BY <1>1 DEF answersVars, AttributedWhenAsked, ServedWhenAsked, AskedBy
<1>2. ASSUME UNCHANGED question, question.of \notin {"client", "request"}
      PROVE  AttributedWhenAsked' /\ ServedWhenAsked'
      BY <1>2 DEF AttributedWhenAsked, ServedWhenAsked
<1>3. CASE Compare
      BY <1>2, <1>3 DEF Compare, Asked
<1>4. CASE Edit
      BY <1>2, <1>4 DEF Edit, Asked
<1>5. CASE List
      BY <1>2, <1>5 DEF List, Asked
<1>6. CASE FindTemplate
      BY <1>2, <1>6 DEF FindTemplate, Asked
<1>7. CASE Resolve
      BY <1>2, <1>7 DEF Resolve, Asked
<1>8. CASE Attribute
  <2>1. question.of = "client" /\ question' = question
        BY <1>8 DEF Attribute, Asked
  <2>2. answer' = <<E!resolveClientAddr(Last(question.way), question.claims \o Front(question.way))>>
        BY <1>8 DEF Attribute
  <2>   QED  BY <2>1, <2>2 DEF AttributedWhenAsked, ServedWhenAsked
<1>9. CASE Respond
  <2>1. question.of = "request" /\ question' = question
        BY <1>9 DEF Respond, Asked
  <2>2. answer' = <<E!Serve(question.route, question.request, question.failure,
                            E!Environment(question.settings) = "development")>>
        BY <1>9 DEF Respond
  <2>3. (\E a, route, f : AskedBy(a, route, f))'
        BY <2>1 DEF ServedWhenAsked, AskedBy
  <2>   QED  BY <2>1, <2>2, <2>3 DEF AttributedWhenAsked, ServedWhenAsked
<1>   QED  BY <1>1, <1>3, <1>4, <1>5, <1>6, <1>7, <1>8, <1>9 DEF AnswersNext

\* So they hold always.
LEMMA AsAsked == AnswersSpec => [](AttributedWhenAsked /\ ServedWhenAsked)
<1>   DEFINE I == AttributedWhenAsked /\ ServedWhenAsked
<1>1. AnswersInit => I
      BY NothingAnsweredYet
<1>2. I /\ [AnswersNext]_answersVars => I'
      BY AnsweredOnce
<1>   QED  BY <1>1, <1>2, PTL DEF AnswersSpec

\* Nobody chooses what the history says of them, however many proxies there are.
THEOREM NobodyChoosesTheirAddress == AnswersSpec => []AddressIsWitnessed
<1>1. ASSUME AttributedWhenAsked PROVE AddressIsWitnessed
  <2>   SUFFICES ASSUME Answered("client"), E!Strangers(question.way) # {}
                 PROVE  given = question.way[CHOOSE n \in E!Strangers(question.way) :
                                               \A m \in E!Strangers(question.way) : m <= n]
        BY DEF AddressIsWitnessed
  <2>   DEFINE trip == question.way
               claims == question.claims
  <2>1. /\ trip \in Seq(Addresses_) /\ trip # <<>> /\ claims \in Seq(Addresses_ \cup {Unreadable})
        /\ given = E!resolveClientAddr(Last(trip), claims \o Front(trip))
        BY <1>1 DEF AttributedWhenAsked, Answered, given
  <2>   HIDE DEF trip, claims
  <2>2. given = trip[Max(E!Strangers(trip))]
        BY <2>1, NearestIsWitnessed DEF trip
  <2>   QED  BY <2>2 DEF Max, trip
<1>   QED  BY <1>1, AsAsked, PTL

\* The statuses that a handler answers when all goes well.
Successes == {200, 201, 202, 204, 302, 303}

\* A handler changes one thing, and that last but for panels.
ChangesLast(h) ==
  \A n, m \in DOMAIN h.steps : h.steps[n] \in Changes /\ n < m => h.steps[m] \in h.panels

\* A handler says that it changes things: no GET does, and only signing in and
\* redeeming an invitation do it without a session.
WellMade(h) ==
  /\ DOMAIN h.steps \in SUBSET Nat
  /\ h.panels \cap Changes = {} /\ h.ok \in SUBSET Successes /\ h.refusal \in {0, 401}
  /\ \A n \in DOMAIN h.steps :
       /\ h.steps[n] \notin {"none", "Authenticate"}
       /\ h.steps[n] \in Changes => /\ ~E!Safe(h.method)
                                    /\ h.open <=> h.steps[n] \in {"Login", "Redeem"}

\* A handler without panels.
Plainly(method, open, steps, ok) ==
  [method |-> method, open |-> open, steps |-> steps, panels |-> {}, ok |-> ok, refusal |-> 0]

\* What a handler of one thing may be.
MayDo(method, open, x) ==
  x \notin {"none", "Authenticate"} /\ (x \in Changes => ~E!Safe(method) /\ (open <=> x \in {"Login", "Redeem"}))

\* A handler without a step.
LEMMA NothingIsWellMade ==
  ASSUME NEW method, NEW open \in BOOLEAN, NEW ok \in SUBSET Successes
  PROVE  WellMade(Plainly(method, open, <<>>, ok)) /\ ChangesLast(Plainly(method, open, <<>>, ok))
BY DEF WellMade, ChangesLast, Plainly

\* A handler of one step.
LEMMA OneIsWellMade ==
  ASSUME NEW method, NEW open \in BOOLEAN, NEW ok \in SUBSET Successes, NEW x, MayDo(method, open, x)
  PROVE  WellMade(Plainly(method, open, <<x>>, ok)) /\ ChangesLast(Plainly(method, open, <<x>>, ok))
<1>1. DOMAIN <<x>> = {1} /\ <<x>>[1] = x
      OBVIOUS
<1>   QED  BY <1>1 DEF WellMade, ChangesLast, Plainly, MayDo

\* A handler that reads something first.
LEMMA TwoAreWellMade ==
  ASSUME NEW method, NEW open \in BOOLEAN, NEW ok \in SUBSET Successes, NEW x, NEW y,
         x \notin Changes \cup {"none", "Authenticate"}, MayDo(method, open, y)
  PROVE  WellMade(Plainly(method, open, <<x, y>>, ok)) /\ ChangesLast(Plainly(method, open, <<x, y>>, ok))
<1>1. DOMAIN <<x, y>> = {1, 2} /\ <<x, y>>[1] = x /\ <<x, y>>[2] = y
      OBVIOUS
<1>   QED  BY <1>1 DEF WellMade, ChangesLast, Plainly, MayDo

\* The steps that only read.
Reads == {"input", "Invitations", "Invitation", "Users", "User", "ResolveFilter", "ListDocuments", "Document",
          "Versions", "GetVersion", "Diff", "DocumentEvents", "Transitions", "Queue", "Workflows", "Comments",
          "Approvals", "Jobs", "Sites", "Categories", "Category", "OutputChannels", "OutputChannel",
          "ElementTypes", "ElementType", "DocumentCategories", "DocumentURIs", "PreviewOpen", "Resources",
          "AlertRules", "AlertRule", "Notifications"}

\* The steps that only read change nothing, and no failure is called what they are.
LEMMA ReadsAreReads == \A x \in Reads : x \notin Changes \cup {"none", "Authenticate"}
BY DEF Reads, Changes

\* One that asks for a session.
Does(method, steps, ok) == Plainly(method, FALSE, steps, ok)

\* What the API answers a GET with.
LEMMA ApiReads ==
  /\ \A x \in Reads : WellMade(Does("GET", <<x>>, {200})) /\ ChangesLast(Does("GET", <<x>>, {200}))
  /\ \A x, y \in Reads : WellMade(Does("GET", <<x, y>>, {200})) /\ ChangesLast(Does("GET", <<x, y>>, {200}))
<1>1. \A x \in Reads : MayDo("GET", FALSE, x)
      BY ReadsAreReads DEF MayDo
<1>2. {200} \in SUBSET Successes
      BY DEF Successes
<1>   QED  BY <1>1, <1>2, ReadsAreReads, OneIsWellMade, TwoAreWellMade DEF Does

\* What the API does for the other methods.
LEMMA ApiChanges ==
  ASSUME NEW x \in Changes \ {"Login", "Redeem"}, NEW method \in {"POST", "PATCH", "PUT", "DELETE"},
         NEW ok \in SUBSET Successes
  PROVE  /\ WellMade(Does(method, <<x>>, ok)) /\ ChangesLast(Does(method, <<x>>, ok))
         /\ WellMade(Does(method, <<"input", x>>, ok)) /\ ChangesLast(Does(method, <<"input", x>>, ok))
<1>1. x \notin {"none", "Authenticate"} /\ "input" \in Reads
      BY DEF Changes, Reads
<1>2. MayDo(method, FALSE, x)
      BY <1>1 DEF MayDo, E!Safe
<1>   QED  BY <1>1, <1>2, ReadsAreReads, OneIsWellMade, TwoAreWellMade DEF Does

\* A handler of the API.
Good(h) == WellMade(h) /\ ChangesLast(h) /\ h.refusal = 0

\* The same handler, field by field.
SameAs(g, h) ==
  /\ g.method = h.method /\ g.open = h.open /\ g.steps = h.steps
  /\ g.panels = h.panels /\ g.ok = h.ok /\ g.refusal = h.refusal

\* Only the fields of a handler count.
LEMMA SameFields ==
  ASSUME NEW g, NEW h, SameAs(g, h)
  PROVE  Good(g) => Good(h)
BY DEF SameAs, Good, WellMade, ChangesLast

\* Every handler of the JSON API is good: the table, a kind of handler at a time
\* (internal/api, Register and RegisterPreview).
LEMMA ApiIsWellMade == \A h \in E!Api!Register \cup E!Api!RegisterPreview : Good(h)
<1>0. \A method, steps, ok : /\ E!Api!Handler(method, steps, ok) = Does(method, steps, ok)
                             /\ Does(method, steps, ok).refusal = 0
      BY DEF E!Api!Handler, Does, Plainly
<1>1. \A x \in Reads : Good(E!Api!Gets(<<x>>))
      BY <1>0, ApiReads DEF E!Api!Gets, Good
<1>2. \A x, y \in Reads : Good(E!Api!Gets(<<x, y>>))
      BY <1>0, ApiReads DEF E!Api!Gets, Good
<1>   DEFINE C == Changes \ {"Login", "Redeem"}
<1>3. \A x \in C : \A method \in {"POST", "PATCH", "PUT", "DELETE"}, ok \in SUBSET Successes :
        Good(E!Api!Handler(method, <<x>>, ok)) /\ Good(E!Api!Handler(method, <<"input", x>>, ok))
      BY <1>0, ApiChanges DEF Good
<1>s. /\ 200 \in Successes /\ 201 \in Successes /\ 204 \in Successes
      /\ {200} \in SUBSET Successes /\ {200, 201} \in SUBSET Successes
      /\ {200, 202} \in SUBSET Successes /\ {200, 204} \in SUBSET Successes
      BY DEF Successes
<1>a. \A c \in Successes : {c} \in SUBSET Successes
      OBVIOUS
<1>c. \A x \in C : \A c \in Successes : Good(E!Api!Posts(<<x>>, c)) /\ Good(E!Api!Posts(<<"input", x>>, c))
  <2>   HIDE DEF C
  <2>   QED  BY <1>3, <1>a DEF E!Api!Posts
<1>d. \A x \in C : \A c \in Successes : Good(E!Api!Deletes(<<x>>, c))
  <2>   HIDE DEF C
  <2>   QED  BY <1>3, <1>a DEF E!Api!Deletes
<1>b. /\ \A x \in C : Good(E!Api!Posts(<<x>>, 200))
      /\ \A x \in C : Good(E!Api!Posts(<<"input", x>>, 200))
  <2>   HIDE DEF C
  <2>   QED  BY <1>c, <1>s
<1>e. \A x \in C : Good(E!Api!Posts(<<"input", x>>, 201))
  <2>   HIDE DEF C
  <2>   QED  BY <1>c, <1>s
<1>f. \A x \in C : Good(E!Api!Posts(<<"input", x>>, 204))
  <2>   HIDE DEF C
  <2>   QED  BY <1>c, <1>s
<1>g. \A x \in C : Good(E!Api!Deletes(<<x>>, 200)) /\ Good(E!Api!Deletes(<<x>>, 204))
  <2>   HIDE DEF C
  <2>   QED  BY <1>d, <1>s
<1>p. \A x \in C : Good(E!Api!Patches(<<"input", x>>)) /\ Good(E!Api!Puts(<<"input", x>>))
      BY <1>3, <1>s DEF E!Api!Patches, E!Api!Puts
<1>4. /\ Good(E!Api!createSession) /\ Good(E!Api!redeemInvitation) /\ Good(E!Api!me)
      /\ Good(E!Api!listQueues) /\ Good(E!Api!listDocuments) /\ Good(E!Api!servePreview)
  <2>1. Good(E!Api!me) /\ Good(E!Api!listQueues)
    <3>1. {200} \in SUBSET Successes
          BY DEF Successes
    <3>2. Good(E!Api!Gets(<<>>))
          BY <1>0, <3>1, NothingIsWellMade DEF E!Api!Gets, Good, Does
    <3>   QED  BY <3>2 DEF E!Api!me, E!Api!listQueues
  <2>2. Good(E!Api!servePreview)
        BY <1>1 DEF E!Api!servePreview, Reads
  <2>3. \A x \in {"Login", "Redeem"} : Good(E!Api!Open(E!Api!Posts(<<"input", x>>, 201)))
    <3>   SUFFICES ASSUME NEW x \in {"Login", "Redeem"}
                   PROVE  Good(E!Api!Open(E!Api!Posts(<<"input", x>>, 201)))
          OBVIOUS
    <3>   DEFINE s == <<"input", x>>
                 h == E!Api!Open(E!Api!Posts(s, 201))
                 g == Plainly("POST", TRUE, s, {201})
    <3>1. SameAs(g, h)
      <4>   HIDE DEF s
      <4>1. /\ h.method = "POST" /\ h.open = TRUE /\ h.steps = s
            /\ h.panels = {} /\ h.ok = {201} /\ h.refusal = 0
            BY DEF E!Api!Open, E!Api!Posts, E!Api!Handler
      <4>2. /\ g.method = "POST" /\ g.open = TRUE /\ g.steps = s
            /\ g.panels = {} /\ g.ok = {201} /\ g.refusal = 0
            BY DEF Plainly
      <4>   HIDE DEF g, h
      <4>   QED  BY <4>1, <4>2 DEF SameAs
    <3>2. MayDo("POST", TRUE, x) /\ {201} \in SUBSET Successes /\ "input" \in Reads
          BY DEF MayDo, E!Safe, Successes, Reads
    <3>3. g.refusal = 0
          BY DEF Plainly
    <3>4. Good(g)
          BY <3>2, <3>3, ReadsAreReads, TwoAreWellMade DEF Good
    <3>   HIDE DEF g, h
    <3>5. Good(h)
          BY <3>1, <3>4, SameFields
    <3>   QED  BY <3>5 DEF h, s
  <2>4. Good(E!Api!createSession) /\ Good(E!Api!redeemInvitation)
        BY <2>3 DEF E!Api!createSession, E!Api!redeemInvitation
  <2>5. Good(E!Api!listDocuments)
    <3>   DEFINE s == <<"input", "ResolveFilter", "ListDocuments">>
                 h == Does("GET", s, {200})
    <3>1. DOMAIN s = 1..3 /\ \A n \in DOMAIN s : s[n] \in Reads
          BY DEF Reads
    <3>2. E!Api!listDocuments = h
          BY <1>0 DEF E!Api!listDocuments, E!Api!Gets
    <3>   HIDE DEF s
    <3>3. /\ h.steps = s /\ h.panels = {} /\ h.ok = {200} /\ h.refusal = 0
          BY DEF Does, Plainly
    <3>   HIDE DEF h
    <3>4. h.ok \in SUBSET Successes
          BY <3>3 DEF Successes
    <3>5. \A n \in DOMAIN h.steps : h.steps[n] \notin Changes \cup {"none", "Authenticate"}
          BY <3>1, <3>3, ReadsAreReads
    <3>6. DOMAIN h.steps \in SUBSET Nat
          BY <3>1, <3>3
    <3>   QED  BY <3>2, <3>3, <3>4, <3>5, <3>6 DEF Good, WellMade, ChangesLast
  <2>   QED  BY <2>1, <2>2, <2>4, <2>5
<1>5. /\ Good(E!Api!showInvitation) /\ Good(E!Api!listUsers) /\ Good(E!Api!showUser)
      /\ Good(E!Api!showDocument) /\ Good(E!Api!listVersions) /\ Good(E!Api!listTransitions)
      /\ Good(E!Api!showQueue)
      BY <1>1 DEF E!Api!showInvitation, E!Api!listUsers, E!Api!showUser, E!Api!showDocument,
         E!Api!listVersions, E!Api!listTransitions, E!Api!showQueue, Reads
<1>6. /\ Good(E!Api!listWorkflows) /\ Good(E!Api!listComments) /\ Good(E!Api!listSites)
      /\ Good(E!Api!showCategory) /\ Good(E!Api!showOutputChannel) /\ Good(E!Api!listElementTypes)
      /\ Good(E!Api!showElementType)
      BY <1>1 DEF E!Api!listWorkflows, E!Api!listComments, E!Api!listSites, E!Api!showCategory,
         E!Api!showOutputChannel, E!Api!listElementTypes, E!Api!showElementType, Reads
<1>7. /\ Good(E!Api!listDocumentCategories) /\ Good(E!Api!documentURIs) /\ Good(E!Api!documentResources)
      /\ Good(E!Api!listAlertRules) /\ Good(E!Api!showAlertRule)
      BY <1>1 DEF E!Api!listDocumentCategories, E!Api!documentURIs, E!Api!documentResources,
         E!Api!listAlertRules, E!Api!showAlertRule, Reads
<1>8. /\ Good(E!Api!listInvitations) /\ Good(E!Api!showVersion) /\ Good(E!Api!diffDocument)
      /\ Good(E!Api!documentEvents) /\ Good(E!Api!listApprovals) /\ Good(E!Api!listJobs)
      BY <1>2 DEF E!Api!listInvitations, E!Api!showVersion, E!Api!diffDocument, E!Api!documentEvents,
         E!Api!listApprovals, E!Api!listJobs, Reads
<1>9. /\ Good(E!Api!listCategories) /\ Good(E!Api!listOutputChannels) /\ Good(E!Api!listNotifications)
      BY <1>2 DEF E!Api!listCategories, E!Api!listOutputChannels, E!Api!listNotifications, Reads
<1>10. /\ "Approve" \in C /\ "Assign" \in C /\ "AssignRole" \in C
       /\ "CancelCheckout" \in C /\ "Checkin" \in C /\ "Checkout" \in C
       /\ "Comment" \in C /\ "CreateAlertRule" \in C /\ "CreateCategory" \in C
       /\ "CreateDocument" \in C /\ "CreateElementType" \in C /\ "CreateGrant" \in C
       /\ "CreateInvitation" \in C /\ "CreateOutputChannel" \in C /\ "DeleteAlertRule" \in C
       /\ "DeleteCategory" \in C /\ "FileDocument" \in C /\ "Logout" \in C
       /\ "MarkNotificationRead" \in C /\ "MoveCategory" \in C /\ "Preview" \in C
       /\ "Publish" \in C /\ "ResolveComment" \in C /\ "RetryJob" \in C
       /\ "Revert" \in C /\ "RevokeInvitation" \in C /\ "SetDue" \in C
       /\ "Transition" \in C /\ "Unassign" \in C /\ "UpdateAlertRule" \in C
       /\ "UpdateDraft" \in C /\ "UpdateElementType" \in C /\ "UpdateOutputChannel" \in C
       /\ "UpdateSite" \in C /\ "WithdrawApproval" \in C
      BY DEF Changes
<1>   HIDE DEF C
<1>11. /\ Good(E!Api!cancelCheckout) /\ Good(E!Api!unassignDocument) /\ Good(E!Api!clearDue)
       /\ Good(E!Api!withdrawApproval)
      BY <1>g, <1>10 DEF E!Api!cancelCheckout, E!Api!unassignDocument, E!Api!clearDue,
         E!Api!withdrawApproval
<1>12. /\ Good(E!Api!deleteCurrentSession) /\ Good(E!Api!deleteCategory) /\ Good(E!Api!deleteAlertRule)
      BY <1>g, <1>10 DEF E!Api!deleteCurrentSession, E!Api!deleteCategory, E!Api!deleteAlertRule
<1>13. Good(E!Api!publishDocument)
  <2>   DEFINE ok == {200, 202}
  <2>1. ok \in SUBSET Successes /\ "Publish" \in C
        BY <1>s, <1>10
  <2>   HIDE DEF ok
  <2>2. Good(E!Api!Handler("POST", <<"Publish">>, ok)) /\ Good(E!Api!Handler("POST", <<"input", "Publish">>, ok))
        BY <1>3, <2>1
  <2>   QED  BY <2>2 DEF E!Api!publishDocument, ok
<1>14. Good(E!Api!approveDocument)
  <2>   DEFINE ok == {200, 201}
  <2>1. ok \in SUBSET Successes /\ "Approve" \in C
        BY <1>s, <1>10
  <2>   HIDE DEF ok
  <2>2. Good(E!Api!Handler("POST", <<"Approve">>, ok)) /\ Good(E!Api!Handler("POST", <<"input", "Approve">>, ok))
        BY <1>3, <2>1
  <2>   QED  BY <2>2 DEF E!Api!approveDocument, ok
<1>15. Good(E!Api!revertDocument)
  <2>   DEFINE ok == {200, 204}
  <2>1. ok \in SUBSET Successes /\ "Revert" \in C
        BY <1>s, <1>10
  <2>   HIDE DEF ok
  <2>2. Good(E!Api!Handler("POST", <<"Revert">>, ok)) /\ Good(E!Api!Handler("POST", <<"input", "Revert">>, ok))
        BY <1>3, <2>1
  <2>   QED  BY <2>2 DEF E!Api!revertDocument, ok
<1>16. /\ Good(E!Api!patchDocument) /\ Good(E!Api!patchSite) /\ Good(E!Api!patchCategory)
       /\ Good(E!Api!patchOutputChannel) /\ Good(E!Api!patchElementType) /\ Good(E!Api!patchAlertRule)
      BY <1>p, <1>10 DEF E!Api!patchDocument, E!Api!patchSite, E!Api!patchCategory,
         E!Api!patchOutputChannel, E!Api!patchElementType, E!Api!patchAlertRule
<1>17. /\ Good(E!Api!revokeInvitation) /\ Good(E!Api!checkinDocument) /\ Good(E!Api!doTransition)
       /\ Good(E!Api!assignDocument) /\ Good(E!Api!previewDocument)
      BY <1>b, <1>10 DEF E!Api!revokeInvitation, E!Api!checkinDocument, E!Api!doTransition,
         E!Api!assignDocument, E!Api!previewDocument
<1>18. /\ Good(E!Api!createGrant) /\ Good(E!Api!createInvitation)
       /\ Good(E!Api!createDocument) /\ Good(E!Api!createComment)
      BY <1>e, <1>10 DEF E!Api!createGrant, E!Api!createInvitation, E!Api!createDocument,
         E!Api!createComment
<1>22. /\ Good(E!Api!createCategory) /\ Good(E!Api!createOutputChannel)
       /\ Good(E!Api!createElementType) /\ Good(E!Api!createAlertRule)
      BY <1>e, <1>10 DEF E!Api!createCategory, E!Api!createOutputChannel, E!Api!createElementType,
         E!Api!createAlertRule
<1>19. Good(E!Api!assignRole)
      BY <1>f, <1>10 DEF E!Api!assignRole
<1>20. /\ Good(E!Api!checkoutDocument) /\ Good(E!Api!resolveComment) /\ Good(E!Api!retryJob)
       /\ Good(E!Api!readNotification)
      BY <1>b, <1>10 DEF E!Api!checkoutDocument, E!Api!resolveComment, E!Api!retryJob,
         E!Api!readNotification
<1>21. /\ Good(E!Api!setDue) /\ Good(E!Api!fileDocument)
      BY <1>p, <1>10 DEF E!Api!setDue, E!Api!fileDocument
<1>   QED  BY <1>4, <1>5, <1>6, <1>7, <1>8, <1>9, <1>11, <1>12, <1>13, <1>14, <1>15, <1>16, <1>17, <1>18,
              <1>19, <1>20, <1>21, <1>22 DEF E!Api!Register, E!Api!RegisterPreview

\* A handler of the pages, but for one.
Fine(h) == WellMade(h) /\ ChangesLast(h)

\* A page that only shows things.
LEMMA ShowsThings ==
  ASSUME NEW h, h.steps \in Seq(Reads), h.panels \in SUBSET Reads, h.ok \in SUBSET Successes, h.refusal = 0
  PROVE  Fine(h)
<1>1. \A n \in DOMAIN h.steps : h.steps[n] \notin Changes \cup {"none", "Authenticate"}
      BY ReadsAreReads
<1>2. DOMAIN h.steps \in SUBSET Nat
      OBVIOUS
<1>3. h.panels \cap Changes = {}
      BY ReadsAreReads
<1>   QED  BY <1>1, <1>2, <1>3 DEF Fine, WellMade, ChangesLast

\* A form whose last step changes things, drawn again with the panel y.
LEMMA ThenAPanel ==
  ASSUME NEW g, NEW h, NEW S, NEW y \in Reads, Fine(g), g.panels = {}, g.steps \in Seq(S),
         h.steps = g.steps \o <<y>>, h.panels = {y}, h.method = g.method, h.open = g.open,
         h.ok \in SUBSET Successes, h.refusal = 0
  PROVE  Fine(h)
<1>   DEFINE s == g.steps
             N == Len(s)
             t == h.steps
<1>1. N \in Nat /\ DOMAIN s = 1..N
      OBVIOUS
<1>2. DOMAIN t = 1..(N + 1) /\ (\A n \in 1..N : t[n] = s[n]) /\ t[N + 1] = y
      OBVIOUS
<1>3. y \notin Changes \cup {"none", "Authenticate"}
      BY ReadsAreReads
<1>4. /\ \A n \in 1..N : s[n] \notin {"none", "Authenticate"}
      /\ \A n \in 1..N : s[n] \in Changes => ~E!Safe(g.method) /\ (g.open <=> s[n] \in {"Login", "Redeem"})
      /\ \A n, m \in 1..N : ~(s[n] \in Changes /\ n < m)
  <2>1. WellMade(g)
        BY DEF Fine
  <2>2. \A n, m \in DOMAIN g.steps : g.steps[n] \in Changes /\ n < m => g.steps[m] \in g.panels
        BY DEF Fine, ChangesLast
  <2>3. \A n, m \in 1..N : ~(s[n] \in Changes /\ n < m)
        BY <1>1, <2>2
  <2>4. \A n \in 1..N : /\ s[n] \notin {"none", "Authenticate"}
                        /\ s[n] \in Changes => ~E!Safe(g.method) /\ (g.open <=> s[n] \in {"Login", "Redeem"})
        BY <1>1, <2>1 DEF WellMade
  <2>   HIDE DEF s
  <2>   QED  BY <2>3, <2>4
<1>5. h.method = g.method /\ h.open = g.open /\ h.panels = {y}
      OBVIOUS
<1>   HIDE DEF s, N, t
<1>6. \A n \in 1..(N + 1) : n \in 1..N \/ n = N + 1
      BY <1>1
<1>7. \A n \in DOMAIN t : /\ t[n] \notin {"none", "Authenticate"}
                          /\ t[n] \in Changes => /\ ~E!Safe(h.method)
                                                 /\ h.open <=> t[n] \in {"Login", "Redeem"}
      BY <1>2, <1>3, <1>4, <1>5, <1>6
<1>8. \A n, m \in DOMAIN t : t[n] \in Changes /\ n < m => t[m] \in h.panels
  <2>   SUFFICES ASSUME NEW n \in 1..(N + 1), NEW m \in 1..(N + 1), t[n] \in Changes, n < m
                 PROVE  t[m] \in h.panels
        BY <1>2
  <2>1. n \in 1..N
        BY <1>2, <1>3, <1>6
  <2>2. m \notin 1..N
        BY <1>2, <1>4, <2>1
  <2>   QED  BY <1>2, <1>5, <1>6, <2>2
<1>9. DOMAIN t \in SUBSET Nat
      BY <1>1, <1>2
<1>10. h.panels \cap Changes = {}
       BY <1>3, <1>5
<1>11. WellMade(h)
  <2>1. h.refusal \in {0, 401} /\ h.ok \in SUBSET Successes
        OBVIOUS
  <2>2. t = h.steps
        BY DEF t
  <2>3. h.panels \cap Changes = {} /\ h.ok \in SUBSET Successes
        BY <1>10
  <2>4. /\ DOMAIN h.steps \in SUBSET Nat
        BY <1>9, <2>2
  <2>5. \A n \in DOMAIN h.steps : h.steps[n] \notin {"none", "Authenticate"}
        BY <1>7, <2>2
  <2>6. ASSUME NEW n \in DOMAIN h.steps, h.steps[n] \in Changes
        PROVE  ~E!Safe(h.method) /\ (h.open <=> h.steps[n] \in {"Login", "Redeem"})
        BY <1>7, <2>2, <2>6
  <2>   QED  BY <2>1, <2>3, <2>4, <2>5, <2>6 DEF WellMade
<1>12. ChangesLast(h)
       BY <1>8 DEF ChangesLast, t
<1>    QED  BY <1>11, <1>12 DEF Fine

\* A page with its panels.
LEMMA PageIsFine ==
  ASSUME NEW s \in Seq(Reads), NEW p \in Seq(Reads)
  PROVE  Fine(E!Pages!Page(s, p))
<1>   DEFINE q == E!Pages!base \o p
             h == E!Pages!Page(s, p)
<1>1. q \in Seq(Reads)
      BY DEF E!Pages!base, Reads
<1>   HIDE DEF q
<1>2. h.steps = s \o q /\ h.panels = {q[i] : i \in DOMAIN q} /\ h.ok = {200} /\ h.refusal = 0
      BY DEF E!Pages!Page, E!Pages!WithPanels, E!Pages!Handler, q
<1>   HIDE DEF h
<1>3. h.steps \in Seq(Reads) /\ h.panels \in SUBSET Reads
      BY <1>1, <1>2
<1>4. h.ok \in SUBSET Successes
      BY <1>2 DEF Successes
<1>5. Fine(h)
      BY <1>2, <1>3, <1>4, ShowsThings
<1>   QED  BY <1>5 DEF h

\* A form, and one that HTMX swaps a panel for.
LEMMA FormIsFine ==
  ASSUME NEW x \in Changes \ {"Login", "Redeem"}
  PROVE  /\ Fine(E!Pages!Form(<<x>>)) /\ Fine(E!Pages!Form(<<"input", x>>))
         /\ \A y \in Reads : /\ Fine(E!Pages!Swaps(E!Pages!Form(<<x>>), <<y>>))
                             /\ Fine(E!Pages!Swaps(E!Pages!Form(<<"input", x>>), <<y>>))
                             /\ Fine(E!Pages!WithPanels(E!Pages!Handler("POST", <<"input", x>>, {200}), <<y>>))
<1>1. \A s : E!Pages!Form(s) = Does("POST", s, {303}) /\ E!Pages!Handler("POST", s, {200}) = Does("POST", s, {200})
      BY DEF E!Pages!Form, E!Pages!Handler, Does, Plainly
<1>2. {303} \in SUBSET Successes /\ {200, 303} \in SUBSET Successes /\ {200} \in SUBSET Successes
      BY DEF Successes
<1>3. ASSUME NEW s \in {<<x>>, <<"input", x>>}, NEW ok \in SUBSET Successes PROVE Fine(Does("POST", s, ok))
      BY <1>3, ApiChanges DEF Fine
<1>4. ASSUME NEW s \in {<<x>>, <<"input", x>>}, NEW y \in Reads, NEW h,
             h.steps = s \o <<y>>, h.panels = {y}, h.method = "POST", h.open = FALSE,
             h.ok \in SUBSET Successes, h.refusal = 0
      PROVE  Fine(h)
  <2>   DEFINE g == Does("POST", s, {303})
  <2>1. Fine(g)
        BY <1>2, <1>3
  <2>2. /\ g.steps = s /\ g.panels = {} /\ g.method = "POST" /\ g.open = FALSE
        BY DEF Does, Plainly
  <2>   HIDE DEF g
  <2>3. s \in Seq({x, "input"})
    <3>1. <<x>> \in Seq({x, "input"})
          OBVIOUS
    <3>2. <<"input", x>> \in Seq({x, "input"})
          OBVIOUS
    <3>   QED  BY <3>1, <3>2
  <2>   QED  BY <1>4, <2>1, <2>2, <2>3, ThenAPanel
<1>5. ASSUME NEW s \in {<<x>>, <<"input", x>>}, NEW y \in Reads PROVE Fine(E!Pages!Swaps(E!Pages!Form(s), <<y>>))
  <2>   DEFINE h == E!Pages!Swaps(E!Pages!Form(s), <<y>>)
               ok == {200, 303}
  <2>   HIDE DEF ok
  <2>1. /\ h.steps = s \o <<y>> /\ h.panels = {<<y>>[p] : p \in DOMAIN <<y>>}
        /\ h.method = "POST" /\ h.open = FALSE /\ h.ok = ok /\ h.refusal = 0
        BY DEF E!Pages!Swaps, E!Pages!WithPanels, E!Pages!Form, E!Pages!Handler, ok
  <2>   HIDE DEF h
  <2>2. h.panels = {y}
        BY <2>1
  <2>3. Fine(h)
    <3>1. h.ok \in SUBSET Successes /\ s \in {<<x>>, <<"input", x>>}
          BY <1>2, <2>1 DEF ok
    <3>   QED  BY <1>4, <2>1, <2>2, <3>1
  <2>   QED  BY <2>3 DEF h
<1>6. ASSUME NEW y \in Reads PROVE Fine(E!Pages!WithPanels(E!Pages!Handler("POST", <<"input", x>>, {200}), <<y>>))
  <2>   DEFINE s == <<"input", x>>
               ok == {200}
               h == E!Pages!WithPanels(E!Pages!Handler("POST", s, ok), <<y>>)
  <2>   HIDE DEF ok, s
  <2>1. /\ h.steps = s \o <<y>> /\ h.panels = {<<y>>[p] : p \in DOMAIN <<y>>}
        /\ h.method = "POST" /\ h.open = FALSE /\ h.ok = ok /\ h.refusal = 0
        BY DEF E!Pages!WithPanels, E!Pages!Handler
  <2>   HIDE DEF h
  <2>2. h.panels = {y}
        BY <2>1
  <2>3. Fine(h)
    <3>1. h.ok \in SUBSET Successes /\ s \in {<<x>>, <<"input", x>>}
          BY <1>2, <2>1 DEF ok, s
    <3>   QED  BY <1>4, <2>1, <2>2, <3>1
  <2>   QED  BY <2>3 DEF h, s, ok
<1>7. Fine(E!Pages!Form(<<x>>)) /\ Fine(E!Pages!Form(<<"input", x>>))
      BY <1>1, <1>2, <1>3
<1>   QED  BY <1>5, <1>6, <1>7

\* The same steps, answered otherwise.
LEMMA AnsweredOtherwise ==
  ASSUME NEW g, NEW h, Fine(g), h.steps = g.steps, h.panels = g.panels, h.method = g.method, h.open = g.open,
         h.ok \in SUBSET Successes, h.refusal \in {0, 401}
  PROVE  Fine(h)
<1>1. WellMade(h)
      BY DEF Fine, WellMade
<1>2. ChangesLast(h)
      BY DEF Fine, ChangesLast
<1>   QED  BY <1>1, <1>2 DEF Fine

\* Reading, and one step x that changes things.
LEMMA OneStepChanges ==
  ASSUME NEW h, NEW x \in Changes \ {"Login", "Redeem"}, h.steps \in Seq(Reads \cup {x}),
         h.panels \in SUBSET Reads, h.method = "POST", h.open = FALSE,
         h.ok \in SUBSET Successes, h.refusal = 0
  PROVE  /\ WellMade(h)
         /\ (\A n \in DOMAIN h.steps : h.steps[n] = x => n = Len(h.steps)) => ChangesLast(h)
<1>   DEFINE s == h.steps
<1>1. MayDo("POST", FALSE, x)
      BY DEF MayDo, E!Safe, Changes
<1>2. DOMAIN s = 1..Len(s) /\ Len(s) \in Nat /\ \A n \in DOMAIN s : s[n] = x \/ s[n] \in Reads
      OBVIOUS
<1>3. h.panels \cap Changes = {}
      BY ReadsAreReads
<1>   HIDE DEF s
<1>4. \A n \in DOMAIN s : s[n] \notin {"none", "Authenticate"}
      BY <1>1, <1>2, ReadsAreReads DEF MayDo
<1>5. ASSUME NEW n \in DOMAIN s, s[n] \in Changes
      PROVE  s[n] = x /\ ~E!Safe(h.method) /\ (h.open <=> s[n] \in {"Login", "Redeem"})
  <2>1. s[n] = x
        BY <1>2, <1>5, ReadsAreReads
  <2>   QED  BY <1>1, <2>1 DEF MayDo
<1>6. DOMAIN s \in SUBSET Nat
      BY <1>2
<1>7. WellMade(h)
  <2>1. h.refusal \in {0, 401} /\ h.ok \in SUBSET Successes
        OBVIOUS
  <2>   QED  BY <1>3, <1>4, <1>5, <1>6, <2>1 DEF WellMade, s
<1>8. ASSUME \A n \in DOMAIN s : s[n] = x => n = Len(s) PROVE ChangesLast(h)
  <2>1. \A n, m \in DOMAIN s : s[n] \in Changes => ~(n < m)
        BY <1>2, <1>5, <1>8
  <2>   QED  BY <2>1 DEF ChangesLast, s
<1>   QED  BY <1>7, <1>8 DEF s

\* Every handler of the HTML UI is well made, and all but one change things last
\* (internal/web, Register).
LEMMA PagesAreWellMade ==
  \A h \in E!Pages!Register : WellMade(h) /\ (h # E!Pages!createInvitation => ChangesLast(h))
<1>   DEFINE C == Changes \ {"Login", "Redeem"}
             P(h) == Fine(h)
<1>1. /\ Fine(E!Pages!dashboard) /\ Fine(E!Pages!queues) /\ Fine(E!Pages!queue) /\ Fine(E!Pages!documents)
      /\ Fine(E!Pages!jobs) /\ Fine(E!Pages!users) /\ Fine(E!Pages!invitations) /\ Fine(E!Pages!admin)
      /\ Fine(E!Pages!history) /\ Fine(E!Pages!diff) /\ Fine(E!Pages!newDocumentForm) /\ Fine(E!Pages!editor)
  <2>1. \A x, y, z \in Reads : /\ <<>> \in Seq(Reads) /\ <<x>> \in Seq(Reads) /\ <<x, y>> \in Seq(Reads)
                               /\ <<x, y, z>> \in Seq(Reads)
        OBVIOUS
  <2>2. /\ "ResolveFilter" \in Reads /\ "ListDocuments" \in Reads /\ "Queue" \in Reads /\ "input" \in Reads
        /\ "Workflows" \in Reads /\ "Jobs" \in Reads /\ "Users" \in Reads /\ "Invitations" \in Reads
        /\ "Sites" \in Reads /\ "OutputChannels" \in Reads /\ "ElementTypes" \in Reads /\ "Versions" \in Reads
        /\ "DocumentEvents" \in Reads /\ "Diff" \in Reads /\ "Document" \in Reads /\ "ElementType" \in Reads
        BY DEF Reads
  <2>3. Fine(E!Pages!dashboard) /\ Fine(E!Pages!queues) /\ Fine(E!Pages!queue)
        BY <2>1, <2>2, PageIsFine DEF E!Pages!dashboard, E!Pages!queues, E!Pages!queue
  <2>4. Fine(E!Pages!documents) /\ Fine(E!Pages!jobs) /\ Fine(E!Pages!users)
        BY <2>1, <2>2, PageIsFine DEF E!Pages!documents, E!Pages!jobs, E!Pages!users
  <2>5. Fine(E!Pages!invitations) /\ Fine(E!Pages!admin) /\ Fine(E!Pages!history)
        BY <2>1, <2>2, PageIsFine DEF E!Pages!invitations, E!Pages!admin, E!Pages!history
  <2>6. Fine(E!Pages!diff) /\ Fine(E!Pages!newDocumentForm) /\ Fine(E!Pages!editor)
        BY <2>1, <2>2, PageIsFine DEF E!Pages!diff, E!Pages!newDocumentForm, E!Pages!editor
  <2>   QED  BY <2>3, <2>4, <2>5, <2>6
<1>2. Fine(E!Pages!document)
  <2>   DEFINE p == <<"ElementType">> \o E!Pages!actionBar \o E!Pages!approvalPanel \o E!Pages!threadPanel
               q == <<"DocumentCategories", "Categories", "DocumentURIs", "Resources", "OutputChannels">>
  <2>1. p \in Seq(Reads)
    <3>1. /\ <<"ElementType">> \in Seq(Reads) /\ E!Pages!actionBar \in Seq(Reads)
          /\ E!Pages!approvalPanel \in Seq(Reads) /\ E!Pages!threadPanel \in Seq(Reads)
          BY DEF Reads, E!Pages!actionBar, E!Pages!approvalPanel, E!Pages!threadPanel
    <3>   QED  BY <3>1
  <2>2. q \in Seq(Reads)
        BY DEF Reads
  <2>3. <<"Document">> \in Seq(Reads)
        BY DEF Reads
  <2>   HIDE DEF p, q
  <2>4. p \o q \in Seq(Reads)
        BY <2>1, <2>2
  <2>5. Fine(E!Pages!Page(<<"Document">>, p \o q))
        BY <2>3, <2>4, PageIsFine
  <2>   QED  BY <2>5 DEF E!Pages!document, p, q
<1>3. Fine(E!Pages!notifications) /\ Fine(E!Pages!loginForm) /\ Fine(E!Pages!redeemForm)
  <2>1. ASSUME NEW s \in Seq(Reads), NEW ok \in SUBSET Successes
        PROVE  Fine(E!Pages!Handler("GET", s, ok)) /\ Fine(E!Pages!Open(E!Pages!Handler("GET", s, ok)))
    <3>   DEFINE h == E!Pages!Handler("GET", s, ok)
                 g == E!Pages!Open(h)
    <3>1. h.steps = s /\ h.panels = {} /\ h.ok = ok /\ h.refusal = 0
          BY DEF E!Pages!Handler
    <3>2. g.steps = s /\ g.panels = {} /\ g.ok = ok /\ g.refusal = 0
          BY DEF E!Pages!Handler, E!Pages!Open
    <3>   HIDE DEF h, g
    <3>3. Fine(h) /\ Fine(g)
          BY <3>1, <3>2, ShowsThings
    <3>   QED  BY <3>3 DEF h, g
  <2>2. {200} \in SUBSET Successes /\ {200, 303} \in SUBSET Successes
        BY DEF Successes
  <2>3. <<>> \in Seq(Reads) /\ <<"input", "Notifications">> \in Seq(Reads)
        BY DEF Reads
  <2>   DEFINE one == {200}
               two == {200, 303}
               s == <<"input", "Notifications">>
  <2>   HIDE DEF one, two, s
  <2>4. /\ Fine(E!Pages!Handler("GET", s, one)) /\ Fine(E!Pages!Open(E!Pages!Handler("GET", <<>>, two)))
        /\ Fine(E!Pages!Open(E!Pages!Handler("GET", <<>>, one)))
        BY <2>1, <2>2, <2>3 DEF one, two, s
  <2>   QED  BY <2>4 DEF E!Pages!notifications, E!Pages!loginForm, E!Pages!redeemForm, one, two, s
<1>4. /\ "Logout" \in C /\ "UpdateDraft" \in C /\ "Checkout" \in C /\ "CancelCheckout" \in C /\ "Checkin" \in C
      /\ "Revert" \in C /\ "Transition" \in C /\ "Assign" \in C /\ "Unassign" \in C /\ "SetDue" \in C
      /\ "FileDocument" \in C /\ "Comment" \in C /\ "ResolveComment" \in C /\ "Approve" \in C
      /\ "WithdrawApproval" \in C /\ "Preview" \in C /\ "Publish" \in C /\ "MarkNotificationRead" \in C
      /\ "RetryJob" \in C /\ "CreateGrant" \in C /\ "AssignRole" \in C /\ "CreateInvitation" \in C
      /\ "RevokeInvitation" \in C /\ "CreateDocument" \in C
      BY DEF Changes
<1>   HIDE DEF C
<1>5. \A x \in C : Fine(E!Pages!Form(<<x>>)) /\ Fine(E!Pages!Form(<<"input", x>>))
      BY FormIsFine DEF C
<1>6. /\ Fine(E!Pages!logout) /\ Fine(E!Pages!checkout) /\ Fine(E!Pages!cancelCheckout) /\ Fine(E!Pages!checkin)
      /\ Fine(E!Pages!revert) /\ Fine(E!Pages!assign) /\ Fine(E!Pages!unassign) /\ Fine(E!Pages!setDue)
      BY <1>4, <1>5 DEF E!Pages!logout, E!Pages!checkout, E!Pages!cancelCheckout, E!Pages!checkin,
           E!Pages!revert, E!Pages!assign, E!Pages!unassign, E!Pages!setDue
<1>7. /\ Fine(E!Pages!fileDocument) /\ Fine(E!Pages!retryJob) /\ Fine(E!Pages!createGrant)
      /\ Fine(E!Pages!assignRole) /\ Fine(E!Pages!revokeInvitation)
      BY <1>4, <1>5 DEF E!Pages!fileDocument, E!Pages!retryJob, E!Pages!createGrant,
           E!Pages!assignRole, E!Pages!revokeInvitation
<1>8. /\ Fine(E!Pages!transition) /\ Fine(E!Pages!comment) /\ Fine(E!Pages!resolveComment)
      /\ Fine(E!Pages!approve) /\ Fine(E!Pages!withdrawApproval)
  <2>1. \A x \in C : \A y \in Reads : /\ Fine(E!Pages!Swaps(E!Pages!Form(<<x>>), <<y>>))
                                      /\ Fine(E!Pages!Swaps(E!Pages!Form(<<"input", x>>), <<y>>))
        BY FormIsFine DEF C
  <2>2. "Transitions" \in Reads /\ "Approvals" \in Reads /\ "Comments" \in Reads
        BY DEF Reads
  <2>   QED  BY <1>4, <2>1, <2>2 DEF E!Pages!transition, E!Pages!comment, E!Pages!resolveComment,
               E!Pages!approve, E!Pages!withdrawApproval, E!Pages!actionBar, E!Pages!approvalPanel, E!Pages!threadPanel
<1>9. Fine(E!Pages!preview) /\ Fine(E!Pages!publish)
  <2>   DEFINE ok == {200}
  <2>   HIDE DEF ok
  <2>1. \A x \in C : \A y \in Reads : Fine(E!Pages!WithPanels(E!Pages!Handler("POST", <<"input", x>>, ok), <<y>>))
        BY FormIsFine DEF C, ok
  <2>2. "Notifications" \in Reads
        BY DEF Reads
  <2>3. \A x \in C : Fine(E!Pages!WithPanels(E!Pages!Handler("POST", <<"input", x>>, ok), E!Pages!base))
        BY <2>1, <2>2 DEF E!Pages!base
  <2>   QED  BY <1>4, <2>3 DEF E!Pages!preview, E!Pages!publish, ok
<1>10. Fine(E!Pages!readNotification) /\ Fine(E!Pages!login) /\ Fine(E!Pages!redeem)
  <2>1. Fine(E!Pages!readNotification)
    <3>   DEFINE g == E!Pages!Form(<<"MarkNotificationRead">>)
                 h == [g EXCEPT !.ok = {200, 303}]
    <3>1. Fine(g)
          BY <1>4, <1>5
    <3>2. h.steps = g.steps /\ h.panels = g.panels /\ h.method = g.method /\ h.open = g.open
          BY DEF E!Pages!Form, E!Pages!Handler
    <3>3. h.ok = {200, 303} /\ h.refusal = 0
          BY DEF E!Pages!Form, E!Pages!Handler
    <3>   HIDE DEF g, h
    <3>4. h.ok \in SUBSET Successes /\ h.refusal \in {0, 401}
          BY <3>3 DEF Successes
    <3>5. Fine(h)
          BY <3>1, <3>2, <3>4, AnsweredOtherwise
    <3>   QED  BY <3>5 DEF E!Pages!readNotification, g, h
  <2>2. ASSUME NEW x \in {"Login", "Redeem"}, NEW h, h.steps = <<"input", x>>, h.panels = {}, h.method = "POST",
               h.open = TRUE, h.ok = {303}, h.refusal \in {0, 401}
        PROVE  Fine(h)
    <3>   DEFINE s == <<"input", x>>
                 g == Plainly("POST", TRUE, s, {303})
    <3>1. MayDo("POST", TRUE, x) /\ {303} \in SUBSET Successes /\ "input" \in Reads
          BY DEF MayDo, E!Safe, Successes, Reads
    <3>2. Fine(g)
          BY <3>1, ReadsAreReads, TwoAreWellMade DEF Fine
    <3>   HIDE DEF s
    <3>3. g.steps = s /\ g.panels = {} /\ g.method = "POST" /\ g.open = TRUE
          BY DEF Plainly
    <3>   HIDE DEF g
    <3>4. h.steps = s /\ h.panels = {} /\ h.method = "POST" /\ h.open = TRUE
          BY <2>2 DEF s
    <3>5. h.ok \in SUBSET Successes /\ h.refusal \in {0, 401}
          BY <2>2, <3>1
    <3>6. h.steps = g.steps /\ h.panels = g.panels /\ h.method = g.method /\ h.open = g.open
          BY <3>3, <3>4
    <3>   QED  BY <3>2, <3>5, <3>6, AnsweredOtherwise
  <2>3. Fine(E!Pages!login)
    <3>   DEFINE s == <<"input", "Login">>
                 ok == {303}
                 h == [E!Pages!Open(E!Pages!Handler("POST", s, ok)) EXCEPT !.refusal = 401]
    <3>   HIDE DEF s, ok
    <3>1. /\ h.steps = s /\ h.panels = {} /\ h.method = "POST" /\ h.open = TRUE
          /\ h.ok = ok /\ h.refusal = 401
          BY DEF E!Pages!Open, E!Pages!Handler
    <3>   HIDE DEF h
    <3>2. h.steps = <<"input", "Login">> /\ h.ok = {303} /\ h.refusal \in {0, 401} /\ "Login" \in {"Login", "Redeem"}
          BY <3>1 DEF s, ok
    <3>3. Fine(h)
          BY <2>2, <3>1, <3>2
    <3>   QED  BY <3>3 DEF E!Pages!login, E!Pages!Form, h, s, ok
  <2>4. Fine(E!Pages!redeem)
    <3>   DEFINE s == <<"input", "Redeem">>
                 ok == {303}
                 h == E!Pages!Open(E!Pages!Handler("POST", s, ok))
    <3>   HIDE DEF s, ok
    <3>1. /\ h.steps = s /\ h.panels = {} /\ h.method = "POST" /\ h.open = TRUE
          /\ h.ok = ok /\ h.refusal = 0
          BY DEF E!Pages!Open, E!Pages!Handler
    <3>   HIDE DEF h
    <3>2. h.steps = <<"input", "Redeem">> /\ h.ok = {303} /\ h.refusal \in {0, 401} /\ "Redeem" \in {"Login", "Redeem"}
          BY <3>1 DEF s, ok
    <3>3. Fine(h)
          BY <2>2, <3>1, <3>2
    <3>   QED  BY <3>3 DEF E!Pages!redeem, E!Pages!Form, h, s, ok
  <2>   QED  BY <2>1, <2>3, <2>4
<1>11. Fine(E!Pages!saveDraft)
  <2>   DEFINE s == <<"input", "Document", "ElementType", "UpdateDraft">>
               ok == {303}
               h == E!Pages!Handler("POST", s, ok)
               x == "UpdateDraft"
  <2>1. /\ s \in Seq(Reads \cup {x}) /\ \A n \in DOMAIN s : s[n] = x => n = Len(s)
        BY DEF Reads
  <2>2. ok \in SUBSET Successes
        BY DEF Successes
  <2>3. x \in Changes \ {"Login", "Redeem"}
        BY DEF Changes
  <2>   HIDE DEF s, ok, x
  <2>4. /\ h.steps = s /\ h.panels = {} /\ h.method = "POST" /\ h.open = FALSE
        /\ h.ok = ok /\ h.refusal = 0
        BY DEF E!Pages!Handler
  <2>   HIDE DEF h
  <2>5. WellMade(h) /\ ChangesLast(h)
        BY <2>1, <2>2, <2>3, <2>4, OneStepChanges
  <2>   QED  BY <2>5 DEF E!Pages!saveDraft, E!Pages!Form, Fine, h, ok, s
<1>12. Fine(E!Pages!createDocument)
  <2>   DEFINE s == <<"input", "ElementType", "CreateDocument">>
               ok == {303}
               p == {"ElementType"}
               h == [E!Pages!Handler("POST", s, ok) EXCEPT !.panels = p]
               x == "CreateDocument"
  <2>1. /\ s \in Seq(Reads \cup {x}) /\ \A n \in DOMAIN s : s[n] = x => n = Len(s)
        BY DEF Reads
  <2>2. ok \in SUBSET Successes /\ p \in SUBSET Reads
        BY DEF Successes, Reads
  <2>3. x \in Changes \ {"Login", "Redeem"}
        BY DEF Changes
  <2>   HIDE DEF s, ok, x, p
  <2>4. /\ h.steps = s /\ h.panels = p /\ h.method = "POST" /\ h.open = FALSE
        /\ h.ok = ok /\ h.refusal = 0
        BY DEF E!Pages!Handler
  <2>   HIDE DEF h
  <2>5. WellMade(h) /\ ChangesLast(h)
        BY <2>1, <2>2, <2>3, <2>4, OneStepChanges
  <2>   QED  BY <2>5 DEF E!Pages!createDocument, E!Pages!Form, Fine, h, ok, s, p
<1>13. WellMade(E!Pages!createInvitation)
  <2>   DEFINE s == <<"input", "CreateInvitation", "Invitations">>
               ok == {201}
               b == E!Pages!base
               h == E!Pages!WithPanels(E!Pages!Handler("POST", s, ok), b)
               x == "CreateInvitation"
  <2>1. s \in Seq(Reads \cup {x}) /\ b \in Seq(Reads)
        BY DEF Reads, E!Pages!base
  <2>2. ok \in SUBSET Successes
        BY DEF Successes
  <2>3. x \in Changes \ {"Login", "Redeem"}
        BY DEF Changes
  <2>   HIDE DEF s, ok, x, b
  <2>4. /\ h.steps = s \o b /\ h.panels = {b[p] : p \in DOMAIN b} /\ h.method = "POST" /\ h.open = FALSE
        /\ h.ok = ok /\ h.refusal = 0
        BY DEF E!Pages!WithPanels, E!Pages!Handler
  <2>   HIDE DEF h
  <2>5. h.steps \in Seq(Reads \cup {x}) /\ h.panels \in SUBSET Reads
        BY <2>1, <2>4
  <2>6. WellMade(h)
        BY <2>2, <2>3, <2>4, <2>5, OneStepChanges
  <2>   QED  BY <2>6 DEF E!Pages!createInvitation, h, ok, s, b
<1>    QED  BY <1>1, <1>2, <1>3, <1>6, <1>7, <1>8, <1>9, <1>10, <1>11, <1>12, <1>13
            DEF E!Pages!Register, Fine

\* The first step that stops is one that stops.
LEMMA LeastAtEdge ==
  ASSUME NEW D \in SUBSET Nat, D # {}
  PROVE  E!Min(D) \in D
BY LeastOf DEF E!Min, Min

\* A failure has one of seven statuses, and 403 only if it wraps "forbidden"
\* (internal/api, statusFor).
LEMMA StatusOfFailure ==
  ASSUME NEW err
  PROVE  /\ E!StatusFor(err) \in {401, 403, 404, 409, 422, 500, 503}
         /\ E!StatusFor(err) = 403 => "forbidden" \in err
<1>   DEFINE entries == {n \in DOMAIN E!Table : E!Table[n][1] \in err}
<1>1. DOMAIN E!Table = 1..7
      BY DEF E!Table
<1>2. CASE entries = {}
      BY <1>2 DEF E!StatusFor
<1>3. CASE entries # {}
  <2>1. entries \in SUBSET Nat
        BY <1>1
  <2>2. E!Min(entries) \in entries
        BY <1>3, <2>1, LeastAtEdge
  <2>3. PICK n \in 1..7 : n = E!Min(entries) /\ E!Table[n][1] \in err
        BY <1>1, <2>2
  <2>4. E!StatusFor(err) = E!Table[n][2]
        BY <1>3, <2>3 DEF E!StatusFor
  <2>5. /\ E!Table[n][2] \in {401, 403, 404, 409, 422, 503}
        /\ E!Table[n][2] = 403 => E!Table[n][1] = "forbidden"
    <3>1. /\ E!Table[1][2] = 401 /\ E!Table[2][2] = 403 /\ E!Table[2][1] = "forbidden"
          /\ E!Table[3][2] = 404 /\ E!Table[4][2] = 409 /\ E!Table[5][2] = 409
          /\ E!Table[6][2] = 422 /\ E!Table[7][2] = 503
          BY DEF E!Table
    <3>2. n = 1 \/ n = 2 \/ n = 3 \/ n = 4 \/ n = 5 \/ n = 6 \/ n = 7
          BY <2>3
    <3>   QED  BY <3>1, <3>2
  <2>   QED  BY <2>3, <2>4, <2>5
<1>   QED  BY <1>2, <1>3

\* A status that refuses.
Bad(status) == status \cap 400..599 # {}

\* Both faces answer a failure alike, and always with a refusal.
LEMMA FailuresAreBad ==
  ASSUME NEW err, NEW development
  PROVE  /\ Bad(E!writeError(err, development).status) /\ Bad(E!fail(err, development).status)
         /\ 403 \in E!writeError(err, development).status => "forbidden" \in err
         /\ 403 \in E!fail(err, development).status => "forbidden" \in err
         /\ E!writeError(err, development) = E!fail(err, development)
<1>   DEFINE c == E!StatusFor(err)
<1>1. c \in 400..599 /\ (c = 403 => "forbidden" \in err)
      BY StatusOfFailure
<1>   HIDE DEF c
<1>2. E!writeError(err, development).status = {c} /\ E!fail(err, development).status = {c}
      BY DEF E!writeError, E!fail, E!Answer, c
<1>3. E!writeError(err, development) = E!fail(err, development)
      BY DEF E!writeError, E!fail
<1>   QED  BY <1>1, <1>2, <1>3 DEF Bad

\* An answer of one status.
LEMMA OneStatus ==
  ASSUME NEW c
  PROVE  (Bad({c}) <=> c \in 400..599) /\ (403 \in {c} <=> c = 403)
<1>1. Bad({c}) <=> c \in 400..599
  <2>1. ASSUME NEW S PROVE {c} \cap S # {} <=> c \in S
        OBVIOUS
  <2>   QED  BY <2>1 DEF Bad
<1>   QED  BY <1>1

\* What a handler answers when all goes well is no refusal.
LEMMA SuccessesAreNotBad ==
  ASSUME NEW ok \in SUBSET Successes
  PROVE  ~Bad(ok) /\ 403 \notin ok
BY DEF Bad, Successes

\* The statuses that are answered outright.
LEMMA Refusals ==
  ASSUME NEW tells
  PROVE  /\ E!Answer(400, tells).status = {400} /\ E!Answer(401, tells).status = {401}
         /\ E!Answer(403, tells).status = {403} /\ E!Answer(404, tells).status = {404}
         /\ E!Answer(500, tells).status = {500} /\ E!Answer(303, tells).status = {303}
         /\ Bad({400}) /\ Bad({401}) /\ Bad({403}) /\ Bad({404}) /\ Bad({500})
         /\ 403 \notin {303} \cup {400} \cup {401} \cup {404} \cup {500}
<1>1. /\ E!Answer(400, tells).status = {400} /\ E!Answer(401, tells).status = {401}
      /\ E!Answer(403, tells).status = {403} /\ E!Answer(404, tells).status = {404}
      /\ E!Answer(500, tells).status = {500} /\ E!Answer(303, tells).status = {303}
      BY DEF E!Answer
<1>2. Bad({400}) /\ Bad({401}) /\ Bad({403}) /\ Bad({404}) /\ Bad({500})
  <2>1. 400 \in 400..599 /\ 401 \in 400..599 /\ 403 \in 400..599 /\ 404 \in 400..599 /\ 500 \in 400..599
        OBVIOUS
  <2>2. \A c : c \in 400..599 => Bad({c})
        BY OneStatus
  <2>   QED  BY <2>1, <2>2
<1>   QED  BY <1>1, <1>2

\* What every handler is like, the development routes' too.
Tidy(h) ==
  /\ DOMAIN h.steps \in SUBSET Nat /\ h.ok \in SUBSET Successes /\ h.refusal \in {0, 401}
  /\ h.panels \cap Changes = {} /\ (h # E!Pages!createInvitation => ChangesLast(h))

\* The development routes (internal/server/dev.go), which change things by GET.
LEMMA DevroutesAreTidy == \A h \in E!devroutes : Tidy(h)
<1>   DEFINE s == <<"Shutdown">>
             t == <<"input", "DevLogin">>
             ok == {200}
             two == {200, 302}
<1>1. DOMAIN s = {1} /\ DOMAIN t = {1, 2} /\ t[1] = "input"
      OBVIOUS
<1>2. ok \in SUBSET Successes /\ two \in SUBSET Successes
      BY DEF Successes
<1>3. ASSUME NEW h, h.steps \in {s, t}, h.ok \in SUBSET Successes, h.panels = {}, h.refusal = 0
      PROVE  Tidy(h)
  <2>1. "input" \notin Changes
        BY DEF Changes
  <2>2. DOMAIN h.steps \in SUBSET Nat
        BY <1>1, <1>3
  <2>3. \A n, m \in DOMAIN h.steps : h.steps[n] \in Changes => ~(n < m)
        BY <1>1, <1>3, <2>1
  <2>   HIDE DEF s, t
  <2>   QED  BY <1>3, <2>2, <2>3 DEF Tidy, ChangesLast
<1>   HIDE DEF s, t, ok, two
<1>   DEFINE a == E!Api!Open(E!Api!Handler("GET", s, ok))
             b == E!Api!Open([E!Api!Handler("GET", s, ok) EXCEPT !.method = "POST"])
             c == E!Api!Open(E!Api!Handler("GET", t, two))
<1>4. /\ a.steps = s /\ a.ok = ok /\ a.panels = {} /\ a.refusal = 0
      /\ b.steps = s /\ b.ok = ok /\ b.panels = {} /\ b.refusal = 0
      /\ c.steps = t /\ c.ok = two /\ c.panels = {} /\ c.refusal = 0
      BY DEF E!Api!Open, E!Api!Handler
<1>5. E!devroutes = {a, b, c}
      BY DEF E!devroutes, E!shutItDown, E!logMeIn, s, t, ok, two
<1>   HIDE DEF a, b, c
<1>6. Tidy(a) /\ Tidy(b) /\ Tidy(c)
      BY <1>2, <1>3, <1>4
<1>   QED  BY <1>5, <1>6

\* Every route is one of the API, of the pages, or of a server in development.
LEMMA RoutesAreTidy ==
  ASSUME NEW development \in BOOLEAN, NEW route \in E!buildRoutes(development)
  PROVE  /\ Tidy(route.handler)
         /\ \/ route.face = "api" /\ WellMade(route.handler) /\ route.handler.refusal = 0
            \/ route.face = "pages" /\ WellMade(route.handler)
            \/ route.face = "development" /\ development = TRUE
<1>1. CASE \E h \in E!Api!Register \cup E!Api!RegisterPreview : route = [face |-> "api", handler |-> h]
  <2>1. PICK h : Good(h) /\ route.face = "api" /\ route.handler = h
        BY <1>1, ApiIsWellMade
  <2>2. Tidy(h)
        BY <2>1 DEF Good, WellMade, Tidy
  <2>   QED  BY <2>1, <2>2 DEF Good
<1>2. CASE \E h \in E!Pages!Register : route = [face |-> "pages", handler |-> h]
  <2>1. PICK h : /\ WellMade(h) /\ (h # E!Pages!createInvitation => ChangesLast(h))
                 /\ route.face = "pages" /\ route.handler = h
        BY <1>2, PagesAreWellMade
  <2>2. Tidy(h)
        BY <2>1 DEF WellMade, Tidy
  <2>   QED  BY <2>1, <2>2
<1>3. CASE development = TRUE /\ \E h \in E!devroutes : route = [face |-> "development", handler |-> h]
      BY <1>3, DevroutesAreTidy
<1>   QED  BY <1>1, <1>2, <1>3 DEF E!buildRoutes

\* What became of the steps of a handler that ran, and what it answers.
LEMMA Ran ==
  ASSUME NEW route, NEW request, NEW failure, NEW development, Tidy(route.handler)
  PROVE  LET h     == route.handler
             stops == E!Stops(h, request, failure)
             done  == E!Made(h, request, failure)
             reply == E!reply(route, request, failure, development)
         IN  /\ Bad(reply.status) <=> stops # {}
             /\ 403 \in reply.status => "forbidden" \in failure.error
             /\ stops # {} /\ h # E!Pages!createInvitation => done \cap Changes = {}
             /\ stops = {} => \A n \in DOMAIN h.steps : h.steps[n] \in done \cup h.panels
             /\ \A x \in done : \E n \in DOMAIN h.steps : x = h.steps[n]
<1>   DEFINE h     == route.handler
             stops == E!Stops(h, request, failure)
             done  == E!Made(h, request, failure)
             reply == E!reply(route, request, failure, development)
             step  == h.steps[E!Min(stops)]
             error == E!ErrorOf(step, failure)
<1>1. stops = {n \in DOMAIN h.steps : E!Fails(h.steps[n], request, failure) /\ h.steps[n] \notin h.panels}
      BY DEF E!Stops
<1>2. \A x : x \in done <=> \E n \in DOMAIN h.steps : /\ x = h.steps[n]
                                                      /\ \A m \in stops : n < m
                                                      /\ ~E!Fails(h.steps[n], request, failure)
      BY DEF E!Made
<1>   HIDE DEF stops, done
<1>3. /\ DOMAIN h.steps \in SUBSET Nat /\ h.ok \in SUBSET Successes /\ h.refusal \in {0, 401}
      /\ h.panels \cap Changes = {}
      BY DEF Tidy
<1>4. ASSUME stops = {} PROVE ~Bad(reply.status) /\ 403 \notin reply.status
  <2>1. reply = [status |-> h.ok, told |-> FALSE]
        BY <1>4 DEF E!reply, stops
  <2>2. reply.status = h.ok
        BY <2>1
  <2>   QED  BY <1>3, <2>2, SuccessesAreNotBad
<1>5. ASSUME stops # {} PROVE Bad(reply.status) /\ (403 \in reply.status => "forbidden" \in failure.error)
  <2>1. reply = IF route.face = "development" THEN E!developmentError(step, failure)
                ELSE IF h.refusal # 0 /\ step # "input" THEN E!Answer(h.refusal, FALSE)
                ELSE IF route.face = "api" THEN E!writeError(error, development)
                ELSE E!fail(error, development)
        BY <1>5 DEF E!reply, stops
  <2>   HIDE DEF step, error, reply
  <2>2. CASE reply = E!developmentError(step, failure)
    <3>1. CASE step = "input"
      <4>1. reply.status = {400}
            BY <2>2, <3>1 DEF E!Answer, E!developmentError
      <4>   QED  BY <4>1, Refusals
    <3>2. CASE step # "input" /\ "not found" \in failure.error
      <4>1. reply.status = {404}
            BY <2>2, <3>2 DEF E!Answer, E!developmentError
      <4>   QED  BY <4>1, Refusals
    <3>3. CASE step # "input" /\ "not found" \notin failure.error
      <4>1. reply.status = {500}
            BY <2>2, <3>3 DEF E!Answer, E!developmentError
      <4>   QED  BY <4>1, Refusals
    <3>   QED  BY <3>1, <3>2, <3>3
  <2>3. CASE h.refusal # 0 /\ reply = E!Answer(h.refusal, FALSE)
    <3>1. reply.status = {401}
          BY <1>3, <2>3 DEF E!Answer
    <3>   QED  BY <3>1, Refusals
  <2>4. CASE reply = E!writeError(error, development) \/ reply = E!fail(error, development)
    <3>1. Bad(reply.status) /\ (403 \in reply.status => "forbidden" \in error)
          BY <2>4, FailuresAreBad
    <3>2. "forbidden" \in error => "forbidden" \in failure.error
          BY DEF error, E!ErrorOf
    <3>   QED  BY <3>1, <3>2
  <2>   QED  BY <2>1, <2>2, <2>3, <2>4
<1>6. ASSUME stops # {}, h # E!Pages!createInvitation PROVE done \cap Changes = {}
  <2>   SUFFICES ASSUME NEW x \in done, x \in Changes PROVE FALSE
        OBVIOUS
  <2>1. PICK n \in DOMAIN h.steps : x = h.steps[n] /\ \A m \in stops : n < m
        BY <1>2
  <2>2. PICK m : m \in stops
        BY <1>6
  <2>3. m \in DOMAIN h.steps /\ h.steps[m] \notin h.panels /\ n < m
        BY <1>1, <2>1, <2>2
  <2>4. ChangesLast(h)
        BY <1>6 DEF Tidy
  <2>   HIDE DEF h
  <2>   QED  BY <2>1, <2>3, <2>4 DEF ChangesLast
<1>7. ASSUME stops = {}, NEW n \in DOMAIN h.steps PROVE h.steps[n] \in done \cup h.panels
      BY <1>1, <1>2, <1>7
<1>8. \A x \in done : \E n \in DOMAIN h.steps : x = h.steps[n]
      BY <1>2
<1>   QED  BY <1>4, <1>5, <1>6, <1>7, <1>8 DEF stops, done

\* What is said of a request is what became of it, from the socket to the answer.
LEMMA Served ==
  ASSUME NEW route, NEW request, NEW failure, NEW development, Tidy(route.handler)
  PROVE  LET h      == route.handler
             served == E!Serve(route, request, failure, development)
         IN  /\ Bad(served.answer.status) /\ h # E!Pages!createInvitation => served.made \cap Changes = {}
             /\ ~Bad(served.answer.status) /\ h.method # "GET" =>
                  \A n \in DOMAIN h.steps : h.steps[n] \in served.made \cup h.panels
             /\ E!withCSRF(h.method, request) /\ 403 \in served.answer.status => "forbidden" \in failure.error
             /\ served.made # {} => /\ E!withCSRF(h.method, request)
                                    /\ route.face = "development" => request.peer \in Loopback
             /\ \A x \in served.made : \E n \in DOMAIN h.steps : x = h.steps[n]
<1>   DEFINE h      == route.handler
             served == E!Serve(route, request, failure, development)
             R(s)   == /\ Bad(s.answer.status) /\ h # E!Pages!createInvitation => s.made \cap Changes = {}
                       /\ ~Bad(s.answer.status) /\ h.method # "GET" =>
                            \A n \in DOMAIN h.steps : h.steps[n] \in s.made \cup h.panels
                       /\ E!withCSRF(h.method, request) /\ 403 \in s.answer.status => "forbidden" \in failure.error
                       /\ s.made # {} => /\ E!withCSRF(h.method, request)
                                         /\ route.face = "development" => request.peer \in Loopback
                       /\ \A x \in s.made : \E n \in DOMAIN h.steps : x = h.steps[n]
             away  == ~E!withCSRF(h.method, request)
             far   == route.face = "development" /\ request.peer \notin Loopback
             may   == E!MayRun(route, request, failure)
             error(token) == E!Refused(token, failure)
<1>1. CASE away
  <2>1. served.made = {} /\ served.answer.status = {403}
        BY <1>1 DEF E!Serve, E!Answer
  <2>   HIDE DEF served
  <2>2. Bad(served.answer.status)
        BY <2>1, Refusals
  <2>3. R(served)
        BY <1>1, <2>1, <2>2
  <2>   QED  BY <2>3 DEF served
<1>2. CASE ~away /\ far
  <2>1. served.made = {} /\ served.answer.status = {404}
        BY <1>2 DEF E!Serve, E!Answer
  <2>   HIDE DEF served
  <2>2. Bad(served.answer.status) /\ 403 \notin served.answer.status
        BY <2>1, Refusals
  <2>3. R(served)
        BY <2>1, <2>2
  <2>   QED  BY <2>3 DEF served
<1>3. CASE ~away /\ ~far /\ ~may
  <2>1. /\ served.made = {}
        /\ \/ served.answer = E!writeError(error(E!credential(request)), development)
           \/ h.method = "GET" /\ served.answer = E!Answer(303, FALSE)
           \/ served.answer = E!fail(error(E!identity(request)), development)
        BY <1>3 DEF E!Serve, E!authenticated, E!page
  <2>   HIDE DEF served
  <2>2. \A token : "forbidden" \in error(token) => "forbidden" \in failure.error
        BY DEF E!Refused
  <2>   HIDE DEF error
  <2>3. ASSUME NEW token,
               \/ served.answer = E!writeError(error(token), development)
               \/ served.answer = E!fail(error(token), development)
        PROVE  Bad(served.answer.status) /\ (403 \in served.answer.status => "forbidden" \in failure.error)
        BY <2>2, <2>3, FailuresAreBad
  <2>5. ASSUME h.method = "GET", served.answer = E!Answer(303, FALSE)
        PROVE  403 \notin served.answer.status
        BY <2>5 DEF E!Answer
  <2>6. /\ Bad(served.answer.status) \/ h.method = "GET"
        /\ 403 \in served.answer.status => "forbidden" \in failure.error
        BY <2>1, <2>3, <2>5
  <2>4. R(served)
        BY <2>1, <2>6
  <2>   QED  BY <2>4 DEF served
<1>4. CASE ~away /\ ~far /\ may
  <2>   DEFINE stops == E!Stops(h, request, failure)
               done  == E!Made(h, request, failure)
               reply == E!reply(route, request, failure, development)
  <2>1. served.made = done /\ served.answer = reply
        BY <1>4 DEF E!Serve
  <2>2. /\ Bad(reply.status) <=> stops # {}
        /\ 403 \in reply.status => "forbidden" \in failure.error
        /\ stops # {} /\ h # E!Pages!createInvitation => done \cap Changes = {}
        /\ stops = {} => \A n \in DOMAIN h.steps : h.steps[n] \in done \cup h.panels
        /\ \A x \in done : \E n \in DOMAIN h.steps : x = h.steps[n]
        BY Ran
  <2>   HIDE DEF served, stops, done, reply
  <2>3. R(served)
        BY <1>4, <2>1, <2>2
  <2>   QED  BY <2>3 DEF served
<1>   QED  BY <1>1, <1>2, <1>3, <1>4

\* What a browser says of a page tells another site's from ours, and no program
\* says it (EdgeAssumption).
LEMMA OriginsAreTold ==
  ASSUME NEW a \in Asks
  PROVE  /\ a.request.sender = "theirs" => E!CrossOrigin(a.request) /\ ~E!BearerToken(a.request)
         /\ a.request.sender # "theirs" => ~E!CrossOrigin(a.request)
<1>   DEFINE r == a.request
<1>1. PICK new \in BOOLEAN : /\ r.fetchSite = E!Headers(r.sender, new).fetchSite
                             /\ r.origin = E!Headers(r.sender, new).origin
      BY EdgeAssumption
<1>2. /\ r.sender \in {"program", "ours", "theirs"} /\ r.host # "other"
      /\ r.sender = "theirs" => r.scheme # "bearer"
      BY EdgeAssumption
<1>   HIDE DEF r
<1>3. CASE r.sender = "program"
  <2>1. r.fetchSite = "" /\ r.origin = ""
        BY <1>1, <1>3 DEF E!Headers
  <2>   QED  BY <1>3, <2>1 DEF E!CrossOrigin, r
<1>4. CASE r.sender = "ours"
  <2>1. r.origin = "public"
        BY <1>1, <1>4 DEF E!Headers
  <2>   QED  BY <1>4, <2>1 DEF E!CrossOrigin, r
<1>5. CASE r.sender = "theirs"
  <2>1. r.fetchSite \in {"", "cross-site"} /\ r.origin = "other"
        BY <1>1, <1>5 DEF E!Headers
  <2>   QED  BY <1>2, <1>5, <2>1 DEF E!CrossOrigin, E!BearerToken, r
<1>   QED  BY <1>2, <1>3, <1>4, <1>5

\* A server is in development only if the highest source that says anything says so.
LEMMA DevelopmentIsSpeltOut ==
  ASSUME NEW s, E!Environment(s) = "development"
  PROVE  "development" \in {s.flag, IF s.flag = "" THEN s.env ELSE "",
                            IF s.flag = "" /\ s.env = "" THEN s.file ELSE ""}
<1>   DEFINE sources == <<s.flag, s.env, s.file>>
             said    == {n \in DOMAIN sources : sources[n] # ""}
             first   == E!Min(said)
<1>1. DOMAIN sources = 1..3 /\ sources[1] = s.flag /\ sources[2] = s.env /\ sources[3] = s.file
      OBVIOUS
<1>2. said # {} /\ sources[first] = "development"
      BY DEF E!Environment
<1>   HIDE DEF sources
<1>3. DOMAIN sources \in SUBSET Nat
      BY <1>1
<1>4. said \in SUBSET DOMAIN sources /\ \A n \in DOMAIN sources : n \in said \/ sources[n] = ""
      OBVIOUS
<1>   HIDE DEF said
<1>5. said \in SUBSET Nat
      BY <1>3, <1>4
<1>6. first \in said /\ \A j \in said : first <= j
      BY <1>2, <1>5, LeastOf DEF E!Min, Min
<1>   HIDE DEF first
<1>7. first \in DOMAIN sources
      BY <1>4, <1>6
<1>8. first = 1 \/ first = 2 \/ first = 3
      BY <1>1, <1>7
<1>9. ASSUME NEW n \in DOMAIN sources, ~(first <= n) PROVE sources[n] = ""
      BY <1>4, <1>6, <1>9
<1>10. 1 \in DOMAIN sources /\ 2 \in DOMAIN sources /\ ~(2 <= 1) /\ ~(3 <= 1) /\ ~(3 <= 2)
       BY <1>1
<1>11. CASE first = 1
       BY <1>1, <1>2, <1>11
<1>12. CASE first = 2
  <2>1. sources[1] = ""
        BY <1>9, <1>10, <1>12
  <2>2. s.flag = "" /\ s.env = "development"
        BY <1>1, <1>2, <1>12, <2>1
  <2>   QED  BY <2>2
<1>13. CASE first = 3
  <2>1. sources[1] = "" /\ sources[2] = ""
        BY <1>9, <1>10, <1>13
  <2>2. s.flag = "" /\ s.env = "" /\ s.file = "development"
        BY <1>1, <1>2, <1>13, <2>1
  <2>   QED  BY <2>2
<1>    QED  BY <1>8, <1>11, <1>12, <1>13

\* How a request went.
Went(a, route, f) ==
  /\ a \in Asks /\ route \in E!buildRoutes(E!Environment(a.settings) = "development")
  /\ question.settings = a.settings /\ question.route = route
  /\ question.request = a.request /\ question.failure = f
  /\ given = E!Serve(route, a.request, f, E!Environment(a.settings) = "development")

\* What was asked, and what it was answered.
LEMMA EveryQuestionServed ==
  ASSUME ServedWhenAsked, Answered("request")
  PROVE  \E a, route, f : Went(a, route, f)
<1>1. PICK a, route, f : AskedBy(a, route, f)
      BY DEF ServedWhenAsked, Answered
<1>2. /\ a \in Asks /\ route \in E!buildRoutes(E!Environment(a.settings) = "development")
      /\ question.settings = a.settings /\ question.route = route
      /\ question.request = a.request /\ question.failure = f
      BY <1>1 DEF AskedBy
<1>3. given = E!Serve(question.route, question.request, question.failure,
                      E!Environment(question.settings) = "development")
      BY DEF ServedWhenAsked, Answered, given
<1>   QED  BY <1>2, <1>3 DEF Went

\* A page of another site that makes a browser send a request changes nothing.
THEOREM OnlyOurPagesChangeThings == AnswersSpec => []OnlyOurPagesAreObeyed
<1>1. ASSUME ServedWhenAsked PROVE OnlyOurPagesAreObeyed
  <2>   SUFFICES ASSUME Answered("request")
                 PROVE  LET r == question.request
                            s == question.settings
                        IN  /\ r.sender = "theirs" /\ made # {} =>
                                 /\ question.route.face = "development" /\ r.peer \in Loopback
                                 /\ "development" \in {s.flag, IF s.flag = "" THEN s.env ELSE "",
                                                      IF s.flag = "" /\ s.env = "" THEN s.file ELSE ""}
                            /\ r.sender # "theirs" /\ 403 \in given.answer.status =>
                                 "forbidden" \in question.failure.error
        BY DEF OnlyOurPagesAreObeyed
  <2>0. PICK a, route, f : Went(a, route, f)
        BY <1>1, EveryQuestionServed
  <2>1. /\ a \in Asks /\ route \in E!buildRoutes(E!Environment(a.settings) = "development")
        /\ question.settings = a.settings /\ question.route = route
        /\ question.request = a.request /\ question.failure = f
        /\ given = E!Serve(route, a.request, f, E!Environment(a.settings) = "development")
        BY <2>0 DEF Went
  <2>   DEFINE r   == a.request
               s   == a.settings
               h   == route.handler
               dev == E!Environment(s) = "development"
               served == E!Serve(route, r, f, dev)
  <2>2. /\ Tidy(h)
        /\ \/ WellMade(h) /\ route.face \in {"api", "pages"}
           \/ route.face = "development" /\ dev
    <3>1. dev \in BOOLEAN /\ route \in E!buildRoutes(dev)
          BY <2>1
    <3>   HIDE DEF dev
    <3>   QED  BY <3>1, RoutesAreTidy
  <2>3. /\ E!withCSRF(h.method, r) /\ 403 \in served.answer.status => "forbidden" \in f.error
        /\ served.made # {} => /\ E!withCSRF(h.method, r)
                               /\ route.face = "development" => r.peer \in Loopback
        /\ \A x \in served.made : \E n \in DOMAIN h.steps : x = h.steps[n]
        BY <2>2, Served
  <2>   HIDE DEF served
  <2>4. ASSUME r.sender = "theirs", made # {}
        PROVE  /\ route.face = "development" /\ r.peer \in Loopback
               /\ "development" \in {s.flag, IF s.flag = "" THEN s.env ELSE "",
                                     IF s.flag = "" /\ s.env = "" THEN s.file ELSE ""}
    <3>1. PICK x \in Changes : x \in served.made
          BY <2>1, <2>4 DEF made, served
    <3>2. PICK n \in DOMAIN h.steps : h.steps[n] \in Changes
          BY <2>3, <3>1
    <3>3. E!Safe(h.method)
          BY <2>3, <2>1, <2>4, <3>1, OriginsAreTold DEF E!withCSRF
    <3>4. ~WellMade(h)
          BY <3>2, <3>3 DEF WellMade
    <3>5. route.face = "development" /\ dev /\ r.peer \in Loopback
          BY <2>2, <2>3, <3>1, <3>4
    <3>   QED  BY <3>5, DevelopmentIsSpeltOut
  <2>5. ASSUME r.sender # "theirs", 403 \in given.answer.status
        PROVE  "forbidden" \in f.error
    <3>1. E!withCSRF(h.method, r)
          BY <2>1, <2>5, OriginsAreTold DEF E!withCSRF
    <3>   QED  BY <2>1, <2>3, <2>5, <3>1 DEF served
  <2>   QED  BY <2>1, <2>4, <2>5
<1>   QED  BY <1>1, AsAsked, PTL

\* What stops a handler whose input is well formed.
LEMMA StopsAtTheChange ==
  ASSUME NEW h, NEW request, NEW failure, WellMade(h), ~request.malformed
  PROVE  LET stops == E!Stops(h, request, failure)
         IN  /\ failure.of \in {"none", "Authenticate"} => stops = {}
             /\ \A n \in DOMAIN h.steps : h.steps[n] \in Changes /\ failure.of = h.steps[n] =>
                  stops # {} /\ h.steps[E!Min(stops)] = failure.of
<1>   DEFINE stops == E!Stops(h, request, failure)
<1>1. stops = {n \in DOMAIN h.steps : E!Fails(h.steps[n], request, failure) /\ h.steps[n] \notin h.panels}
      BY DEF E!Stops
<1>2. \A step : E!Fails(step, request, failure) <=> step # "input" /\ step = failure.of
      BY DEF E!Fails
<1>   HIDE DEF stops
<1>3. ASSUME failure.of \in {"none", "Authenticate"} PROVE stops = {}
      BY <1>1, <1>2, <1>3 DEF WellMade
<1>4. ASSUME NEW n \in DOMAIN h.steps, h.steps[n] \in Changes, failure.of = h.steps[n]
      PROVE  stops # {} /\ h.steps[E!Min(stops)] = failure.of
  <2>1. h.steps[n] # "input"
        BY <1>4 DEF Changes
  <2>2. h.steps[n] \notin h.panels
        BY <1>4 DEF WellMade
  <2>3. n \in stops
        BY <1>1, <1>2, <1>4, <2>1, <2>2
  <2>4. stops \in SUBSET Nat
        BY <1>1 DEF WellMade
  <2>5. E!Min(stops) \in stops
        BY <2>3, <2>4, LeastAtEdge
  <2>   QED  BY <1>1, <1>2, <2>3, <2>5
<1>   QED  BY <1>3, <1>4 DEF stops

\* A handler that runs refuses if a step stops it.
LEMMA RefusedIfStopped ==
  ASSUME NEW route, NEW request, NEW failure, NEW development, Tidy(route.handler)
  PROVE  Bad(E!reply(route, request, failure, development).status)
           <=> E!Stops(route.handler, request, failure) # {}
BY Ran

\* A form and the API's request for the same thing.
LEMMA AnsweredAlike ==
  ASSUME NEW page, NEW api, NEW request, NEW failure, NEW development,
         page.face = "pages", api.face = "api",
         WellMade(page.handler), Tidy(page.handler), page.handler.refusal = 0,
         WellMade(api.handler), Tidy(api.handler), api.handler.refusal = 0,
         ~request.malformed, ~E!BearerToken(request),
         NEW change \in Changes,
         NEW n \in DOMAIN page.handler.steps, page.handler.steps[n] = change,
         NEW m \in DOMAIN api.handler.steps, api.handler.steps[m] = change,
         failure.of \in {"none", "Authenticate", change}
  PROVE  LET a == E!Serve(page, request, failure, development).answer
             b == E!Serve(api, request, failure, development).answer
         IN  (Bad(a.status) <=> Bad(b.status)) /\ (Bad(a.status) => a = b)
<1>   DEFINE h == page.handler
             g == api.handler
             a == E!Serve(page, request, failure, development).answer
             b == E!Serve(api, request, failure, development).answer
             R(x, y) == (Bad(x.status) <=> Bad(y.status)) /\ (Bad(x.status) => x = y)
             cookie == request.cookie
             refusal == E!Refused(cookie, failure)
             away == E!CrossOrigin(request)
             may == E!MayRun(page, request, failure)
<1>1. /\ ~E!Safe(h.method) /\ ~E!Safe(g.method)
      /\ h.open <=> change \in {"Login", "Redeem"}
      /\ g.open <=> change \in {"Login", "Redeem"}
      BY DEF WellMade
<1>2. h.method # "GET"
      BY <1>1 DEF E!Safe
<1>3. E!withCSRF(h.method, request) = ~away /\ E!withCSRF(g.method, request) = ~away
      BY <1>1 DEF E!withCSRF
<1>4. E!credential(request) = cookie /\ E!identity(request) = cookie
      BY DEF E!credential, E!identity
<1>5. may <=> E!MayRun(api, request, failure)
  <2>1. E!Token(page, request) = cookie /\ E!Token(api, request) = cookie
        BY <1>4 DEF E!Token
  <2>   QED  BY <1>1, <2>1 DEF E!MayRun
<1>6. CASE away
  <2>1. a = E!Answer(403, FALSE) /\ b = E!Answer(403, FALSE)
        BY <1>3, <1>6 DEF E!Serve
  <2>2. a = b
        BY <2>1
  <2>   HIDE DEF a, b
  <2>3. R(a, b)
        BY <2>2
  <2>   QED  BY <2>3 DEF a, b
<1>7. CASE ~away /\ ~may
  <2>1. a = E!page(page, request, failure, development) /\ b = E!authenticated(api, request, failure, development)
        BY <1>3, <1>5, <1>7 DEF E!Serve
  <2>2. a = E!fail(refusal, development)
        BY <1>2, <1>4, <2>1 DEF E!page
  <2>3. b = E!writeError(refusal, development)
        BY <1>4, <2>1 DEF E!authenticated
  <2>4. a = b
        BY <2>2, <2>3, FailuresAreBad
  <2>   HIDE DEF a, b
  <2>5. R(a, b)
        BY <2>4
  <2>   QED  BY <2>5 DEF a, b
<1>8. CASE ~away /\ may
  <2>   DEFINE sh == E!Stops(h, request, failure)
               sg == E!Stops(g, request, failure)
               ra == E!reply(page, request, failure, development)
               rb == E!reply(api, request, failure, development)
  <2>1. a = ra /\ b = rb
        BY <1>3, <1>5, <1>8 DEF E!Serve
  <2>2. (Bad(ra.status) <=> sh # {}) /\ (Bad(rb.status) <=> sg # {})
    <3>1. Bad(ra.status) <=> sh # {}
          BY RefusedIfStopped
    <3>2. Bad(rb.status) <=> sg # {}
          BY RefusedIfStopped
    <3>   QED  BY <3>1, <3>2
  <2>3. CASE failure.of \in {"none", "Authenticate"}
    <3>1. sh = {} /\ sg = {}
          BY <2>3, StopsAtTheChange
    <3>   HIDE DEF a, b, sh, sg, ra, rb
    <3>2. R(a, b)
          BY <2>1, <2>2, <3>1
    <3>   QED  BY <3>2 DEF a, b
  <2>4. CASE failure.of = change
    <3>1. /\ sh # {} /\ h.steps[E!Min(sh)] = change
          /\ sg # {} /\ g.steps[E!Min(sg)] = change
          BY <2>4, StopsAtTheChange
    <3>2. ra = E!fail(E!ErrorOf(change, failure), development)
          BY <3>1 DEF E!reply
    <3>3. rb = E!writeError(E!ErrorOf(change, failure), development)
          BY <3>1 DEF E!reply
    <3>   HIDE DEF ra, rb, sh, sg, a, b
    <3>4. a = b
          BY <2>1, <3>2, <3>3, FailuresAreBad
    <3>5. R(a, b)
          BY <3>4
    <3>   QED  BY <3>5 DEF a, b
  <2>   QED  BY <2>3, <2>4
<1>   QED  BY <1>6, <1>7, <1>8

\* What a request is answered is what became of it.
THEOREM AnswersTellTheTruth == AnswersSpec => []AnswersAreTrue
<1>1. ASSUME ServedWhenAsked PROVE AnswersAreTrue
  <2>   SUFFICES ASSUME Answered("request")
                 PROVE  AnswersAreTrue
        BY DEF AnswersAreTrue
  <2>0. PICK a, route, f : Went(a, route, f)
        BY <1>1, EveryQuestionServed
  <2>1. /\ a \in Asks /\ route \in E!buildRoutes(E!Environment(a.settings) = "development")
        /\ question.settings = a.settings /\ question.route = route
        /\ question.request = a.request /\ question.failure = f
        /\ given = E!Serve(route, a.request, f, E!Environment(a.settings) = "development")
        BY <2>0 DEF Went
  <2>   DEFINE r   == a.request
               h   == route.handler
               dev == E!Environment(a.settings) = "development"
               served == E!Serve(route, r, f, dev)
  <2>2. /\ Tidy(h)
        /\ route.face = "pages" => WellMade(h)
    <3>1. dev \in BOOLEAN /\ route \in E!buildRoutes(dev)
          BY <2>1
    <3>   HIDE DEF dev
    <3>   QED  BY <3>1, RoutesAreTidy
  <2>3. /\ Bad(served.answer.status) /\ h # E!Pages!createInvitation => served.made \cap Changes = {}
        /\ ~Bad(served.answer.status) /\ h.method # "GET" =>
                  \A n \in DOMAIN h.steps : h.steps[n] \in served.made \cup h.panels
        BY <2>2, Served
  <2>4. ASSUME route.face = "pages", h.refusal = 0, ~r.malformed, ~E!BearerToken(r),
               NEW g \in E!Api!Register, NEW change \in Changes \cap ToSet(h.steps) \cap ToSet(g.steps),
               f.of \in {"none", "Authenticate", change}
        PROVE  LET b == E!Serve([face |-> "api", handler |-> g], r, f, dev).answer
               IN  /\ Bad(served.answer.status) <=> Bad(b.status)
                   /\ Bad(served.answer.status) => served.answer = b
    <3>   DEFINE api == [face |-> "api", handler |-> g]
    <3>1. Good(g)
          BY ApiIsWellMade
    <3>2. WellMade(g) /\ Tidy(g) /\ g.refusal = 0
          BY <3>1 DEF Good, WellMade, Tidy
    <3>3. PICK n \in DOMAIN h.steps : h.steps[n] = change
          BY DEF ToSet
    <3>4. PICK m \in DOMAIN g.steps : g.steps[m] = change
          BY DEF ToSet
    <3>5. api.face = "api" /\ api.handler = g
          OBVIOUS
    <3>   HIDE DEF api, dev
    <3>6. change \in Changes
          OBVIOUS
    <3>7. /\ Bad(E!Serve(route, r, f, dev).answer.status) <=> Bad(E!Serve(api, r, f, dev).answer.status)
          /\ Bad(E!Serve(route, r, f, dev).answer.status)
               => E!Serve(route, r, f, dev).answer = E!Serve(api, r, f, dev).answer
          BY <2>2, <2>4, <3>2, <3>3, <3>4, <3>5, <3>6, AnsweredAlike
    <3>   QED  BY <3>7 DEF api
  <2>5. refused <=> Bad(served.answer.status)
        BY <2>1 DEF refused, Bad
  <2>6. made = served.made \cap Changes /\ given = served
        BY <2>1 DEF made
  <2>   HIDE DEF served
  <2>7. refused /\ h # E!Pages!createInvitation => made = {}
        BY <2>3, <2>5, <2>6
  <2>8. ~refused /\ h.method # "GET" => \A n \in DOMAIN h.steps : h.steps[n] \in given.made \cup h.panels
        BY <2>3, <2>5, <2>6
  <2>   QED  BY <2>1, <2>4, <2>5, <2>6, <2>7, <2>8 DEF AnswersAreTrue, Bad
<1>   QED  BY <1>1, AsAsked, PTL
================================================================================
