-------------------------------- MODULE Cascade --------------------------------
(***************************************************************************)
(* Scheduling a publish with everything the document refers to:            *)
(* Service.Publish (internal/service/publish.go), LoadGraph                *)
(* (internal/publish/graph.go) and Gather (gather.go), while other people  *)
(* work on the documents.                                                  *)
(*                                                                         *)
(* LoadGraph reads node after node, and of each the document's row, then   *)
(* its version, then one by one the documents that the version refers to;  *)
(* nothing holds the rows in between.                                      *)
(* Each job is enqueued, and each event recorded, in a transaction of its  *)
(* own, and the request may be cut off before any of them.                 *)
(***************************************************************************)
EXTENDS Naturals, Sequences, FiniteSets, SequencesExt, Functions

CONSTANTS
  Docs,         \* documents, which are their own uids
  Root,         \* the one somebody asks to publish
  NoDocument,   \* a uid that names no document
  Site,         \* the site of each document
  Contents,     \* [Docs -> sets of [versions -> what they refer to]]
  Situations,   \* [Docs -> sets of rows to begin with]
  MaxVersion,   \* bound: versions of a document
  MaxChanges    \* bound: what other people do before the request has ended

RowType == [there : BOOLEAN, publishable : BOOLEAN, held : BOOLEAN, version : 0..MaxVersion, mine : BOOLEAN]

\* Every version has content, and every uid that names no document is the one.
ASSUME CascadeAssumption ==
  /\ Root \in Docs /\ NoDocument \notin Docs /\ {MaxVersion, MaxChanges} \subseteq Nat
  /\ \A d \in Docs : /\ Situations[d] \subseteq RowType
                     /\ Contents[d] \subseteq [1..MaxVersion -> Seq(Docs \cup {NoDocument})]

VARIABLES
  docs,      \* rows: [there, publishable, held, version, mine]; mine: the actor may publish it
  content,   \* [Docs -> [versions -> sequence of uids]]
  fails,     \* the policy: publish.related_failure is "fail", else "warn"
  request,   \* [at, dry, channels] and what the request has read and found
  scheduled, \* the publish jobs: [document, version, channels]
  told,      \* document.publish_scheduled: [document, root, related, refusals]
  changes

cascadeVars == <<docs, content, fails, request, scheduled, told, changes>>
system == <<docs, content, fails, changes>>

Ended == {"refused", "planned", "scheduled", "cut"}

Node(row, version, refs) == [row |-> row, version |-> version, refs |-> refs]

WithNode(graph, d, node) == [e \in DOMAIN graph \cup {d} |-> IF e = d THEN node ELSE graph[e]]

CascadeInit ==
  /\ docs \in {rows \in [Docs -> UNION Range(Situations)] : \A d \in Docs : rows[d] \in Situations[d]}
  /\ content \in {c \in [Docs -> UNION Range(Contents)] : \A d \in Docs : c[d] \in Contents[d]}
  /\ fails \in BOOLEAN
  /\ request \in [at : {"asked"}, dry : BOOLEAN, channels : {"every", "own", "another"},
                  queue : {<<Root>>}, seen : {{Root}}, graph : {<<>>},
                  refs : {<<>>}, set : {<<>>}, refusals : {<<>>}]
  /\ scheduled = <<>> /\ told = <<>> /\ changes = 0

--------------------------------------------------------------------------------
(* Other people                                                               *)

Change(d, row) ==
  /\ changes < MaxChanges /\ request.at \notin Ended
  /\ docs[d].there
  /\ docs' = [docs EXCEPT ![d] = row]
  /\ changes' = changes + 1
  /\ UNCHANGED <<content, fails, request, scheduled, told>>

Checkout(d) == ~docs[d].held /\ Change(d, [docs[d] EXCEPT !.held = TRUE])

Checkin(d) ==
  /\ docs[d].held /\ docs[d].version < MaxVersion
  /\ Change(d, [docs[d] EXCEPT !.held = FALSE, !.version = @ + 1])

\* A document that was never checked in goes away with its draft.
Revert(d) == docs[d].held /\ Change(d, [docs[d] EXCEPT !.held = FALSE, !.there = docs[d].version # 0])

Move(d) == Change(d, [docs[d] EXCEPT !.publishable = ~@])

--------------------------------------------------------------------------------
(* The request                                                                *)

Goes(at, r) == request' = [r EXCEPT !.at = at]

\* Whatever is refused leaves nothing written by this step.
Refused == Goes("refused", request) /\ UNCHANGED <<scheduled, told>>

\* mayDo, publishableState.
MayPublish(d) == docs[d].there /\ docs[d].mine /\ docs[d].publishable

\* Channels that are named are of the root's site, or there is no request.
publishChannels(channels) == channels # "another"

Begin ==
  /\ request.at = "asked"
  /\ IF MayPublish(Root) /\ publishChannels(request.channels)
     THEN Goes("reading", request) /\ UNCHANGED <<scheduled, told>>
     ELSE Refused
  /\ UNCHANGED system

\* The row of the next node, and whether its workflow calls its state publishable.
ReadDocument ==
  LET d == Head(request.queue) IN
  /\ request.at = "reading" /\ request.queue # <<>>
  /\ IF docs[d].there
     THEN /\ Goes("read", [request EXCEPT !.graph = WithNode(@, d, Node(docs[d], 0, <<>>))])
          /\ UNCHANGED <<scheduled, told>>
     ELSE Refused
  /\ UNCHANGED system

Refs(d, version) == IF version = 0 THEN <<>> ELSE content[d][version]

\* What a publish of it would pin: a row that is gone has no version.
ReadVersion ==
  LET d == Head(request.queue)
      version == IF docs[d].there THEN docs[d].version ELSE 0
  IN
  /\ request.at = "read"
  /\ Goes("referring", [request EXCEPT !.graph[d].version = version, !.refs = Refs(d, version)])
  /\ UNCHANGED <<scheduled, told, system>>

\* One document that it refers to.  A uid that names none stays in the node, and is
\* followed nowhere; what is met for the first time is to be loaded.
ReadReference ==
  LET d == Head(request.queue)
      uid == Head(request.refs)
      named == uid \in Docs /\ docs[uid].there
      new == named /\ uid \notin request.seen
  IN
  /\ request.at = "referring" /\ request.refs # <<>>
  /\ request' = [request EXCEPT !.refs = Tail(@),
                               !.graph[d].refs = Append(@, IF named THEN uid ELSE NoDocument),
                               !.queue = IF new THEN Append(@, uid) ELSE @,
                               !.seen = IF new THEN @ \cup {uid} ELSE @]
  /\ UNCHANGED <<scheduled, told, system>>

NodeLoaded ==
  /\ request.at = "referring" /\ request.refs = <<>>
  /\ Goes("reading", [request EXCEPT !.queue = Tail(@)])
  /\ UNCHANGED <<scheduled, told, system>>

\* The gates, in their order.
gate(node) ==
  CASE ~node.row.mine        -> "permission"
    [] node.row.held         -> "checked_out"
    [] ~node.row.publishable -> "state"
    [] node.version = 0      -> "no_version"
    [] OTHER                 -> "passes"

Refusal(d, referrer, reason) == [document |-> d, referrer |-> referrer, reason |-> reason]

\* Slip: what a node refers to is seen only when it is visited.
meetsLate(graph, d, at, ref) ==
  IF ref = NoDocument THEN [at EXCEPT !.refusals = Append(@, Refusal(ref, d, "missing"))]
  ELSE IF ref \in ToSet(at.set) THEN at
  ELSE IF gate(graph[ref]) # "passes" THEN [at EXCEPT !.refusals = Append(@, Refusal(ref, d, gate(graph[ref])))]
  ELSE [at EXCEPT !.queue = Append(@, ref)]

\* One reference of a node that is being visited.
meets(graph, d, at, ref) ==
  IF ref = NoDocument THEN [at EXCEPT !.refusals = Append(@, Refusal(ref, d, "missing"))]
  ELSE IF ref \in at.seen THEN at
  ELSE IF gate(graph[ref]) # "passes"
    THEN [at EXCEPT !.seen = @ \cup {ref}, !.refusals = Append(@, Refusal(ref, d, gate(graph[ref])))]
  ELSE [at EXCEPT !.seen = @ \cup {ref}, !.queue = Append(@, ref)]

\* Everything that can be reached is loaded: from here on nothing is read.
GraphLoaded ==
  /\ request.at = "reading" /\ request.queue = <<>>
  /\ Goes("gathering", [request EXCEPT !.queue = <<Root>>, !.seen = {Root}])
  /\ UNCHANGED <<scheduled, told, system>>

\* One node of the walk: the root is not gated, a refused node is not visited.
Visit ==
  LET d == Head(request.queue) IN
  /\ request.at = "gathering" /\ request.refs = <<>> /\ request.queue # <<>>
  /\ request' = [request EXCEPT !.queue = Tail(@), !.set = Append(@, d), !.refs = request.graph[d].refs]
  /\ UNCHANGED <<scheduled, told, system>>

\* One reference of the node that was visited last.
Meet ==
  /\ request.at = "gathering" /\ request.refs # <<>>
  /\ request' = meets(request.graph, Last(request.set), [request EXCEPT !.refs = Tail(@)],
                      Head(request.refs))
  /\ UNCHANGED <<scheduled, told, system>>

\* Slip: the root is published whatever the policy.
abortsNever(refusals) == FALSE

aborts(refusals) == refusals # <<>> /\ fails

\* The pin of the root, the policy, and where a dry run ends.
Decide ==
  /\ request.at = "gathering" /\ request.refs = <<>> /\ request.queue = <<>>
  /\ IF request.graph[Root].version = 0 THEN Goes("refused", request)
     ELSE IF aborts(request.refusals)
       THEN Goes(IF request.dry THEN "planned" ELSE "refused", [request EXCEPT !.set = <<>>])
     ELSE Goes(IF request.dry THEN "planned" ELSE "scheduling", request)
  /\ UNCHANGED <<scheduled, told, system>>

\* The channels that were named are the root's: 0 is every channel of the site.
channelsFor(d) == IF request.channels = "own" /\ Site[d] = Site[Root] THEN Site[Root] ELSE 0

\* Service.Publish: one transaction for each job.
Enqueue ==
  LET d == request.set[Len(scheduled) + 1] IN
  /\ request.at = "scheduling" /\ Len(scheduled) < Len(request.set)
  /\ scheduled' = Append(scheduled, [document |-> d, version |-> request.graph[d].version,
                                     channels |-> channelsFor(d)])
  /\ UNCHANGED <<told, request, system>>

\* And, when all are there, one for each event.
RecordEvent ==
  LET n == Len(told) + 1 IN
  /\ request.at = "scheduling" /\ Len(scheduled) = Len(request.set) /\ n <= Len(scheduled)
  /\ told' = Append(told, [document |-> scheduled[n].document, root |-> Root,
                           related |-> IF n = 1 THEN Tail(request.set) ELSE <<>>,
                           refusals |-> IF n = 1 THEN request.refusals ELSE <<>>])
  /\ UNCHANGED <<scheduled, request, system>>

Answer ==
  /\ request.at = "scheduling" /\ Len(told) = Len(request.set)
  /\ Goes("scheduled", request)
  /\ UNCHANGED <<scheduled, told, system>>

\* The caller went away, the database failed, or the process died.
Cut == request.at \notin Ended /\ Goes("cut", request) /\ UNCHANGED <<scheduled, told, system>>

RequestStep ==
  \/ Begin \/ ReadDocument \/ ReadVersion \/ ReadReference \/ NodeLoaded \/ GraphLoaded
  \/ Visit \/ Meet \/ Decide \/ Enqueue \/ RecordEvent \/ Answer

CascadeNext == RequestStep \/ Cut \/ \E d \in Docs : Checkout(d) \/ Checkin(d) \/ Revert(d) \/ Move(d)

CascadeSpec == CascadeInit /\ [][CascadeNext]_cascadeVars

--------------------------------------------------------------------------------
(* Properties                                                                 *)

\* Every variable keeps its type.
CascadeTypeOK ==
  /\ docs \in [Docs -> RowType]
  /\ \A d \in Docs : content[d] \in Contents[d]
  /\ fails \in BOOLEAN /\ request.dry \in BOOLEAN /\ request.channels \in {"every", "own", "another"}
  /\ request.at \in {"asked", "reading", "read", "referring", "gathering", "scheduling"} \cup Ended
  /\ {ToSet(request.queue), request.seen, DOMAIN request.graph, ToSet(request.set)} \subseteq SUBSET Docs
  /\ ToSet(request.refs) \subseteq Docs \cup {NoDocument}
  /\ \A d \in DOMAIN request.graph :
       LET node == request.graph[d] IN
       node.row \in RowType /\ node.version \in 0..MaxVersion /\ ToSet(node.refs) \subseteq Docs \cup {NoDocument}
  /\ \A n \in DOMAIN scheduled :
       scheduled[n] \in [document : Docs, version : Nat, channels : {0} \cup {Site[d] : d \in Docs}]
  /\ Len(told) <= Len(scheduled)
  /\ changes \in 0..MaxChanges

\* The documents that go with the root by the rule itself: those in every set
\* that has the root and, with each member, whatever it refers to and passes.
GoesAlong(graph) ==
  LET follows(S) ==
        /\ Root \in S
        /\ \A d \in S : \A e \in ToSet(graph[d].refs) \ {NoDocument} : gate(graph[e]) = "passes" => e \in S
  IN  {d \in DOMAIN graph : \A S \in SUBSET DOMAIN graph : follows(S) => d \in S}

\* However the references go round, meet or end, and whatever was edited while
\* the graph was read: the walk is loaded to its end, gathers each document that
\* goes along once, after one that refers to it, and names every reference it
\* does not follow, a refused document once and with its reason (LoadGraph and
\* Gather, which must agree on what is followed).
GatheredIsRight ==
  request.at \in {"planned", "scheduling"} /\ request.set # <<>> /\ scheduled = <<>> =>
    LET graph == request.graph
        set == request.set
        refused == ToSet(request.refusals)
    IN  /\ IsInjective(set) /\ ToSet(set) = GoesAlong(graph) /\ Head(set) = Root
        /\ \A n \in 2..Len(set) : \E k \in 1..(n - 1) : set[n] \in ToSet(graph[set[k]].refs)
        /\ \A d \in ToSet(set) : \A e \in ToSet(graph[d].refs) :
             \/ e \in ToSet(set)
             \/ e = NoDocument /\ Refusal(e, d, "missing") \in refused
             \/ \E r \in refused : r.document = e /\ r.reason = gate(graph[e])
        /\ \A r \in refused : r.referrer \in ToSet(set) /\ r.document \notin ToSet(set)
        /\ \A d \in Docs : Cardinality({i \in DOMAIN request.refusals : request.refusals[i].document = d}) <= 1

\* A job names a version that was checked in, once for each document, and only
\* channels of the document's own site (invariant 8, and handing a channel to a
\* document of another site fails when the job runs).
JobsCanRun ==
  /\ \A n \in DOMAIN scheduled :
       /\ scheduled[n].version \in 1..docs[scheduled[n].document].version
       /\ scheduled[n].channels \in {0, Site[scheduled[n].document]}
  /\ \A n, k \in DOMAIN scheduled : scheduled[n].document = scheduled[k].document => n = k

\* Under "fail" nothing is scheduled beside a refusal, a dry run schedules
\* nothing, and what was answered as scheduled is scheduled and told, all of it;
\* whatever is scheduled can run.
PolicyIsKept ==
  /\ JobsCanRun
  /\ fails /\ scheduled # <<>> => request.refusals = <<>>
  /\ request.dry => scheduled = <<>> /\ told = <<>>
  /\ request.at = "scheduled" =>
       /\ [n \in DOMAIN scheduled |-> scheduled[n].document] = request.set
       /\ [n \in DOMAIN told |-> told[n].document] = request.set
       /\ told[1].refusals = request.refusals

(***************************************************************************)
(* Not so.  internal/service/publish.go:245-248 says of the "fail" policy  *)
(* that "a page that goes live linking to a document that did not is the   *)
(* failure the policy exists to prevent".  A request cut off between two   *)
(* jobs leaves the root's, and the queue publishes it alone.               *)
(***************************************************************************)
NoPageWithoutItsRelatives ==
  fails /\ request.at \in Ended /\ scheduled # <<>> => Len(scheduled) = Len(request.set)
================================================================================
