---------------------------------- MODULE Queues ----------------------------------
(***************************************************************************)
(* The lists of documents: filters, their one query, and the saved queues  *)
(* that are filters with a name (internal/domain/queue.go, store/queue.go, *)
(* service/queue.go, config/queues.go).                                    *)
(*                                                                         *)
(* A document here is the row that a list reads: [id, state, site,         *)
(* assignee, due, readers], no assignee and no due date being 0, and       *)
(* readers those whose grants let them read it.                            *)
(***************************************************************************)
EXTENDS Naturals, Sequences, FiniteSets, SequencesExt

CONSTANT DefaultListLimit, MaxListLimit

ASSUME QueuesAssumption == DefaultListLimit \in 1..MaxListLimit /\ MaxListLimit \in Nat

\* A filter: what is "" or 0 or FALSE asks for nothing.
AnyDocument ==
  [state |-> "", site |-> 0, assignedTo |-> 0, unassigned |-> FALSE, overdue |-> FALSE, limit |-> 0]

ValidFilter(f) == ~(f.unassigned /\ f.assignedTo # 0) /\ f.limit \in 0..MaxListLimit

Normalize(f) == [f EXCEPT !.limit = IF @ = 0 THEN DefaultListLimit ELSE @]

\* Due now is overdue.
IsOverdue(d, now) == d.due # 0 /\ d.due <= now

Matches(f, d, now) ==
  /\ f.state = "" \/ d.state = f.state
  /\ f.site = 0 \/ d.site = f.site
  /\ f.assignedTo = 0 \/ d.assignee = f.assignedTo
  /\ f.unassigned => d.assignee = 0
  /\ f.overdue => IsOverdue(d, now)

\* Slip: by the due date, and NULL comes first.
BeforeByDue(d, e) == d.due < e.due \/ (d.due = e.due /\ d.id > e.id)

\* What is due, the soonest first, before what is not; then the newest first.
Before(d, e) ==
  \/ d.due # 0 /\ (e.due = 0 \/ d.due < e.due)
  \/ d.due = e.due /\ d.id > e.id

QueryDocuments(documents, f, now) ==
  LET rows == SetToSortSeq({d \in documents : Matches(f, d, now)}, Before)
      limit == Normalize(f).limit
  IN  SubSeq(rows, 1, IF Len(rows) < limit THEN Len(rows) ELSE limit)

\* The limit is the query's: what the reader may not see is dropped after it.
ListDocuments(documents, reader, f, now) ==
  SelectSeq(QueryDocuments(documents, f, now), LAMBDA d : reader \in d.readers)

\* A saved queue, [state, assignee, overdue], for the one who asks.
Queue(q, reader) ==
  [AnyDocument EXCEPT !.state = q.state, !.overdue = q.overdue,
                      !.assignedTo = IF q.assignee = "me" THEN reader ELSE 0,
                      !.unassigned = q.assignee = "nobody"]

Saved_(state, assignee, overdue) == [state |-> state, assignee |-> assignee, overdue |-> overdue]

DefaultQueues ==
  [mine |-> Saved_("", "me", FALSE),
   unassigned |-> Saved_("", "nobody", FALSE),
   review |-> Saved_("review", "", FALSE),
   needs_editor |-> Saved_("review", "nobody", FALSE),
   ready |-> Saved_("approved", "", FALSE),
   overdue |-> Saved_("", "", TRUE)]
================================================================================
