--------------------------------- MODULE Alerts ---------------------------------
(***************************************************************************)
(* Events and alerts: the audit spine (internal/store/events.go), the rule *)
(* administration and the inbox (service/alerts.go, store/alerts.go) and   *)
(* the dispatchers that evaluate rules over the events                     *)
(* (events/alerts.go).                                                     *)
(*                                                                         *)
(* A dispatcher's pass is five reads and writes with a copy of its own     *)
(* between them; a request that changes or deletes a rule reads it in one  *)
(* step and writes it in another.  Rules may therefore change, go, or be   *)
(* replaced by a rule that is given the same id, while either holds them.  *)
(* Facts and recipients are read in one step per pass.                     *)
(***************************************************************************)
EXTENDS AlertRules, Functions, Bags

CONSTANTS
  User,
  MembersOf(_),   \* who holds a role: nothing in the system takes one away
  Dispatcher,     \* the dispatcher loops over one database
  Request,        \* requests the server may be serving at once
  Batch,          \* DispatcherOptions.Batch
  State,          \* the texts a document's state may be
  StartEvents,    \* what may wait at first: a set of sequences of transitions
  StartState,     \* the state of a document that has not moved
  Registered,     \* the event types a rule may name
  Conditions,     \* the lists of conditions a request may ask for
  Target,         \* [kind, name]
  StartRules,     \* the rules a database may hold at first: a set of functions from ids
  MaxEvents,      \* bound: events
  MaxRules,       \* bound: rule ids in use at once
  MaxCrashes      \* bound: dispatchers that die in mid-pass

ASSUME AlertsAssumption ==
  /\ Batch \in Nat \ {0} /\ MaxEvents \in Nat /\ MaxRules \in Nat /\ MaxCrashes \in Nat
  /\ \A t \in Target : /\ t.kind \in {"user", "role", "email"}
                       /\ t.kind = "user" => t.name \in User
                       /\ t.kind = "role" => MembersOf(t.name) \subseteq User

VARIABLES
  events,      \* the rows of events, by id
  docState,    \* documents.state of the document the events are about
  rules,       \* alert_rules: a function from the ids in use
  uids,        \* how many rule uids were ever given out
  cursor,      \* alert_cursor.last_event_id
  notes,       \* the rows of notifications; born: the uid of the rule evaluated
  sent,        \* the bag of deliveries that left the process
  passes,      \* [Dispatcher -> the pass it is in]
  requests,    \* [Request -> what it has read]
  crashes

ruleVars == <<rules, uids>>
vars == <<events, docState, rules, uids, cursor, notes, sent, passes, requests,
          crashes>>

NoFact == <<>>

\* to: the payload of document.transitioned; actor_uid: who did it.
Event == [type : {"document.transitioned", "alert_rule.created", "alert_rule.updated",
                  "alert_rule.deleted"},
          actor : User, to : State \cup {NoFact}]

\* since: how many events there were when the row was last written (updated_at).
Rule == [uid : Nat, type : Registered, conditions : Conditions, channel : Channel,
         target : Target, active : BOOLEAN, since : Nat]

\* What waits at first are moves of the document, under rules that were validated.
ASSUME StartAssumption ==
  /\ StartEvents \subseteq Seq([type : {"document.transitioned"}, actor : User, to : State])
  /\ StartState \in State
  /\ \A f \in StartRules : /\ DOMAIN f \subseteq 1..MaxRules
                           /\ \A i \in DOMAIN f : f[i] \in Rule /\ Valid(f[i])

\* rule: notifications.rule_id, 0 for NULL.
Note == [user : User, event : Nat, rule : 0..MaxRules, born : Nat, read : BOOLEAN]

Delivery == [event : Nat, born : Nat, to : {t.name : t \in Target} \cup User]

\* from, upto: the events read; rules, notes, mail: what it read and made of them.
Idle == [pc |-> "idle", from |-> 0, upto |-> 0, rules |-> {}, notes |-> {}, mail |-> {}]

Free == [op |-> "none", id |-> 0, row |-> <<>>]

TypeOK ==
  /\ events \in Seq(Event)
  /\ docState \in State
  /\ DOMAIN rules \subseteq 1..MaxRules /\ \A i \in DOMAIN rules : rules[i] \in Rule
  /\ uids \in Nat
  /\ cursor \in 0..Len(events)
  /\ notes \subseteq Note
  /\ IsABag(sent) /\ BagToSet(sent) \subseteq Delivery
  /\ \A d \in Dispatcher :
       /\ DOMAIN passes[d] = DOMAIN Idle
       /\ passes[d].pc \in {"idle", "fetched", "ruled", "evaluated", "sending"}
       /\ passes[d].from <= passes[d].upto /\ passes[d].upto <= Len(events)
       /\ passes[d].notes \subseteq Note /\ passes[d].mail \subseteq Delivery
  /\ \A r \in Request : requests[r].op \in {"none", "update", "delete"}
  /\ crashes \in Nat

\* The cursor is seeded at the newest event there is: those before it are left out.
Init ==
  /\ events \in StartEvents
  /\ docState = IF events = <<>> THEN StartState ELSE Last(events).to
  /\ rules \in StartRules
  /\ uids = Cardinality(DOMAIN rules)
  /\ cursor = 0
  /\ notes = {}
  /\ sent = EmptyBag
  /\ passes = [d \in Dispatcher |-> Idle]
  /\ requests = [r \in Request |-> Free]
  /\ crashes = 0

--------------------------------------------------------------------------------
(* The audit spine                                                            *)

recordEvent(type, actor, to) ==
  /\ Len(events) < MaxEvents
  /\ events' = Append(events, [type |-> type, actor |-> actor, to |-> to])

\* A transition writes the state and its event in one transaction.
Transition ==
  \E u \in User, s \in State \ {docState} :
    /\ recordEvent("document.transitioned", u, s)
    /\ docState' = s
    /\ UNCHANGED <<ruleVars, cursor, notes, sent, passes, requests, crashes>>

--------------------------------------------------------------------------------
(* Rules                                                                      *)

\* The id SQLite gives a new row: one more than the greatest in use.
NextId == IF DOMAIN rules = {} THEN 1 ELSE Max(DOMAIN rules) + 1

insertRule(actor, rule) ==
  /\ NextId <= MaxRules
  /\ rules' = [i \in DOMAIN rules \cup {NextId} |-> IF i \in DOMAIN rules THEN rules[i] ELSE rule]
  /\ recordEvent("alert_rule.created", actor, NoFact)

\* Slip: the UPDATE leaves a column out.
rewrittenButTarget(id, row) == [row EXCEPT !.uid = rules[id].uid, !.target = rules[id].target]

\* UPDATE ... SET: everything but the uid.
rewritten(id, row) == [row EXCEPT !.uid = rules[id].uid]

updateRow(id, actor, row) ==
  /\ id \in DOMAIN rules
  /\ rules' = [rules EXCEPT ![id] = rewritten(id, row)]
  /\ recordEvent("alert_rule.updated", actor, NoFact)

\* Slip: ON DELETE CASCADE.
notesWithout(id) == {n \in notes : n.rule # id}

\* ON DELETE SET NULL: the notifications survive with no rule behind them.
notesOrphaned(id) == {IF n.rule = id THEN [n EXCEPT !.rule = 0] ELSE n : n \in notes}

deleteRow(id, actor) ==
  /\ id \in DOMAIN rules
  /\ rules' = Restrict(rules, DOMAIN rules \ {id})
  /\ notes' = notesOrphaned(id)
  /\ recordEvent("alert_rule.deleted", actor, NoFact)

validateAlertRule(rule) == Valid(rule) /\ rule.type \in Registered

CreateAlertRule ==
  \E u \in User, type \in Registered, c \in Conditions, ch \in Channel, t \in Target :
    LET rule == [uid |-> uids + 1, type |-> type, conditions |-> c, channel |-> ch,
                 target |-> t, active |-> TRUE, since |-> Len(events) + 1]
    IN  /\ validateAlertRule(rule)
        /\ insertRule(u, rule)
        /\ uids' = uids + 1
        /\ UNCHANGED <<docState, cursor, notes, sent, passes, requests, crashes>>

\* AlertRuleByUID, for a request that will change or delete the rule.
ReadRule(r) ==
  \E id \in DOMAIN rules, op \in {"update", "delete"} :
    /\ requests[r] = Free
    /\ requests' = [requests EXCEPT ![r] =
                      [op |-> op, id |-> id, row |-> IF op = "update" THEN rules[id] ELSE <<>>]]
    /\ UNCHANGED <<events, docState, ruleVars, cursor, notes, sent, passes, crashes>>

\* What a PATCH makes of the rule it read: it names any of the fields, and may
\* well give one the value it has.
Patched(row) ==
  {[uid |-> row.uid, type |-> type, conditions |-> c, channel |-> ch, target |-> t,
    active |-> on, since |-> row.since] :
     type \in Registered, c \in Conditions, ch \in Channel, t \in Target, on \in BOOLEAN}

UpdateAlertRule(r) ==
  /\ requests[r].op = "update"
  /\ \/ \E u \in User, row \in Patched(requests[r].row) :
          /\ validateAlertRule(row)
          /\ updateRow(requests[r].id, u, [row EXCEPT !.since = Len(events) + 1])
     \/ UNCHANGED <<rules, events>>  \* invalid, or the row is gone
  /\ requests' = [requests EXCEPT ![r] = Free]
  /\ UNCHANGED <<docState, uids, cursor, notes, sent, passes, crashes>>

DeleteAlertRule(r) ==
  /\ requests[r].op = "delete"
  /\ \/ \E u \in User : deleteRow(requests[r].id, u)
     \/ requests[r].id \notin DOMAIN rules /\ UNCHANGED <<rules, events, notes>>  \* not found
  /\ requests' = [requests EXCEPT ![r] = Free]
  /\ UNCHANGED <<docState, uids, cursor, sent, passes, crashes>>

--------------------------------------------------------------------------------
(* A dispatcher's pass                                                        *)

PendingAlertEvents(d) ==
  /\ passes[d] = Idle /\ cursor < Len(events)
  /\ passes' = [passes EXCEPT ![d] = [Idle EXCEPT !.pc = "fetched", !.from = cursor,
                                       !.upto = Min({cursor + Batch, Len(events)})]]

ActiveAlertRules(d) ==
  /\ passes[d].pc = "fetched"
  /\ passes' = [passes EXCEPT ![d].pc = "ruled",
                              ![d].rules = {<<i, rules[i]>> : i \in {j \in DOMAIN rules :
                                                                       rules[j].active}}]

payload(e) == IF e.type = "document.transitioned" THEN [to |-> e.to] ELSE <<>>

\* The document as it is now.
subject(e) == IF e.type = "document.transitioned" THEN [state |-> docState] ELSE <<>>

facts(e) == [actor |-> [actor_uid |-> e.actor], payload |-> payload(e), subject |-> subject(e)]

recipients(rule) ==
  IF rule.target.kind = "role" THEN MembersOf(rule.target.name) ELSE {rule.target.name}

\* The events, rules and addressees of a pass: <<event, <<rule id, rule>>, addressee>>.
Told(p) ==
  {t \in {<<e, r, who>> : e \in (p.from + 1)..p.upto, r \in p.rules,
                         who \in UNION {recipients(r[2]) : r \in p.rules}} :
     /\ events[t[1]].type = t[2][2].type
     /\ Matches(t[2][2], facts(events[t[1]]))
     /\ t[3] \in recipients(t[2][2])}

evaluate(d) ==
  /\ passes[d].pc = "ruled"
  /\ LET p == passes[d]
         InApp == {t \in Told(p) : t[2][2].channel = "in_app"}
     IN  passes' = [passes EXCEPT
           ![d].pc = "evaluated",
           ![d].rules = {},
           ![d].notes = {[user |-> t[3], event |-> t[1], rule |-> t[2][1], born |-> t[2][2].uid,
                          read |-> FALSE] : t \in InApp},
           ![d].mail = {[event |-> t[1], born |-> t[2][2].uid, to |-> t[3]] :
                          t \in Told(p) \ InApp}]

Evaluation(d) ==
  /\ PendingAlertEvents(d) \/ ActiveAlertRules(d) \/ evaluate(d)
  /\ UNCHANGED <<events, docState, ruleVars, cursor, notes, sent, requests, crashes>>

\* UNIQUE (user_id, event_id, rule_id), in which NULL is unlike NULL.
IsThere(n) == \E m \in notes : m.user = n.user /\ m.event = n.event /\ m.rule = n.rule

\* Slip: the UPDATE of the cursor does not name the value the batch was read at.
commitsAnyway(p) == \A n \in p.notes : n.rule \in DOMAIN rules

\* One transaction: the rows, and the cursor if it is where the batch was read.
\* A row of a rule that is gone breaks the foreign key, which OR IGNORE does not ignore.
commits(p) == cursor = p.from /\ \A n \in p.notes : n.rule \in DOMAIN rules

\* Slip: the cursor is put at the newest event.
cursorAtNewest(p) == Len(events)

\* Slip: one past the batch.
cursorPast(p) == p.upto + 1

cursorAfter(p) == p.upto

\* Slip: a batch that did not commit is tried again as it is.
retriedAsItIs(p) == p

\* The pass is over, and the next one reads everything again.
abandoned(p) == Idle

Deliver(d) ==
  LET p == passes[d] IN
    /\ p.pc = "evaluated"
    /\ \/ /\ commits(p)
          /\ notes' = notes \cup {n \in p.notes : ~IsThere(n)}
          /\ cursor' = cursorAfter(p)
          /\ passes' = [passes EXCEPT
               ![d] = IF p.mail = {} THEN Idle ELSE [Idle EXCEPT !.pc = "sending", !.mail = p.mail]]
       \/ /\ ~commits(p)
          /\ passes' = [passes EXCEPT ![d] = abandoned(p)]
          /\ UNCHANGED <<notes, cursor>>
    /\ UNCHANGED <<events, docState, ruleVars, sent, requests, crashes>>

\* After the commit: a delivery that fails is counted, and no more.
Send(d) ==
  /\ passes[d].pc = "sending"
  /\ \E m \in passes[d].mail :
       /\ sent' \in {sent, sent (+) SetToBag({m})}
       /\ passes' = [passes EXCEPT ![d] = LET left == passes[d].mail \ {m} IN
                                          IF left = {} THEN Idle ELSE [passes[d] EXCEPT !.mail = left]]
  /\ UNCHANGED <<events, docState, ruleVars, cursor, notes, requests, crashes>>

\* The process dies, and what it held with it; another one starts.
Crash(d) ==
  /\ passes[d] # Idle /\ crashes < MaxCrashes
  /\ passes' = [passes EXCEPT ![d] = Idle]
  /\ crashes' = crashes + 1
  /\ UNCHANGED <<events, docState, ruleVars, cursor, notes, sent, requests>>

--------------------------------------------------------------------------------
(* The inbox                                                                  *)

MarkNotificationRead ==
  \E n \in notes :
    /\ ~n.read
    /\ notes' = (notes \ {n}) \cup {[n EXCEPT !.read = TRUE]}
    /\ UNCHANGED <<events, docState, ruleVars, cursor, sent, passes, requests, crashes>>

--------------------------------------------------------------------------------

Dispatch(d) == Evaluation(d) \/ Deliver(d) \/ Send(d)

Next ==
  \/ Transition
  \/ CreateAlertRule
  \/ \E r \in Request : ReadRule(r) \/ UpdateAlertRule(r) \/ DeleteAlertRule(r)
  \/ \E d \in Dispatcher : Dispatch(d) \/ Crash(d)
  \/ MarkNotificationRead

\* Dispatcher.Run goes round until it is told to stop, whatever a pass comes to.
Fairness == \A d \in Dispatcher : WF_vars(Dispatch(d))

Spec == Init /\ [][Next]_vars /\ Fairness

--------------------------------------------------------------------------------
(* Properties                                                                 *)

\* A rule that has stood unchanged since before an event, and whose conditions ask
\* only for what the event itself carries, has put a line of its own in the inbox
\* of all it names by the time the cursor is past the event: a batch is evaluated
\* under rules read after it, and the cursor never passes an event without its
\* rows (Dispatcher.Once, DB.Deliver).  A line of its own: whoever two rules name
\* gets two (OneLinePerPerson).
EveryWatchedEventIsTold ==
  \A id \in DOMAIN rules :
    LET r == rules[id] IN
      r.active /\ r.channel = "in_app" =>
        \A e \in (r.since + 1)..cursor :
          LET own == [facts(events[e]) EXCEPT !.subject = <<>>] IN
            events[e].type = r.type /\ Matches(r, own) =>
              \A u \in recipients(r) :
                \E n \in notes : n.user = u /\ n.event = e /\ n.born = r.uid

\* Whatever requests read, change and write in whatever order, a stored rule is
\* one the dispatcher can run: a target its channel can reach (Service.
\* UpdateAlertRule validates what it writes because it writes the whole row).
StoredRulesAreValid == \A id \in DOMAIN rules : validateAlertRule(rules[id])

\* With several dispatchers, and deaths in mid-pass, what leaves the process is
\* sent once at most, and of an event whose evaluation is recorded (the
\* compare-and-swap of DB.Deliver; deliveries follow the commit).
MailIsSentOnce == \A m \in BagToSet(sent) : sent[m] = 1 /\ m.event <= cursor

Notices == {[user |-> n.user, event |-> n.event, born |-> n.born] : n \in notes}

Feed == INSTANCE EventFeed WITH
  Notice <- [user : User, event : Nat, born : Nat],
  written <- Len(events), evaluated <- cursor, told <- Notices

\* The dispatchers evaluate every event once and in order, and record what is told
\* of an event with its evaluation: rules changed, deleted and replaced meanwhile,
\* a second dispatcher and a crash never tell an event later, or take it back
\* (migration 0012: "every event is evaluated exactly once").
FeedSpec == Feed!Spec

\* Every event is evaluated in the end, though passes are lost to other dispatchers,
\* to deleted rules and to crashes (Dispatcher.Run retries).
EveryEventIsEvaluated == \A n \in 1..MaxEvents : Len(events) >= n ~> cursor >= n

\* Not so.  A PATCH leaves alone the fields it does not name (service/alerts.go,
\* AlertRuleInput): only a request that asks to switch a rule changes its active.
AbsentIsLeftAlone ==
  [][\A r \in Request :
       LET q == requests[r] IN
         /\ q.op = "update" /\ requests'[r] = Free
         /\ q.id \in DOMAIN rules \cap DOMAIN rules'
         /\ rules'[q.id].active # rules[q.id].active
         => rules'[q.id].active # q.row.active
    ]_vars

\* Not so.  A notification's rule is the rule that produced it (domain/alert.go,
\* NewNotification.RuleID).
NoteNamesItsRule == \A n \in notes : n.rule # 0 => rules[n.rule].uid = n.born

\* Not so.  "Two rules that resolve to the same person through different targets"
\* are "one line in an inbox, which is what the index says" (store/alerts.go:298).
\* The index, notifications_once, is of the user, the event and the rule
\* (0012_alerts.sql:97), and the dispatcher makes one row for each: two lines.
OneLinePerPerson ==
  \A m, n \in notes : m.user = n.user /\ m.event = n.event => m = n
================================================================================
