----------------------------- MODULE Alerts_proofs -----------------------------
(***************************************************************************)
(* What the dispatchers guarantee for any number of dispatchers, rules,    *)
(* people and events, whatever requests do to the rules meanwhile and      *)
(* wherever a dispatcher dies: mail is sent once, a rule that stood is     *)
(* heard, and events are evaluated in order and once.                      *)
(***************************************************************************)
EXTENDS Alerts, FiniteSetTheorems, SequenceTheorems, WellFoundedInduction, TLAPS

--------------------------------------------------------------------------------
(* Rules and facts                                                            *)

\* What the event carries itself.
Own(e) == [actor |-> [actor_uid |-> e.actor], payload |-> payload(e), subject |-> <<>>]

LEMMA OwnFacts == ASSUME NEW e PROVE [facts(e) EXCEPT !.subject = <<>>] = Own(e)
BY DEF facts, Own

\* A condition that the event's own facts meet is met whatever the document is:
\* the subject is asked last.
LEMMA OwnFactsDecide ==
  ASSUME NEW rule, NEW e, Matches(rule, Own(e))
  PROVE  Matches(rule, facts(e))
<1>1. SUFFICES ASSUME NEW c \in rule.conditions, ConditionMatches(c, Own(e))
               PROVE  ConditionMatches(c, facts(e))
      BY DEF Matches
<1>   DEFINE A == DOMAIN [actor_uid |-> e.actor]
             P == DOMAIN payload(e)
<1>2. /\ Sources(Own(e))[1] = [actor_uid |-> e.actor] /\ Sources(facts(e))[1] = [actor_uid |-> e.actor]
      /\ Sources(Own(e))[2] = payload(e) /\ Sources(facts(e))[2] = payload(e)
      /\ Sources(Own(e))[3] = <<>>
      BY DEF Sources, Own, facts
<1>3. c.field \in A \/ c.field \in P
      BY <1>1, <1>2 DEF ConditionMatches, Resolves
<1>4. CASE c.field \in A
  <2>1. (CHOOSE i \in 1..3 : /\ c.field \in DOMAIN Sources(Own(e))[i]
                             /\ \A j \in 1..(i - 1) : c.field \notin DOMAIN Sources(Own(e))[j]) = 1
        BY <1>2, <1>4
  <2>2. (CHOOSE i \in 1..3 : /\ c.field \in DOMAIN Sources(facts(e))[i]
                             /\ \A j \in 1..(i - 1) : c.field \notin DOMAIN Sources(facts(e))[j]) = 1
        BY <1>2, <1>4
  <2>3. Resolve(Own(e), c.field) = Resolve(facts(e), c.field)
        BY <1>2, <2>1, <2>2 DEF Resolve
  <2>   QED  BY <1>1, <1>2, <1>4, <2>3 DEF ConditionMatches, Resolves
<1>5. CASE c.field \notin A /\ c.field \in P
  <2>1. (CHOOSE i \in 1..3 : /\ c.field \in DOMAIN Sources(Own(e))[i]
                             /\ \A j \in 1..(i - 1) : c.field \notin DOMAIN Sources(Own(e))[j]) = 2
        BY <1>2, <1>5
  <2>2. (CHOOSE i \in 1..3 : /\ c.field \in DOMAIN Sources(facts(e))[i]
                             /\ \A j \in 1..(i - 1) : c.field \notin DOMAIN Sources(facts(e))[j]) = 2
        BY <1>2, <1>5
  <2>3. Resolve(Own(e), c.field) = Resolve(facts(e), c.field)
        BY <1>2, <2>1, <2>2 DEF Resolve
  <2>   QED  BY <1>1, <1>2, <1>5, <2>3 DEF ConditionMatches, Resolves
<1>   QED  BY <1>3, <1>4, <1>5

\* A valid rule reaches people in the inbox, and people or addresses by mail.
LEMMA RecipientsAreKnown ==
  ASSUME NEW rule \in Rule, Valid(rule)
  PROVE  /\ rule.channel = "in_app" => recipients(rule) \subseteq User
         /\ recipients(rule) \subseteq {t.name : t \in Target} \cup User
<1>1. rule.target \in Target
      BY DEF Rule
<1>   QED  BY <1>1, AlertsAssumption DEF recipients, Valid, ValidTarget

LEMMA PatchesAreRules ==
  ASSUME NEW row \in Rule, NEW n \in Nat, NEW new \in Patched(row)
  PROVE  new \in Rule /\ [new EXCEPT !.since = n] \in Rule
<1>1. PICK type \in Registered, c \in Conditions, ch \in Channel, t \in Target, on \in BOOLEAN :
        new = [uid |-> row.uid, type |-> type, conditions |-> c, channel |-> ch, target |-> t,
               active |-> on, since |-> row.since]
      BY DEF Patched
<1>2. new \in Rule
      BY <1>1 DEF Rule
<1>   QED  BY <1>2 DEF Rule

\* The events, rules and addressees of a pass, one by one.
LEMMA ToldOne ==
  ASSUME NEW p, NEW e, NEW r, NEW who
  PROVE  <<e, r, who>> \in Told(p) <=>
           /\ e \in (p.from + 1)..p.upto /\ r \in p.rules /\ who \in recipients(r[2])
           /\ events[e].type = r[2].type /\ Matches(r[2], facts(events[e]))
BY DEF Told

LEMMA ToldIsTriple ==
  ASSUME NEW p, NEW t \in Told(p)
  PROVE  t = <<t[1], t[2], t[3]>>
BY DEF Told

--------------------------------------------------------------------------------
(* The invariant                                                              *)

PassType == [pc : {"idle", "fetched", "ruled", "evaluated", "sending"}, from : Nat, upto : Nat,
             rules : SUBSET ((1..MaxRules) \X Rule), notes : SUBSET Note, mail : SUBSET Delivery]

RequestType == [op : {"none", "update", "delete"}, id : Nat, row : Rule \cup {<<>>}]

Typed ==
  /\ events \in Seq(Event) /\ docState \in State
  /\ DOMAIN rules \subseteq 1..MaxRules /\ \A i \in DOMAIN rules : rules[i] \in Rule /\ Valid(rules[i])
  /\ uids \in Nat /\ cursor \in 0..Len(events)
  /\ notes \subseteq Note
  /\ IsABag(sent) /\ BagToSet(sent) \subseteq Delivery
  /\ passes \in [Dispatcher -> PassType]
  /\ requests \in [Request -> RequestType]
  /\ \A r \in Request : requests[r].op = "update" => requests[r].row \in Rule
  /\ crashes \in Nat

\* A pass is about events there are, under rules that were valid, and what it made
\* of them is about no others.
Sound(p, n) ==
  /\ p.from <= p.upto /\ p.upto <= n
  /\ p.pc \in {"fetched", "ruled", "evaluated"} => p.from < p.upto
  /\ \A r \in p.rules : Valid(r[2])
  /\ \A m \in p.notes : m.event \in (p.from + 1)..p.upto
  /\ p.pc = "evaluated" => \A m \in p.mail : m.event \in (p.from + 1)..p.upto

Behind == \A n \in notes : n.event <= cursor

\* What is being sent was not sent before, nor is anybody else sending it.
Outgoing ==
  /\ \A d \in Dispatcher : passes[d].pc = "sending" =>
       \A m \in passes[d].mail : m.event <= cursor /\ m \notin BagToSet(sent)
  /\ \A c, d \in Dispatcher : c # d /\ passes[c].pc = "sending" /\ passes[d].pc = "sending" =>
       passes[c].mail \cap passes[d].mail = {}

Notice(u, e, b) == [user |-> u, event |-> e, born |-> b]

\* The rules told of the events up to last as they should.
TellOf(rows, evts, last, N) ==
  \A id \in DOMAIN rows : rows[id].active /\ rows[id].channel = "in_app" =>
    \A e \in (rows[id].since + 1)..last :
      evts[e].type = rows[id].type /\ Matches(rows[id], Own(evts[e])) =>
        \A u \in recipients(rows[id]) : Notice(u, e, rows[id].uid) \in N

\* A pass holds every rule that stood when its events were read, and then their lines.
Sees(p, rows, evts) ==
  /\ p.pc = "ruled" => \A id \in DOMAIN rows :
       rows[id].active /\ rows[id].since < p.upto => <<id, rows[id]>> \in p.rules
  /\ p.pc = "evaluated" => \A id \in DOMAIN rows : rows[id].active /\ rows[id].channel = "in_app" =>
       \A e \in (p.from + 1)..p.upto :
         e > rows[id].since /\ evts[e].type = rows[id].type /\ Matches(rows[id], Own(evts[e])) =>
           \A u \in recipients(rows[id]) :
             \E n \in p.notes : n.user = u /\ n.event = e /\ n.born = rows[id].uid

IInv ==
  /\ Typed
  /\ \A d \in Dispatcher : Sound(passes[d], Len(events))
  /\ Behind
  /\ MailIsSentOnce /\ Outgoing
  /\ TellOf(rules, events, cursor, Notices)
  /\ \A d \in Dispatcher : Sees(passes[d], rules, events)

LEMMA InitIInv == Init => IInv
<1>   SUFFICES ASSUME Init PROVE IInv
      OBVIOUS
<1>1. /\ events \in Seq([type : {"document.transitioned"}, actor : User, to : State])
      /\ rules \in StartRules /\ cursor = 0 /\ notes = {} /\ crashes = 0
      /\ DOMAIN sent = {} /\ IsABag(sent)
      BY StartAssumption DEF Init, EmptyBag, SetToBag, IsABag
<1>2. events \in Seq(Event) /\ \A i \in 1..Len(events) : events[i].to \in State
  <2>   DEFINE Move == [type : {"document.transitioned"}, actor : User, to : State]
  <2>1. \A e \in Move : e \in Event /\ e.to \in State
        BY DEF Event
  <2>2. events \in Seq(Move)
        BY <1>1
  <2>   HIDE DEF Move
  <2>3. \A i \in 1..Len(events) : events[i] \in Move
        BY <2>2
  <2>   QED  BY <2>1, <2>2, <2>3
<1>3. docState \in State
  <2>1. CASE events = <<>>
        BY <2>1, StartAssumption DEF Init
  <2>2. CASE events # <<>>
    <3>1. docState = events[Len(events)].to
          BY <2>2 DEF Init, Last
    <3>2. Len(events) \in 1..Len(events)
          BY <1>1, <2>2
    <3>   QED  BY <1>2, <3>1, <3>2
  <2>   QED  BY <2>1, <2>2
<1>4. /\ DOMAIN rules \subseteq 1..MaxRules /\ \A i \in DOMAIN rules : rules[i] \in Rule /\ Valid(rules[i])
      /\ uids \in Nat
  <2>1. DOMAIN rules \subseteq 1..MaxRules /\ \A i \in DOMAIN rules : rules[i] \in Rule /\ Valid(rules[i])
        BY <1>1, StartAssumption
  <2>2. IsFiniteSet(1..MaxRules)
        BY AlertsAssumption, FS_Interval
  <2>3. Cardinality(DOMAIN rules) \in Nat
        BY <2>1, <2>2, FS_Subset, FS_CardinalityType
  <2>   QED  BY <2>1, <2>3 DEF Init
<1>5. Idle \in PassType /\ Free \in RequestType
      BY DEF Idle, Free, PassType, RequestType
<1>6. /\ passes = [d \in Dispatcher |-> Idle] /\ requests = [r \in Request |-> Free]
      BY DEF Init
<1>7. Typed
      BY <1>1, <1>2, <1>3, <1>4, <1>5, <1>6 DEF Typed, BagToSet, Free
<1>8. \A d \in Dispatcher : Sound(passes[d], Len(events)) /\ Sees(passes[d], rules, events)
  <2>1. Len(events) \in Nat
        BY <1>1
  <2>2. Sound(Idle, Len(events)) /\ Sees(Idle, rules, events)
        BY <2>1 DEF Sound, Sees, Idle
  <2>   QED  BY <1>6, <2>2
<1>9. Behind /\ MailIsSentOnce
      BY <1>1 DEF Behind, MailIsSentOnce, BagToSet
<1>10. Outgoing
      BY <1>6 DEF Outgoing, Idle
<1>11. TellOf(rules, events, cursor, Notices)
  <2>1. \A id \in DOMAIN rules : rules[id].since \in Nat
        BY <1>4 DEF Rule
  <2>   QED  BY <1>1, <2>1 DEF TellOf
<1>   QED  BY <1>7, <1>8, <1>9, <1>10, <1>11 DEF IInv

--------------------------------------------------------------------------------
(* What requests and transitions do                                           *)

\* They write events, and rules that have not stood before them; what was told of
\* stays told, and the passes know nothing of it.
WorldMoves ==
  /\ UNCHANGED <<cursor, sent, passes, crashes>>
  /\ events' \in Seq(Event) /\ Len(events') \in {Len(events), Len(events) + 1}
  /\ \A e \in 1..Len(events) : events'[e] = events[e]
  /\ docState' \in State /\ uids' \in Nat
  /\ DOMAIN rules' \subseteq 1..MaxRules
  /\ \A id \in DOMAIN rules' :
       /\ rules'[id] \in Rule /\ Valid(rules'[id])
       /\ (id \in DOMAIN rules /\ rules'[id] = rules[id]) \/ rules'[id].since > Len(events)
  /\ requests' \in [Request -> RequestType]
  /\ \A r \in Request : requests'[r].op = "update" => requests'[r].row \in Rule
  /\ notes' \subseteq Note /\ Notices' = Notices

LEMMA RecordEvent ==
  ASSUME Typed, NEW type \in {"document.transitioned", "alert_rule.created",
                              "alert_rule.updated", "alert_rule.deleted"},
         NEW u \in User, NEW to \in State \cup {NoFact}, recordEvent(type, u, to)
  PROVE  /\ events' \in Seq(Event) /\ Len(events') = Len(events) + 1
         /\ \A e \in 1..Len(events) : events'[e] = events[e]
<1>   DEFINE new == [type |-> type, actor |-> u, to |-> to]
<1>1. new \in Event
      BY DEF Event
<1>2. events \in Seq(Event) /\ events' = Append(events, new)
      BY DEF Typed, recordEvent
<1>   HIDE DEF new
<1>   QED  BY <1>1, <1>2, AppendProperties

LEMMA MoveTransition == ASSUME Typed, Transition PROVE WorldMoves
<1>1. PICK u \in User, s \in State :
        /\ recordEvent("document.transitioned", u, s) /\ docState' = s
        /\ UNCHANGED <<ruleVars, cursor, notes, sent, passes, requests, crashes>>
      BY DEF Transition
<1>2. /\ events' \in Seq(Event) /\ Len(events') = Len(events) + 1
      /\ \A e \in 1..Len(events) : events'[e] = events[e]
      BY <1>1, RecordEvent
<1>   QED  BY <1>1, <1>2 DEF WorldMoves, Typed, ruleVars, Notices

LEMMA LeastNumber ==
  ASSUME NEW T \in SUBSET Nat, T # {}
  PROVE  \E x \in T : \A y \in T : x <= y
<1>   DEFINE R == {ss \in Nat \X Nat : ss[1] < ss[2]}
<1>0. ASSUME NEW f \in [Nat -> Nat], \A n \in Nat : <<f[n + 1], f[n]>> \in R PROVE FALSE
  <2>1. \A n \in Nat : n + 1 \in Nat
        OBVIOUS
  <2>2. \A n \in Nat : <<f[n + 1], f[n]>> \in Nat \X Nat /\ f[n + 1] < f[n]
        BY <1>0, <2>1
  <2>   QED  BY <2>2, NatLessThanWellFounded, Zenon DEF IsWellFoundedOn, OpToRel
<1>1. IsWellFoundedOn(R, Nat)
      BY <1>0 DEF IsWellFoundedOn
<1>2. PICK x \in T : \A y \in T : <<y, x>> \notin R
      BY <1>1, WFMin
<1>3. ASSUME NEW y \in T PROVE x <= y
  <2>1. x \in Nat /\ y \in Nat /\ <<y, x>> \in Nat \X Nat
        OBVIOUS
  <2>2. <<y, x>>[1] = y /\ <<y, x>>[2] = x
        OBVIOUS
  <2>3. ~(y < x)
        BY <1>2, <2>1, <2>2
  <2>   QED  BY <2>1, <2>3
<1>   QED  BY <1>3

\* A bounded set of numbers has its maximum: the least of its bounds.
LEMMA MaxIsGreatest ==
  ASSUME NEW S \in SUBSET Nat, S # {}, NEW k \in Nat, \A s \in S : s <= k
  PROVE  Max(S) \in S /\ \A s \in S : s <= Max(S)
<1>   DEFINE bounds == {n \in Nat : \A s \in S : s <= n}
<1>1. PICK x \in bounds : \A y \in bounds : x <= y
      BY LeastNumber
<1>2. x \in S
  <2>   SUFFICES ASSUME x \notin S PROVE FALSE
        OBVIOUS
  <2>1. \A s \in S : s < x
        BY <1>1
  <2>0. PICK s \in S : TRUE
        OBVIOUS
  <2>2. x - 1 \in Nat /\ \A t \in S : t <= x - 1
        BY <1>1, <2>0, <2>1
  <2>   QED  BY <1>1, <2>2
<1>3. x \in S /\ \A s \in S : x >= s
      BY <1>1, <1>2
<1>   HIDE DEF bounds
<1>4. Max(S) \in S /\ \A s \in S : Max(S) >= s
      BY <1>3, Zenon DEF Max
<1>   QED  BY <1>4

LEMMA MoveCreate == ASSUME Typed, CreateAlertRule PROVE WorldMoves
<1>1. PICK u \in User, type \in Registered, c \in Conditions, ch \in Channel, t \in Target :
        LET rule == [uid |-> uids + 1, type |-> type, conditions |-> c, channel |-> ch,
                     target |-> t, active |-> TRUE, since |-> Len(events) + 1]
        IN  /\ validateAlertRule(rule) /\ insertRule(u, rule) /\ uids' = uids + 1
            /\ UNCHANGED <<docState, cursor, notes, sent, passes, requests, crashes>>
      BY DEF CreateAlertRule
<1>   DEFINE rule == [uid |-> uids + 1, type |-> type, conditions |-> c, channel |-> ch,
                      target |-> t, active |-> TRUE, since |-> Len(events) + 1]
<1>2. events \in Seq(Event) /\ Len(events) \in Nat
      BY DEF Typed
<1>3. rule \in Rule /\ Valid(rule) /\ rule.since > Len(events)
      BY <1>1, <1>2 DEF Typed, Rule, validateAlertRule
<1>4. NextId \in 1..MaxRules
  <2>1. NextId <= MaxRules
        BY <1>1 DEF insertRule
  <2>2. CASE DOMAIN rules = {}
        BY <2>1, <2>2 DEF NextId
  <2>3. CASE DOMAIN rules # {}
    <3>1. DOMAIN rules \in SUBSET Nat /\ \A i \in DOMAIN rules : i <= MaxRules
          BY AlertsAssumption DEF Typed
    <3>2. Max(DOMAIN rules) \in DOMAIN rules
          BY <2>3, <3>1, AlertsAssumption, MaxIsGreatest
    <3>   QED  BY <2>1, <2>3, <3>2, AlertsAssumption DEF NextId, Typed
  <2>   QED  BY <2>2, <2>3
<1>5. /\ events' \in Seq(Event) /\ Len(events') = Len(events) + 1
      /\ \A e \in 1..Len(events) : events'[e] = events[e]
      BY <1>1, RecordEvent DEF insertRule
<1>6. /\ rules' = [i \in DOMAIN rules \cup {NextId} |-> IF i \in DOMAIN rules THEN rules[i] ELSE rule]
      /\ uids' = uids + 1
      /\ UNCHANGED <<docState, cursor, notes, sent, passes, requests, crashes>>
      BY <1>1 DEF insertRule
<1>   HIDE DEF rule
<1>7. /\ DOMAIN rules' \subseteq 1..MaxRules
      /\ \A id \in DOMAIN rules' :
           /\ rules'[id] \in Rule /\ Valid(rules'[id])
           /\ (id \in DOMAIN rules /\ rules'[id] = rules[id]) \/ rules'[id].since > Len(events)
      BY <1>3, <1>4, <1>6 DEF Typed
<1>8. docState' \in State /\ uids' \in Nat /\ requests' \in [Request -> RequestType] /\ notes' \subseteq Note
      BY <1>6 DEF Typed
<1>9. \A r \in Request : requests'[r].op = "update" => requests'[r].row \in Rule
      BY <1>6 DEF Typed
<1>10. Notices' = Notices /\ UNCHANGED <<cursor, sent, passes, crashes>>
      BY <1>6 DEF Notices
<1>   QED  BY <1>5, <1>7, <1>8, <1>9, <1>10 DEF WorldMoves

LEMMA MoveRead == ASSUME Typed, NEW r \in Request, ReadRule(r) PROVE WorldMoves
<1>1. PICK id \in DOMAIN rules, op \in {"update", "delete"} :
        /\ requests' = [requests EXCEPT ![r] =
                          [op |-> op, id |-> id, row |-> IF op = "update" THEN rules[id] ELSE <<>>]]
        /\ UNCHANGED <<events, docState, ruleVars, cursor, notes, sent, passes, crashes>>
      BY DEF ReadRule
<1>   DEFINE q == [op |-> op, id |-> id, row |-> IF op = "update" THEN rules[id] ELSE <<>>]
<1>2. q \in RequestType /\ (q.op = "update" => q.row \in Rule)
      BY AlertsAssumption DEF Typed, RequestType
<1>3. requests' = [requests EXCEPT ![r] = q]
      BY <1>1
<1>   HIDE DEF q
<1>4. /\ requests' \in [Request -> RequestType]
      /\ \A s \in Request : requests'[s].op = "update" => requests'[s].row \in Rule
      BY <1>2, <1>3 DEF Typed
<1>   QED  BY <1>1, <1>4 DEF WorldMoves, Typed, ruleVars, Notices

LEMMA RequestIsOver ==
  ASSUME Typed, NEW r \in Request, requests' = [requests EXCEPT ![r] = Free]
  PROVE  /\ requests' \in [Request -> RequestType]
         /\ \A s \in Request : requests'[s].op = "update" => requests'[s].row \in Rule
<1>1. Free \in RequestType /\ Free.op # "update"
      BY DEF Free, RequestType
<1>   QED  BY <1>1 DEF Typed

LEMMA MoveUpdate == ASSUME Typed, NEW r \in Request, UpdateAlertRule(r) PROVE WorldMoves
<1>1. /\ requests[r].op = "update" /\ requests' = [requests EXCEPT ![r] = Free]
      /\ UNCHANGED <<docState, uids, cursor, notes, sent, passes, crashes>>
      BY DEF UpdateAlertRule
<1>2. /\ requests' \in [Request -> RequestType]
      /\ \A s \in Request : requests'[s].op = "update" => requests'[s].row \in Rule
      BY <1>1, RequestIsOver
<1>3. CASE UNCHANGED <<rules, events>>
      BY <1>1, <1>2, <1>3 DEF WorldMoves, Typed, Notices
<1>4. CASE ~ UNCHANGED <<rules, events>>
  <2>1. PICK u \in User, row \in Patched(requests[r].row) :
          validateAlertRule(row) /\ updateRow(requests[r].id, u, [row EXCEPT !.since = Len(events) + 1])
        BY <1>4 DEF UpdateAlertRule
  <2>   DEFINE id == requests[r].id
               dated == [row EXCEPT !.since = Len(events) + 1]
               new == [dated EXCEPT !.uid = rules[id].uid]
  <2>2. /\ id \in DOMAIN rules /\ rules' = [rules EXCEPT ![id] = new]
        /\ recordEvent("alert_rule.updated", u, NoFact)
        BY <2>1 DEF updateRow, rewritten
  <2>3. events \in Seq(Event) /\ Len(events) + 1 \in Nat /\ requests[r].row \in Rule
        BY <1>1 DEF Typed
  <2>4. row \in Rule /\ dated \in Rule
        BY <2>3, PatchesAreRules
  <2>5. rules[id].uid \in Nat /\ dated.since = Len(events) + 1
        BY <2>2, <2>4 DEF Typed, Rule
  <2>   HIDE DEF dated
  <2>6. new \in Rule /\ new.since > Len(events)
        BY <2>3, <2>4, <2>5 DEF Rule
  <2>7. Valid(new)
    <3>1. row.channel = new.channel /\ row.target = new.target /\ row.conditions = new.conditions
          BY <2>4 DEF Rule, dated
    <3>   QED  BY <2>1, <3>1 DEF validateAlertRule, Valid
  <2>8. /\ events' \in Seq(Event) /\ Len(events') = Len(events) + 1
        /\ \A e \in 1..Len(events) : events'[e] = events[e]
        BY <2>2, RecordEvent
  <2>   HIDE DEF id, dated, new
  <2>9. /\ DOMAIN rules' \subseteq 1..MaxRules
        /\ \A i \in DOMAIN rules' :
             /\ rules'[i] \in Rule /\ Valid(rules'[i])
             /\ (i \in DOMAIN rules /\ rules'[i] = rules[i]) \/ rules'[i].since > Len(events)
        BY <2>2, <2>6, <2>7 DEF Typed
  <2>   QED  BY <1>1, <1>2, <2>8, <2>9 DEF WorldMoves, Typed, Notices
<1>   QED  BY <1>3, <1>4

LEMMA MoveDelete == ASSUME Typed, NEW r \in Request, DeleteAlertRule(r) PROVE WorldMoves
<1>1. /\ requests' = [requests EXCEPT ![r] = Free]
      /\ UNCHANGED <<docState, uids, cursor, sent, passes, crashes>>
      BY DEF DeleteAlertRule
<1>2. /\ requests' \in [Request -> RequestType]
      /\ \A s \in Request : requests'[s].op = "update" => requests'[s].row \in Rule
      BY <1>1, RequestIsOver
<1>3. CASE UNCHANGED <<rules, events, notes>>
      BY <1>1, <1>2, <1>3 DEF WorldMoves, Typed, Notices
<1>4. CASE ~ UNCHANGED <<rules, events, notes>>
  <2>   DEFINE id == requests[r].id
  <2>1. PICK u \in User : deleteRow(id, u)
        BY <1>4 DEF DeleteAlertRule
  <2>2. /\ rules' = [i \in DOMAIN rules \ {id} |-> rules[i]]
        /\ notes' = {IF n.rule = id THEN [n EXCEPT !.rule = 0] ELSE n : n \in notes}
        /\ recordEvent("alert_rule.deleted", u, NoFact)
        BY <2>1 DEF deleteRow, Restrict, notesOrphaned
  <2>   HIDE DEF id
  <2>3. /\ events' \in Seq(Event) /\ Len(events') = Len(events) + 1
        /\ \A e \in 1..Len(events) : events'[e] = events[e]
        BY <2>2, RecordEvent
  <2>   DEFINE orphan(n) == IF n.rule = id THEN [n EXCEPT !.rule = 0] ELSE n
               tells(n) == [user |-> n.user, event |-> n.event, born |-> n.born]
  <2>4. \A n \in notes : orphan(n) \in Note /\ tells(orphan(n)) = tells(n)
        BY AlertsAssumption DEF Typed, Note
  <2>5. /\ notes' = {orphan(n) : n \in notes}
        /\ Notices = {tells(n) : n \in notes} /\ Notices' = {tells(n) : n \in notes'}
        BY <2>2 DEF Notices
  <2>   HIDE DEF orphan, tells
  <2>6. notes' \subseteq Note /\ Notices' = Notices
        BY <2>4, <2>5
  <2>   QED  BY <1>1, <1>2, <2>2, <2>3, <2>6 DEF WorldMoves, Typed
<1>   QED  BY <1>3, <1>4

LEMMA MoveMark == ASSUME Typed, MarkNotificationRead PROVE WorldMoves
<1>1. PICK n \in notes :
        /\ notes' = (notes \ {n}) \cup {[n EXCEPT !.read = TRUE]}
        /\ UNCHANGED <<events, docState, ruleVars, cursor, sent, passes, requests, crashes>>
      BY DEF MarkNotificationRead
<1>   DEFINE tells(m) == [user |-> m.user, event |-> m.event, born |-> m.born]
             seen == [n EXCEPT !.read = TRUE]
<1>2. seen \in Note /\ tells(seen) = tells(n)
      BY DEF Typed, Note
<1>3. /\ notes' = (notes \ {n}) \cup {seen}
      /\ Notices = {tells(m) : m \in notes} /\ Notices' = {tells(m) : m \in notes'}
      BY <1>1 DEF Notices
<1>   HIDE DEF tells, seen
<1>4. notes' \subseteq Note /\ Notices' = Notices
      BY <1>2, <1>3 DEF Typed
<1>   QED  BY <1>1, <1>4 DEF WorldMoves, Typed, ruleVars

LEMMA WorldIInv == ASSUME IInv, WorldMoves PROVE IInv'
<1>1. /\ events \in Seq(Event) /\ Len(events) \in Nat /\ Len(events') \in Nat
      /\ Len(events) <= Len(events') /\ cursor \in 0..Len(events)
      BY DEF IInv, Typed, WorldMoves
<1>2. cursor' = cursor /\ passes' = passes /\ sent' = sent /\ crashes' = crashes
      BY DEF WorldMoves
<1>3. Typed'
      BY <1>1, <1>2 DEF IInv, Typed, WorldMoves
<1>4. \A d \in Dispatcher : Sound(passes'[d], Len(events'))
  <2>   TAKE d \in Dispatcher
  <2>1. Sound(passes[d], Len(events)) /\ passes[d].upto \in Nat
        BY DEF IInv, Typed, PassType
  <2>   QED  BY <1>1, <1>2, <2>1 DEF Sound
<1>5. Behind'
  <2>   SUFFICES ASSUME NEW n \in notes' PROVE n.event <= cursor
        BY <1>2 DEF Behind
  <2>1. [user |-> n.user, event |-> n.event, born |-> n.born] \in Notices'
        BY DEF Notices
  <2>2. PICK m \in notes : [user |-> m.user, event |-> m.event, born |-> m.born]
                           = [user |-> n.user, event |-> n.event, born |-> n.born]
        BY <2>1 DEF WorldMoves, Notices
  <2>   QED  BY <2>2 DEF IInv, Behind
<1>6. MailIsSentOnce' /\ Outgoing'
      BY <1>2 DEF IInv, MailIsSentOnce, Outgoing
<1>7. ASSUME NEW id \in DOMAIN rules', rules'[id].since < Len(events)
      PROVE  id \in DOMAIN rules /\ rules'[id] = rules[id] /\ rules[id].since \in Nat
  <2>1. rules'[id].since \in Nat
        BY DEF WorldMoves, Rule
  <2>   QED  BY <1>1, <1>7, <2>1 DEF WorldMoves
<1>8. \A id \in DOMAIN rules' : rules'[id].since \in Nat
      BY DEF WorldMoves, Rule
<1>9. \A e \in 1..Len(events) : events'[e] = events[e] /\ Own(events'[e]) = Own(events[e])
      BY DEF WorldMoves
<1>10. TellOf(rules', events', cursor, Notices')
  <2>   SUFFICES ASSUME NEW id \in DOMAIN rules', rules'[id].active, rules'[id].channel = "in_app",
                        NEW e \in (rules'[id].since + 1)..cursor,
                        events'[e].type = rules'[id].type, Matches(rules'[id], Own(events'[e])),
                        NEW u \in recipients(rules'[id])
                 PROVE  Notice(u, e, rules'[id].uid) \in Notices
        BY DEF TellOf, WorldMoves
  <2>1. e \in 1..Len(events) /\ rules'[id].since < Len(events)
        BY <1>1, <1>8
  <2>2. id \in DOMAIN rules /\ rules'[id] = rules[id] /\ events'[e] = events[e]
        BY <1>7, <1>9, <2>1
  <2>   QED  BY <2>2 DEF IInv, TellOf
<1>11. \A d \in Dispatcher : Sees(passes'[d], rules', events')
  <2>   TAKE d \in Dispatcher
  <2>   DEFINE p == passes[d]
  <2>1. Sees(p, rules, events) /\ p.upto <= Len(events) /\ p.from \in Nat /\ p.upto \in Nat
        BY DEF IInv, Sound, Typed, PassType
  <2>   HIDE DEF p
  <2>2. ASSUME p.pc = "ruled", NEW id \in DOMAIN rules', rules'[id].active, rules'[id].since < p.upto
        PROVE  <<id, rules'[id]>> \in p.rules
    <3>1. rules'[id].since < Len(events)
          BY <1>1, <1>8, <2>1, <2>2
    <3>   QED  BY <1>7, <2>1, <2>2, <3>1 DEF Sees
  <2>3. ASSUME p.pc = "evaluated", NEW id \in DOMAIN rules', rules'[id].active,
               rules'[id].channel = "in_app", NEW e \in (p.from + 1)..p.upto, e > rules'[id].since,
               events'[e].type = rules'[id].type, Matches(rules'[id], Own(events'[e])),
               NEW u \in recipients(rules'[id])
        PROVE  \E n \in p.notes : n.user = u /\ n.event = e /\ n.born = rules'[id].uid
    <3>1. e \in 1..Len(events) /\ rules'[id].since < Len(events)
          BY <1>1, <1>8, <2>1, <2>3
    <3>2. id \in DOMAIN rules /\ rules'[id] = rules[id] /\ events'[e] = events[e]
          BY <1>7, <1>9, <3>1
    <3>   QED  BY <2>1, <2>3, <3>2 DEF Sees
  <2>4. Sees(p, rules', events')
        BY <2>2, <2>3 DEF Sees
  <2>   QED  BY <1>2, <2>4 DEF p
<1>   QED  BY <1>2, <1>3, <1>4, <1>5, <1>6, <1>10, <1>11 DEF IInv

LEMMA WorldIsAWrite ==
  ASSUME IInv, WorldMoves
  PROVE  Feed!Next \/ UNCHANGED <<Len(events), cursor, Notices>>
BY DEF IInv, Typed, WorldMoves, Feed!Next, Feed!Write

--------------------------------------------------------------------------------
(* What a dispatcher does                                                     *)

\* A pass that sends nothing need only be sound, and see what stands.
LEMMA PassIInv ==
  ASSUME IInv, NEW d \in Dispatcher, NEW p \in PassType,
         UNCHANGED <<events, docState, ruleVars, cursor, notes, sent, requests>>, crashes' \in Nat,
         passes' = [passes EXCEPT ![d] = p],
         Sound(p, Len(events)), Sees(p, rules, events), p.pc # "sending"
  PROVE  IInv' /\ UNCHANGED <<Len(events), cursor, Notices>>
<1>1. /\ \A c \in Dispatcher : passes'[c] = IF c = d THEN p ELSE passes[c]
      /\ passes' \in [Dispatcher -> PassType]
      BY DEF IInv, Typed
<1>2. Typed'
      BY <1>1 DEF IInv, Typed, ruleVars
<1>3. \A c \in Dispatcher : Sound(passes'[c], Len(events')) /\ Sees(passes'[c], rules', events')
      BY <1>1 DEF IInv, ruleVars
<1>4. Behind' /\ MailIsSentOnce'
      BY DEF IInv, Behind, MailIsSentOnce
<1>5. Outgoing'
      BY <1>1 DEF IInv, Outgoing
<1>6. TellOf(rules', events', cursor', Notices')
      BY DEF IInv, Notices, ruleVars
<1>7. UNCHANGED <<Len(events), cursor, Notices>>
      BY DEF Notices
<1>   QED  BY <1>2, <1>3, <1>4, <1>5, <1>6, <1>7 DEF IInv

LEMMA LeastOfTwo == ASSUME NEW a \in Nat, NEW b \in Nat PROVE Min({a, b}) = IF a <= b THEN a ELSE b
<1>1. ASSUME NEW x \in {a, b}, NEW y \in {a, b}, \A z \in {a, b} : x <= z, \A z \in {a, b} : y <= z
      PROVE  x = y
      BY <1>1
<1>2. \E x \in {a, b} : x = (IF a <= b THEN a ELSE b) /\ \A z \in {a, b} : x <= z
      OBVIOUS
<1>   QED  BY <1>1, <1>2 DEF Min

LEMMA IdleIsFine == Idle \in PassType /\ Sound(Idle, Len(events)) /\ Sees(Idle, rules, events)
                    /\ Idle.pc # "sending"
BY DEF Idle, PassType, Sound, Sees

LEMMA StepFetch ==
  ASSUME IInv, NEW d \in Dispatcher, PendingAlertEvents(d),
         UNCHANGED <<events, docState, ruleVars, cursor, notes, sent, requests, crashes>>
  PROVE  IInv' /\ UNCHANGED <<Len(events), cursor, Notices>>
<1>   DEFINE upto == Min({cursor + Batch, Len(events)})
             p == [Idle EXCEPT !.pc = "fetched", !.from = cursor, !.upto = upto]
<1>1. /\ cursor \in Nat /\ Len(events) \in Nat /\ cursor < Len(events) /\ crashes \in Nat
      /\ passes' = [passes EXCEPT ![d] = p]
      BY DEF PendingAlertEvents, IInv, Typed
<1>2. upto \in Nat /\ cursor < upto /\ upto <= Len(events)
  <2>1. cursor + Batch \in Nat /\ cursor + Batch > cursor
        BY <1>1, AlertsAssumption
  <2>2. upto = IF cursor + Batch <= Len(events) THEN cursor + Batch ELSE Len(events)
        BY <1>1, <2>1, LeastOfTwo
  <2>   HIDE DEF upto
  <2>   QED  BY <1>1, <2>1, <2>2
<1>   HIDE DEF upto
<1>3. /\ p \in PassType /\ p.pc = "fetched" /\ p.from = cursor /\ p.upto = upto /\ p.rules = {}
      /\ p.notes = {} /\ p.mail = {}
      BY <1>1, <1>2 DEF Idle, PassType
<1>   HIDE DEF p
<1>4. Sound(p, Len(events)) /\ Sees(p, rules, events)
      BY <1>1, <1>2, <1>3 DEF Sound, Sees
<1>   QED  BY <1>1, <1>3, <1>4, PassIInv

LEMMA StepRules ==
  ASSUME IInv, NEW d \in Dispatcher, ActiveAlertRules(d),
         UNCHANGED <<events, docState, ruleVars, cursor, notes, sent, requests, crashes>>
  PROVE  IInv' /\ UNCHANGED <<Len(events), cursor, Notices>>
<1>   DEFINE q == passes[d]
             active == {<<i, rules[i]>> : i \in {j \in DOMAIN rules : rules[j].active}}
             p == [q EXCEPT !.pc = "ruled", !.rules = active]
<1>1. /\ passes' = [passes EXCEPT ![d] = p] /\ q.pc = "fetched" /\ q \in PassType
      /\ Sound(q, Len(events)) /\ crashes \in Nat
      BY DEF ActiveAlertRules, IInv, Typed
<1>2. active \in SUBSET ((1..MaxRules) \X Rule) /\ \A r \in active : Valid(r[2])
      BY DEF IInv, Typed
<1>3. \A id \in DOMAIN rules : rules[id].active => <<id, rules[id]>> \in active
      OBVIOUS
<1>   HIDE DEF active, q
<1>4. /\ p \in PassType /\ p.pc = "ruled" /\ p.rules = active
      /\ p.from = q.from /\ p.upto = q.upto /\ p.notes = q.notes /\ p.mail = q.mail
      BY <1>1, <1>2 DEF PassType
<1>   HIDE DEF p
<1>5. Sound(p, Len(events)) /\ Sees(p, rules, events)
      BY <1>1, <1>2, <1>3, <1>4 DEF Sound, Sees
<1>   QED  BY <1>1, <1>4, <1>5, PassIInv

LEMMA StepEvaluate ==
  ASSUME IInv, NEW d \in Dispatcher, evaluate(d),
         UNCHANGED <<events, docState, ruleVars, cursor, notes, sent, requests, crashes>>
  PROVE  IInv' /\ UNCHANGED <<Len(events), cursor, Notices>>
<1>   DEFINE q == passes[d]
             InApp == {t \in Told(q) : t[2][2].channel = "in_app"}
             line(t) == [user |-> t[3], event |-> t[1], rule |-> t[2][1], born |-> t[2][2].uid,
                         read |-> FALSE]
             letter(t) == [event |-> t[1], born |-> t[2][2].uid, to |-> t[3]]
             lines == {line(t) : t \in InApp}
             letters == {letter(t) : t \in Told(q) \ InApp}
             p == [q EXCEPT !.pc = "evaluated", !.rules = {}, !.notes = lines, !.mail = letters]
<1>1. /\ passes' = [passes EXCEPT ![d] = p] /\ q.pc = "ruled" /\ q \in PassType
      /\ Sound(q, Len(events)) /\ Sees(q, rules, events) /\ crashes \in Nat
      BY DEF evaluate, IInv, Typed
<1>2. ASSUME NEW t \in Told(q)
      PROVE  /\ t[1] \in (q.from + 1)..q.upto /\ t[1] \in Nat
             /\ t[2] \in q.rules /\ t[2][1] \in 0..MaxRules /\ t[2][2] \in Rule /\ Valid(t[2][2])
             /\ t[2][2].uid \in Nat /\ t[3] \in recipients(t[2][2])
  <2>1. <<t[1], t[2], t[3]>> \in Told(q)
        BY ToldIsTriple
  <2>2. /\ t[1] \in (q.from + 1)..q.upto /\ t[2] \in q.rules /\ t[3] \in recipients(t[2][2])
        BY <2>1, ToldOne, Zenon
  <2>3. t[2] \in (1..MaxRules) \X Rule /\ q.from \in Nat /\ q.upto \in Nat
        BY <1>1, <2>2 DEF PassType
  <2>4. t[2][1] \in 0..MaxRules /\ t[2][2] \in Rule /\ t[2][2].uid \in Nat
        BY <2>3, AlertsAssumption DEF Rule
  <2>   QED  BY <1>1, <2>2, <2>3, <2>4 DEF Sound
<1>3. \A t \in InApp : line(t) \in Note /\ line(t).event \in (q.from + 1)..q.upto
  <2>   TAKE t \in InApp
  <2>1. t[3] \in User
        BY <1>2, RecipientsAreKnown
  <2>   QED  BY <1>2, <2>1 DEF Note
<1>4. \A t \in Told(q) : letter(t) \in Delivery /\ letter(t).event \in (q.from + 1)..q.upto
  <2>   TAKE t \in Told(q)
  <2>1. t[3] \in {x.name : x \in Target} \cup User
        BY <1>2, RecipientsAreKnown
  <2>   QED  BY <1>2, <2>1 DEF Delivery
<1>5. /\ lines \subseteq Note /\ \A m \in lines : m.event \in (q.from + 1)..q.upto
      /\ letters \subseteq Delivery /\ \A m \in letters : m.event \in (q.from + 1)..q.upto
  <2>   HIDE DEF line, letter
  <2>   QED  BY <1>3, <1>4
<1>6. ASSUME NEW id \in DOMAIN rules, rules[id].active, rules[id].channel = "in_app",
             NEW e \in (q.from + 1)..q.upto, e > rules[id].since, events[e].type = rules[id].type,
             Matches(rules[id], Own(events[e])), NEW u \in recipients(rules[id])
      PROVE  \E n \in lines : n.user = u /\ n.event = e /\ n.born = rules[id].uid
  <2>   DEFINE r == <<id, rules[id]>>
               t == <<e, r, u>>
  <2>1. rules[id].since \in Nat /\ q.from \in Nat /\ q.upto \in Nat
        BY <1>1 DEF IInv, Typed, Rule, PassType
  <2>2. r \in q.rules
        BY <1>1, <1>6, <2>1 DEF Sees
  <2>3. r[2] = rules[id]
        OBVIOUS
  <2>4. t \in Told(q)
        BY <1>6, <2>2, <2>3, ToldOne, OwnFactsDecide
  <2>5. t \in InApp
        BY <1>6, <2>4
  <2>6. line(t) \in lines /\ line(t).user = u /\ line(t).event = e /\ line(t).born = rules[id].uid
        BY <2>5
  <2>   QED  BY <2>6
<1>   HIDE DEF q, lines, letters
<1>7. /\ p \in PassType /\ p.pc = "evaluated" /\ p.rules = {} /\ p.notes = lines /\ p.mail = letters
      /\ p.from = q.from /\ p.upto = q.upto
      BY <1>1, <1>5 DEF PassType
<1>   HIDE DEF p
<1>8. Sound(p, Len(events))
      BY <1>1, <1>5, <1>7 DEF Sound
<1>9. Sees(p, rules, events)
  <2>   SUFFICES ASSUME NEW id \in DOMAIN rules, rules[id].active, rules[id].channel = "in_app",
                        NEW e \in (q.from + 1)..q.upto, e > rules[id].since,
                        events[e].type = rules[id].type, Matches(rules[id], Own(events[e])),
                        NEW u \in recipients(rules[id])
                 PROVE  \E n \in lines : n.user = u /\ n.event = e /\ n.born = rules[id].uid
        BY <1>7 DEF Sees
  <2>   QED  BY <1>6
<1>   QED  BY <1>1, <1>7, <1>8, <1>9, PassIInv

LEMMA StepDeliver ==
  ASSUME IInv, NEW d \in Dispatcher, Deliver(d)
  PROVE  IInv' /\ (Feed!Next \/ UNCHANGED <<Len(events), cursor, Notices>>)
<1>   DEFINE q == passes[d]
             p == IF q.mail = {} THEN Idle ELSE [Idle EXCEPT !.pc = "sending", !.mail = q.mail]
<1>1. /\ UNCHANGED <<events, docState, ruleVars, sent, requests, crashes>>
      /\ q.pc = "evaluated" /\ q \in PassType
      /\ Sound(q, Len(events)) /\ Sees(q, rules, events)
      BY DEF Deliver, IInv, Typed
<1>2. CASE ~commits(q)
  <2>1. passes' = [passes EXCEPT ![d] = Idle] /\ UNCHANGED <<notes, cursor>>
        BY <1>2 DEF Deliver, abandoned
  <2>2. crashes' \in Nat
        BY <1>1 DEF IInv, Typed
  <2>   QED  BY <1>1, <2>1, <2>2, IdleIsFine, PassIInv
<1>3. CASE commits(q)
  <2>1. /\ cursor = q.from /\ cursor' = q.upto /\ passes' = [passes EXCEPT ![d] = p]
        /\ notes' = notes \cup {n \in q.notes : ~IsThere(n)}
        BY <1>3 DEF Deliver, commits, cursorAfter
  <2>2. /\ cursor \in Nat /\ Len(events) \in Nat /\ cursor < cursor' /\ cursor' \in 0..Len(events)
        /\ \A m \in q.notes : m.event \in (cursor + 1)..cursor' /\ m \in Note
        /\ \A m \in q.mail : m.event \in (cursor + 1)..cursor' /\ m \in Delivery
        BY <1>1, <2>1 DEF IInv, Typed, Sound, PassType
  <2>3. notes' = notes \cup q.notes
    <3>1. ASSUME NEW n \in q.notes PROVE ~IsThere(n)
      <4>1. \A m \in notes : m.event <= cursor
            BY DEF IInv, Behind
      <4>   QED  BY <2>2, <4>1 DEF IsThere
    <3>   QED  BY <2>1, <3>1
  <2>   DEFINE tells(n) == [user |-> n.user, event |-> n.event, born |-> n.born]
  <2>4. /\ Notices = {tells(n) : n \in notes} /\ Notices' = {tells(n) : n \in notes'}
        /\ \A n \in q.notes : /\ tells(n) \in [user : User, event : Nat, born : Nat]
                              /\ tells(n).event \in (cursor + 1)..cursor'
        BY <2>2 DEF Notices, Note
  <2>5. /\ Notices \subseteq Notices'
        /\ \A n \in q.notes : tells(n) \in Notices'
        /\ \A n \in Notices' \ Notices : /\ n \in [user : User, event : Nat, born : Nat]
                                         /\ n.event \in (cursor + 1)..cursor'
    <3>   HIDE DEF tells, q
    <3>   QED  BY <2>3, <2>4
  <2>6. Feed!Next
    <3>1. Len(events') = Len(events) /\ cursor' \in (cursor + 1)..Len(events)
          BY <1>1, <2>2
    <3>   QED  BY <2>5, <3>1 DEF Feed!Next, Feed!Evaluate
  <2>7. /\ p \in PassType /\ Sound(p, Len(events)) /\ Sees(p, rules, events)
        /\ p.pc = "sending" => p.mail = q.mail
    <3>1. CASE q.mail = {}
          BY <3>1, IdleIsFine
    <3>2. CASE q.mail # {}
      <4>1. /\ p.pc = "sending" /\ p.mail = q.mail /\ p.from = 0 /\ p.upto = 0
            /\ p.rules = {} /\ p.notes = {} /\ p \in PassType
            BY <1>1, <3>2 DEF Idle, PassType
      <4>   HIDE DEF p
      <4>   QED  BY <2>2, <4>1 DEF Sound, Sees
    <3>   QED  BY <3>1, <3>2
  <2>   HIDE DEF p
  <2>8. /\ \A c \in Dispatcher : passes'[c] = IF c = d THEN p ELSE passes[c]
        /\ passes' \in [Dispatcher -> PassType]
        BY <2>1, <2>7 DEF IInv, Typed
  <2>9. Typed'
    <3>1. notes' \subseteq Note
          BY <2>2, <2>3 DEF IInv, Typed
    <3>   QED  BY <1>1, <2>2, <2>8, <3>1 DEF IInv, Typed, ruleVars
  <2>10. \A c \in Dispatcher : Sound(passes'[c], Len(events')) /\ Sees(passes'[c], rules', events')
        BY <1>1, <2>7, <2>8 DEF IInv, ruleVars
  <2>11. Behind'
        BY <2>2, <2>3 DEF IInv, Behind, Typed, Note
  <2>12. /\ MailIsSentOnce'
         /\ \A m \in BagToSet(sent) : m.event \in Nat /\ m.event <= cursor
    <3>1. \A m \in BagToSet(sent) : m.event \in Nat
          BY DEF IInv, Typed, Delivery
    <3>   QED  BY <1>1, <2>2, <3>1 DEF IInv, MailIsSentOnce
  <2>13. Outgoing'
    <3>1. ASSUME NEW c \in Dispatcher, c # d, passes[c].pc = "sending", NEW m \in passes[c].mail
          PROVE  m.event \in Nat /\ m.event <= cursor /\ m \notin BagToSet(sent)
      <4>1. m \in Delivery
            BY DEF IInv, Typed, PassType
      <4>   QED  BY <3>1, <4>1 DEF IInv, Outgoing, Delivery
    <3>2. ASSUME NEW c \in Dispatcher, passes'[c].pc = "sending", NEW m \in passes'[c].mail
          PROVE  m.event <= cursor' /\ m \notin BagToSet(sent)
      <4>1. CASE c = d
            BY <2>2, <2>7, <2>8, <2>12, <3>2, <4>1
      <4>2. CASE c # d
            BY <2>2, <2>8, <3>1, <3>2, <4>2
      <4>   QED  BY <4>1, <4>2
    <3>3. ASSUME NEW c \in Dispatcher, NEW b \in Dispatcher, c # b,
                 passes'[c].pc = "sending", passes'[b].pc = "sending"
          PROVE  passes'[c].mail \cap passes'[b].mail = {}
      <4>1. CASE c = d
            BY <2>2, <2>7, <2>8, <3>1, <3>3, <4>1
      <4>2. CASE b = d
            BY <2>2, <2>7, <2>8, <3>1, <3>3, <4>2
      <4>3. CASE c # d /\ b # d
            BY <2>8, <3>3, <4>3 DEF IInv, Outgoing
      <4>   QED  BY <4>1, <4>2, <4>3
    <3>   QED  BY <1>1, <3>2, <3>3 DEF Outgoing
  <2>14. TellOf(rules, events, cursor', Notices')
    <3>   SUFFICES ASSUME NEW id \in DOMAIN rules, rules[id].active, rules[id].channel = "in_app",
                          NEW e \in (rules[id].since + 1)..cursor',
                          events[e].type = rules[id].type, Matches(rules[id], Own(events[e])),
                          NEW u \in recipients(rules[id])
                   PROVE  Notice(u, e, rules[id].uid) \in Notices'
          BY DEF TellOf
    <3>1. rules[id].since \in Nat
          BY DEF IInv, Typed, Rule
    <3>2. CASE e <= cursor
      <4>1. e \in (rules[id].since + 1)..cursor
            BY <2>2, <3>1, <3>2
      <4>2. Notice(u, e, rules[id].uid) \in Notices
            BY <4>1 DEF IInv, TellOf
      <4>   QED  BY <2>5, <4>2
    <3>3. CASE ~(e <= cursor)
      <4>1. e \in (q.from + 1)..q.upto /\ e > rules[id].since
            BY <2>1, <2>2, <3>1, <3>3
      <4>2. PICK n \in q.notes : n.user = u /\ n.event = e /\ n.born = rules[id].uid
            BY <1>1, <4>1 DEF Sees
      <4>3. tells(n) = Notice(u, e, rules[id].uid)
            BY <4>2 DEF Notice
      <4>   QED  BY <2>5, <4>3
    <3>   QED  BY <3>2, <3>3
  <2>15. TellOf(rules', events', cursor', Notices')
        BY <1>1, <2>14 DEF ruleVars
  <2>   QED  BY <2>6, <2>9, <2>10, <2>11, <2>12, <2>13, <2>15 DEF IInv
<1>   QED  BY <1>2, <1>3

LEMMA StepSend ==
  ASSUME IInv, NEW d \in Dispatcher, Send(d)
  PROVE  IInv' /\ UNCHANGED <<Len(events), cursor, Notices>>
<1>   DEFINE q == passes[d]
<1>1. PICK m \in q.mail :
        /\ sent' \in {sent, sent (+) SetToBag({m})}
        /\ passes' = [passes EXCEPT ![d] = IF q.mail \ {m} = {} THEN Idle
                                           ELSE [q EXCEPT !.mail = q.mail \ {m}]]
      BY DEF Send
<1>   DEFINE p == IF q.mail \ {m} = {} THEN Idle ELSE [q EXCEPT !.mail = q.mail \ {m}]
<1>2. /\ UNCHANGED <<events, docState, ruleVars, cursor, notes, requests, crashes>>
      /\ q.pc = "sending" /\ q \in PassType /\ Sound(q, Len(events)) /\ Sees(q, rules, events)
      /\ m \in Delivery /\ m.event \in Nat /\ m.event <= cursor /\ m \notin BagToSet(sent)
      BY DEF Send, IInv, Typed, PassType, Outgoing, Delivery
<1>3. /\ p \in PassType /\ Sound(p, Len(events)) /\ Sees(p, rules, events)
      /\ p.pc = "sending" => p.mail = q.mail \ {m}
  <2>1. CASE q.mail \ {m} = {}
        BY <2>1, IdleIsFine
  <2>2. CASE q.mail \ {m} # {}
    <3>1. /\ p.pc = "sending" /\ p.mail = q.mail \ {m} /\ p.from = q.from /\ p.upto = q.upto
          /\ p.rules = q.rules /\ p.notes = q.notes /\ p \in PassType
          BY <1>2, <2>2 DEF PassType
    <3>   HIDE DEF p
    <3>   QED  BY <1>2, <3>1 DEF Sound, Sees
  <2>   QED  BY <2>1, <2>2
<1>4. /\ \A c \in Dispatcher : passes'[c] = IF c = d THEN p ELSE passes[c]
      /\ passes' \in [Dispatcher -> PassType]
      BY <1>1, <1>3 DEF IInv, Typed
<1>   HIDE DEF p, q
<1>5. /\ IsABag(sent') /\ BagToSet(sent') \subseteq BagToSet(sent) \cup {m}
      /\ \A x \in BagToSet(sent') : sent'[x] = 1
  <2>1. IsABag(sent) /\ \A x \in BagToSet(sent) : sent[x] = 1
        BY DEF IInv, Typed, MailIsSentOnce
  <2>2. CASE sent' = sent
        BY <2>1, <2>2
  <2>3. CASE sent' = sent (+) SetToBag({m})
        BY <1>2, <2>1, <2>3 DEF IsABag, BagToSet, SetToBag, (+)
  <2>   QED  BY <1>1, <2>2, <2>3
<1>6. Typed'
      BY <1>2, <1>4, <1>5 DEF IInv, Typed, ruleVars
<1>7. \A c \in Dispatcher : Sound(passes'[c], Len(events')) /\ Sees(passes'[c], rules', events')
      BY <1>2, <1>3, <1>4 DEF IInv, ruleVars
<1>8. Behind' /\ MailIsSentOnce'
      BY <1>2, <1>5 DEF IInv, Behind, MailIsSentOnce
<1>9. ASSUME NEW c \in Dispatcher, passes'[c].pc = "sending"
      PROVE  passes[c].pc = "sending" /\ passes'[c].mail \subseteq passes[c].mail \ {m}
  <2>1. CASE c = d
        BY <1>2, <1>3, <1>4, <1>9, <2>1 DEF q
  <2>2. CASE c # d
        BY <1>2, <1>4, <1>9, <2>2 DEF q, IInv, Outgoing
  <2>   QED  BY <2>1, <2>2
<1>10. Outgoing'
      BY <1>2, <1>5, <1>9 DEF IInv, Outgoing
<1>11. TellOf(rules', events', cursor', Notices') /\ UNCHANGED <<Len(events), cursor, Notices>>
      BY <1>2 DEF IInv, Notices, ruleVars
<1>   QED  BY <1>6, <1>7, <1>8, <1>10, <1>11 DEF IInv

LEMMA StepCrash ==
  ASSUME IInv, NEW d \in Dispatcher, Crash(d)
  PROVE  IInv' /\ UNCHANGED <<Len(events), cursor, Notices>>
<1>1. /\ passes' = [passes EXCEPT ![d] = Idle] /\ crashes' \in Nat
      /\ UNCHANGED <<events, docState, ruleVars, cursor, notes, sent, requests>>
      BY DEF Crash, IInv, Typed
<1>   QED  BY <1>1, IdleIsFine, PassIInv

--------------------------------------------------------------------------------
(* The theorems                                                               *)

LEMMA StepIInv ==
  ASSUME IInv, [Next]_vars
  PROVE  IInv' /\ (Feed!Next \/ UNCHANGED <<Len(events), cursor, Notices>>)
<1>1. CASE \/ Transition \/ CreateAlertRule \/ MarkNotificationRead
           \/ \E r \in Request : ReadRule(r) \/ UpdateAlertRule(r) \/ DeleteAlertRule(r)
  <2>1. Typed
        BY DEF IInv
  <2>2. WorldMoves
        BY <1>1, <2>1, MoveTransition, MoveCreate, MoveMark, MoveRead, MoveUpdate, MoveDelete
  <2>   QED  BY <2>2, WorldIInv, WorldIsAWrite
<1>2. ASSUME NEW d \in Dispatcher, Evaluation(d)
      PROVE  IInv' /\ UNCHANGED <<Len(events), cursor, Notices>>
      BY <1>2, StepFetch, StepRules, StepEvaluate DEF Evaluation
<1>3. CASE UNCHANGED vars
  <2>1. IInv'
        BY <1>3 DEF vars, IInv, Typed, Behind, MailIsSentOnce, Outgoing, Notices
  <2>   QED  BY <1>3, <2>1 DEF vars, Notices
<1>   QED  BY <1>1, <1>2, <1>3, StepDeliver, StepSend, StepCrash DEF Next, Dispatch

LEMMA Invariance == Spec => []IInv
<1>1. IInv /\ [Next]_vars => IInv'
      BY StepIInv
<1>   QED  BY <1>1, InitIInv, PTL DEF Spec

\* The state keeps its types, and a pass is about events there are.
THEOREM TypeCorrect == Spec => []TypeOK
<1>1. IInv => TypeOK
  <2>   SUFFICES ASSUME IInv PROVE TypeOK
        OBVIOUS
  <2>1. ASSUME NEW d \in Dispatcher
        PROVE  /\ DOMAIN passes[d] = DOMAIN Idle
               /\ passes[d].pc \in {"idle", "fetched", "ruled", "evaluated", "sending"}
               /\ passes[d].from <= passes[d].upto /\ passes[d].upto <= Len(events)
               /\ passes[d].notes \subseteq Note /\ passes[d].mail \subseteq Delivery
    <3>1. passes[d] \in PassType /\ Sound(passes[d], Len(events))
          BY DEF IInv, Typed
    <3>   QED  BY <3>1 DEF PassType, Sound, Idle
  <2>   QED  BY <2>1 DEF IInv, Typed, TypeOK, RequestType
<1>   QED  BY <1>1, Invariance, PTL

\* Mail leaves the process once, and of events whose evaluation is recorded, for any
\* number of dispatchers and deaths: the batch belongs to the pass whose compare and
\* swap moved the cursor, and what it sends is of events no other pass can move it over.
THEOREM SentOnce == Spec => []MailIsSentOnce
<1>1. IInv => MailIsSentOnce
      BY DEF IInv
<1>   QED  BY <1>1, Invariance, PTL

\* A rule that stood unchanged before an event, and asks only for what the event
\* carries, has told everybody it names once the cursor is past the event.
THEOREM WatchersAreTold == Spec => []EveryWatchedEventIsTold
<1>1. IInv => EveryWatchedEventIsTold
  <2>   SUFFICES ASSUME IInv, NEW id \in DOMAIN rules, rules[id].active, rules[id].channel = "in_app",
                        NEW e \in (rules[id].since + 1)..cursor, events[e].type = rules[id].type,
                        Matches(rules[id], [facts(events[e]) EXCEPT !.subject = <<>>]),
                        NEW u \in recipients(rules[id])
                 PROVE  \E n \in notes : n.user = u /\ n.event = e /\ n.born = rules[id].uid
        BY DEF EveryWatchedEventIsTold
  <2>1. Notice(u, e, rules[id].uid) \in Notices
        BY OwnFacts DEF IInv, TellOf
  <2>   QED  BY <2>1 DEF Notices, Notice
<1>   QED  BY <1>1, Invariance, PTL

\* The stored rules stay ones the dispatcher can run, whatever requests read and
\* write in whatever order: every writer validates the whole row it writes.
THEOREM StoredRulesStayValid == Spec => []StoredRulesAreValid
<1>1. IInv => StoredRulesAreValid
      BY DEF IInv, Typed, StoredRulesAreValid, validateAlertRule, Rule
<1>   QED  BY <1>1, Invariance, PTL

\* The dispatchers, among each other and the requests, do no more than take the
\* events in order, each once, and tell of them as they take them.
THEOREM DispatchersImplementTheFeed == Spec => FeedSpec
<1>1. Init => Feed!Init
  <2>   SUFFICES ASSUME Init PROVE Feed!Init
        OBVIOUS
  <2>1. IInv
        BY InitIInv
  <2>2. Len(events) \in Nat
        BY <2>1 DEF IInv, Typed
  <2>   QED  BY <2>2 DEF Init, Feed!Init, Notices
<1>2. IInv /\ [Next]_vars => [Feed!Next]_(Feed!vars)
      BY StepIInv DEF Feed!vars
<1>   QED  BY <1>1, <1>2, Invariance, PTL DEF Spec, FeedSpec, Feed!Spec

================================================================================
