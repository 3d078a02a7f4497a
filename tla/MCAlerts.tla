-------------------------------- MODULE MCAlerts --------------------------------
(* A small newsroom: one person, one desk, one document that moves between two *)
(* states.  No value here is a number, and no condition is a pattern.          *)
EXTENDS Alerts

MCNumberOf(t) == [is |-> "none", n |-> 0]
MCCompiles(p) == TRUE
MCPatternMatches(p, t) == FALSE

Draft == <<1>>
Live == <<2>>

MCState == {Draft, Live}

MCStartEvents == {<<>>, <<[type |-> "document.transitioned", actor |-> "ann", to |-> Live]>>}

MCRegistered == {"document.transitioned"}

Equals(field, text) == {[field |-> field, op |-> "eq", value |-> <<text>>]}

\* What the move was to; what the document is now.
MCConditions == {Equals("to", Live), Equals("state", Live)}

Desk == [kind |-> "role", name |-> "desk"]
Address == [kind |-> "email", name |-> "mail"]

MCMembersOf(r) == {"ann"}

MCTarget == {Desk, Address}

MCRule(uid, conditions, channel, target) ==
  [uid |-> uid, type |-> "document.transitioned", conditions |-> conditions,
   channel |-> channel, target |-> target, active |-> TRUE, since |-> 0]

MCStartRules == {1 :> MCRule(1, Equals("to", Live), "in_app", Desk)}
================================================================================
