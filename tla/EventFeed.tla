------------------------------- MODULE EventFeed -------------------------------
(***************************************************************************)
(* What the alert dispatcher promises (migration 0012, alert_cursor): the  *)
(* events are evaluated in the order they were committed, every one once,  *)
(* and what is told of an event is told when it is evaluated.              *)
(***************************************************************************)
EXTENDS Naturals

CONSTANT
  Notice  \* what may be told, a set of records with a field event

VARIABLES
  written,    \* how many events have been committed
  evaluated,  \* how many of them have been evaluated
  told        \* the notices recorded

vars == <<written, evaluated, told>>

Init == written \in Nat /\ evaluated = 0 /\ told = {}

Write == written' = written + 1 /\ UNCHANGED <<evaluated, told>>

\* The next events, told of at once.
Evaluate ==
  \E upto \in (evaluated + 1)..written :
    /\ evaluated' = upto
    /\ told \subseteq told'
    /\ \A n \in told' \ told : n \in Notice /\ n.event \in (evaluated + 1)..upto
    /\ UNCHANGED written

Next == Write \/ Evaluate

Spec == Init /\ [][Next]_vars
================================================================================
