-------------------------------- MODULE Handlers --------------------------------
(***************************************************************************)
(* A request's handler, on either face of the service: the steps it takes  *)
(* in their order, and what it answers when they all succeed.  A step is   *)
(* a method of the service, or "input": what the request carries is read,  *)
(* and may be malformed.  A failed step is the answer, unless the step     *)
(* only fills a panel of the page, which shows its refusal or nothing.     *)
(***************************************************************************)
EXTENDS Sequences

\* A route asks for a session unless it is open.  "refusal" is what the handler
\* answers to every failure alike, or 0 when the answer depends on the failure.
Handler(method, steps, ok) ==
  [method |-> method, open |-> FALSE, steps |-> steps, panels |-> {}, ok |-> ok, refusal |-> 0]

Open(handler) == [handler EXCEPT !.open = TRUE]

\* The same handler with panels beside its answer.
WithPanels(handler, panels) ==
  [handler EXCEPT !.steps = handler.steps \o panels,
                  !.panels = {panels[p] : p \in DOMAIN panels}]
================================================================================
