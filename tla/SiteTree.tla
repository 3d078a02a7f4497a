-------------------------------- MODULE SiteTree --------------------------------
(***************************************************************************)
(* What the hierarchy of a site promises: a tree whose every directory has *)
(* a name of its own among its siblings.  No paths are kept here: where a  *)
(* category is, is the walk up from it.                                    *)
(***************************************************************************)
EXTENDS Naturals

CONSTANTS Node, Directory, Root

VARIABLES
  parent,    \* a function from the categories but the root to categories
  directory  \* what each of them is called

vars == <<parent, directory>>

Nodes == DOMAIN parent \cup {Root}

\* The subtree at c: the least set with c that has the children of its members.
Subtree(c) ==
  {n \in Nodes : \A S \in SUBSET Nodes :
     c \in S /\ (\A m \in DOMAIN parent : parent[m] \in S => m \in S) => n \in S}

Taken(p, d) == \E n \in DOMAIN parent : parent[n] = p /\ directory[n] = d

Init == parent = <<>> /\ directory = <<>>

Add(c, p, d) ==
  /\ c \in Node \ Nodes /\ p \in Nodes /\ ~Taken(p, d)
  /\ parent' = [n \in DOMAIN parent \cup {c} |-> IF n = c THEN p ELSE parent[n]]
  /\ directory' = [n \in DOMAIN parent \cup {c} |-> IF n = c THEN d ELSE directory[n]]

\* A category takes what is below it along, and never goes below itself.
Move(c, p, d) ==
  /\ c \in DOMAIN parent
  /\ parent' = [parent EXCEPT ![c] = p]
  /\ directory' = [directory EXCEPT ![c] = d]
  /\ p \in Nodes \ Subtree(c) /\ ~Taken(p, d)

Remove(c) ==
  /\ c \in DOMAIN parent /\ \A n \in DOMAIN parent : parent[n] # c
  /\ parent' = [n \in DOMAIN parent \ {c} |-> parent[n]]
  /\ directory' = [n \in DOMAIN parent \ {c} |-> directory[n]]

Next == \E c \in Node : Remove(c) \/ \E p \in Node, d \in Directory : Add(c, p, d) \/ Move(c, p, d)

Spec == Init /\ [][Next]_vars
================================================================================
