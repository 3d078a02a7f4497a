------------------------------ MODULE MCPublishing ------------------------------
(* Publishing on a small instance.                                             *)
EXTENDS Publishing, TLC

\* No two channels write to one file.  The print channel's extension changes, so
\* that one of its addresses may have either of two files.
MCPathsOf(c, a) ==
  {<<c, a, ext>> : ext \in IF c = "print" /\ a = "a" THEN {"htm", "html"} ELSE {"html"}}

\* The web channel has one address, which the documents compete for.
MCAddressIn(c) == IF c = "web" THEN {"a"} ELSE Address

ASSUME FilesOfTheInstance == FilesAreDistinct

Symmetry == Permutations(Worker) \cup Permutations(Document)
================================================================================
