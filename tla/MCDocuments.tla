------------------------------ MODULE MCDocuments ------------------------------
(* Documents on a small instance.                                              *)
EXTENDS Documents

MCField == {"title", "content"}

\* Content the schema refuses is called "bad"; a title may be anything.
MCValid(fields) == fields["content"] # "bad"

Symmetry == Permutations(User) \cup Permutations(Request)
================================================================================
