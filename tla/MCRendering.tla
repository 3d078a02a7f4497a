------------------------------- MODULE MCRendering -------------------------------
(* Two requests render one document by the template of its category or of the *)
(* root, one of the sources broken and one failing on the first text.         *)
EXTENDS Rendering, TLC

MCCandidates == "film" :> <<"/film", "/">>
MCFails == {<<"new", 1>>}

MCSettings ==
  [templates : {TRUE}, preview : {TRUE}, reload : BOOLEAN]
    \cup {[templates |-> TRUE, preview |-> FALSE, reload |-> TRUE]}

Interchangeable == Permutations(Requests)
================================================================================
