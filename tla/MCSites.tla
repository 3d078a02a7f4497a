-------------------------------- MODULE MCSites --------------------------------
EXTENDS Sites

CONSTANTS d1, r1, r2, a, b

MCRequest == {r1, r2}
MCDirectory == {a, b}
MCDocument == {d1}
MCSlug == [d \in MCDocument |-> <<"s">>]
MCDomain == {"www", "new"}

\* The default formats, with the date that a fixed address leaves out.
Dated == <<TokenCategories, "/", "%Y", "/", TokenSlug>>
Fixed == <<TokenCategories, "/", TokenSlug>>
MCFormats == {[format |-> Dated, fixedFormat |-> Fixed, useSlug |-> TRUE],
              [format |-> Fixed, fixedFormat |-> Fixed, useSlug |-> TRUE]}

Symmetry == Permutations(MCRequest) \cup Permutations(MCDirectory)
================================================================================
