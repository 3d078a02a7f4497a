--------------------------------- MODULE Texts ---------------------------------
(***************************************************************************)
(* Texts as the string functions of the code see them: sequences of        *)
(* pieces, each a space, a line feed, a carriage return or a run of other   *)
(* characters.                                                             *)
(***************************************************************************)
EXTENDS Naturals, Sequences, FiniteSetsExt, SequencesExt

Break == "\n"
CarriageReturn == "\r"
Space == {" ", Break, CarriageReturn}

Blank(text) == ToSet(text) \subseteq Space

TrimSpace(text) ==
  LET kept == {i \in DOMAIN text : text[i] \notin Space} IN
    IF kept = {} THEN <<>> ELSE SubSeq(text, Min(kept), Max(kept))

\* The texts between the line breaks: always one more than there are breaks.
Lines(text) ==
  LET ends == SetToSortSeq({i \in DOMAIN text : text[i] = Break} \cup {0, Len(text) + 1}, <)
  IN  [n \in 1..(Len(ends) - 1) |-> SubSeq(text, ends[n] + 1, ends[n + 1] - 1)]

\* One text out of several, a line each.
Joined(texts) ==
  FlattenSeq([n \in DOMAIN texts |-> IF n = 1 THEN texts[n] ELSE <<Break>> \o texts[n]])
================================================================================
