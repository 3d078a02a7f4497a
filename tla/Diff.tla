---------------------------------- MODULE Diff ----------------------------------
(***************************************************************************)
(* The word-level difference of two versions (internal/domain/diff.go).    *)
(***************************************************************************)
EXTENDS Texts

CONSTANT MaxCells  \* how large a matrix DiffWords fills before it gives up

ASSUME DiffAssumption == MaxCells \in Nat

\* The words of a text, each with the space that follows it.  A word is one piece.
Tokens(text) ==
  LET words == SetToSortSeq({i \in DOMAIN text : text[i] \notin Space}, <)
      next(n) == IF n = Len(words) THEN Len(text) + 1 ELSE words[n + 1]
  IN  [n \in DOMAIN words |-> [word |-> text[words[n]],
                               sep |-> SubSeq(text, words[n] + 1, next(n) - 1)]]

\* The space before the first word.
Prefix(text) ==
  LET words == {i \in DOMAIN text : text[i] \notin Space} IN
    IF words = {} THEN text ELSE SubSeq(text, 1, Min(words) - 1)

Words(toks) == [n \in DOMAIN toks |-> toks[n].word]

Reassembled(toks) == FlattenSeq([n \in DOMAIN toks |-> <<toks[n].word>> \o toks[n].sep])

Op(kind, toks) == [kind |-> kind, text |-> Reassembled(toks)]

--------------------------------------------------------------------------------

\* lengths[i, j]: how many words a from i and b from j have in common at most.
Lengths(a, b) ==
  LET lengths[i \in 1..(Len(a) + 1), j \in 1..(Len(b) + 1)] ==
        IF i > Len(a) \/ j > Len(b) THEN 0
        ELSE IF a[i].word = b[j].word THEN 1 + lengths[i + 1, j + 1]
        ELSE Max({lengths[i + 1, j], lengths[i, j + 1]})
  IN  lengths

\* Slip: of two ways of the same length, the one that inserts first.
lcsInsertingFirst(a, b) ==
  LET lengths == Lengths(a, b)
      walk[i \in 1..(Len(a) + 1), j \in 1..(Len(b) + 1)] ==
        IF i > Len(a) THEN <<Op("insert", SubSeq(b, j, Len(b)))>>
        ELSE IF j > Len(b) THEN <<Op("delete", SubSeq(a, i, Len(a)))>>
        ELSE IF a[i].word = b[j].word THEN <<Op("equal", <<b[j]>>)>> \o walk[i + 1, j + 1]
        ELSE IF lengths[i + 1, j] > lengths[i, j + 1] THEN <<Op("delete", <<a[i]>>)>> \o walk[i + 1, j]
        ELSE <<Op("insert", <<b[j]>>)>> \o walk[i, j + 1]
  IN  walk[1, 1]

\* The walk along one way through the matrix: a word that both have is b's, and
\* where two ways are as long the one that deletes is taken.
lcsDiff(a, b) ==
  LET lengths == Lengths(a, b)
      walk[i \in 1..(Len(a) + 1), j \in 1..(Len(b) + 1)] ==
        IF i > Len(a) THEN <<Op("insert", SubSeq(b, j, Len(b)))>>
        ELSE IF j > Len(b) THEN <<Op("delete", SubSeq(a, i, Len(a)))>>
        ELSE IF a[i].word = b[j].word THEN <<Op("equal", <<b[j]>>)>> \o walk[i + 1, j + 1]
        ELSE IF lengths[i + 1, j] >= lengths[i, j + 1] THEN <<Op("delete", <<a[i]>>)>> \o walk[i + 1, j]
        ELSE <<Op("insert", <<b[j]>>)>> \o walk[i, j + 1]
  IN  walk[1, 1]

\* An empty run is left out, and one of the kind of the last is added to it.
appendOp(ops, op) ==
  IF op.text = <<>> THEN ops
  ELSE IF ops # <<>> /\ Last(ops).kind = op.kind
    THEN Append(Front(ops), [op EXCEPT !.text = Last(ops).text \o @])
  ELSE Append(ops, op)

\* How many words two texts share at their heads, and at their tails.
Head_(a, b) == Len(LongestCommonPrefix({Words(a), Words(b)}))

\* Slip: the tail may reach back into the head.
tailOfAll(a, b, head) == Head_(Reverse(a), Reverse(b))

Tail_(a, b, head) ==
  Head_(Reverse(SubSeq(a, head + 1, Len(a))), Reverse(SubSeq(b, head + 1, Len(b))))

\* Is the middle small enough for the matrix?
Fits(a, b) == Len(a) * Len(b) <= MaxCells

DiffWords(from, to) ==
  LET a == Tokens(from)
      b == Tokens(to)
      head == Head_(a, b)
      tail == Tail_(a, b, head)
      midA == SubSeq(a, head + 1, Len(a) - tail)
      midB == SubSeq(b, head + 1, Len(b) - tail)
      mid == IF Fits(midA, midB) THEN lcsDiff(midA, midB)
             ELSE <<Op("delete", midA), Op("insert", midB)>>
  IN  FoldLeft(appendOp, <<>>,
        <<[kind |-> "equal", text |-> Prefix(to)], Op("equal", SubSeq(b, 1, head))>> \o mid
          \o <<Op("equal", SubSeq(b, Len(b) - tail + 1, Len(b)))>>)

\* Field by field; one that is the same is one equal run, whatever its text.
DiffVersions(from, to) ==
  [field \in DOMAIN from |->
     [changed |-> from[field] # to[field],
      ops |-> IF from[field] # to[field] THEN DiffWords(from[field], to[field])
              ELSE <<[kind |-> "equal", text |-> from[field]]>>]]

\* The text that the runs of two kinds make.
TextOf(ops, kinds) ==
  FlattenSeq([n \in DOMAIN ops |-> IF ops[n].kind \in kinds THEN ops[n].text ELSE <<>>])
================================================================================
