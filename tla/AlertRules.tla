------------------------------ MODULE AlertRules ------------------------------
(***************************************************************************)
(* What an alert rule says (internal/domain/alert.go): its conditions over *)
(* the facts of an event, and what makes a rule fit to be stored.          *)
(*                                                                         *)
(* A value is its text, a sequence of characters ordered as integers.  A   *)
(* JSON number and the string that spells it are one value here, as they   *)
(* are one to number() and text().  Regular expressions are constants.     *)
(***************************************************************************)
EXTENDS Integers, Sequences, FiniteSets, SequencesExt

CONSTANTS
  NumberOf(_),         \* strconv.ParseFloat of a text: a Number
  Compiles(_),         \* regexp.Compile accepts the pattern
  PatternMatches(_, _) \* the pattern matches the text

\* is: "number", "nan" (ParseFloat accepts "nan"), or "none": not a number.
Number == [is : {"number", "nan", "none"}, n : Int]

Operators == {"eq", "ne", "lt", "lte", "gt", "gte", "in", "contains", "matches"}

Channel == {"in_app", "email"}

--------------------------------------------------------------------------------
(* Comparison                                                                 *)

\* Both values are numbers, NaN among them.
numbers(a, b) == NumberOf(a).is # "none" /\ NumberOf(b).is # "none"

IsNaN(a, b) == "nan" \in {NumberOf(a).is, NumberOf(b).is}

equal(a, b) ==
  IF numbers(a, b) THEN ~IsNaN(a, b) /\ NumberOf(a).n = NumberOf(b).n ELSE a = b

LexLess(a, b) ==
  \/ IsStrictPrefix(a, b)
  \/ \E i \in DOMAIN a \cap DOMAIN b :
       SubSeq(a, 1, i - 1) = SubSeq(b, 1, i - 1) /\ a[i] < b[i]

\* Whether the values can be put in order, and then whether the first is below.
ordered(a, b) == numbers(a, b) \/ (a # <<>> /\ b # <<>>)

below(a, b) ==
  IF numbers(a, b) THEN ~IsNaN(a, b) /\ NumberOf(a).n < NumberOf(b).n ELSE LexLess(a, b)

\* c.value is a sequence of texts: the list of an "in", else the one value.
compare(v, c) ==
  LET w == c.value[1] IN
    CASE c.op = "eq"       -> equal(v, w)
      [] c.op = "ne"       -> ~equal(v, w)
      [] c.op = "lt"       -> ordered(v, w) /\ below(v, w)
      [] c.op = "gte"      -> ordered(v, w) /\ ~below(v, w)
      [] c.op = "gt"       -> ordered(v, w) /\ below(w, v)
      [] c.op = "lte"      -> ordered(v, w) /\ ~below(w, v)
      [] c.op = "in"       -> \E x \in Range(c.value) : equal(v, x)
      [] c.op = "contains" -> \E i \in 0..Len(v) : IsPrefix(w, SubSeq(v, i + 1, Len(v)))
      [] c.op = "matches"  -> Compiles(w) /\ PatternMatches(w, v)

--------------------------------------------------------------------------------
(* Facts and conditions                                                       *)

\* facts: the sources in the order they are asked, functions from fields to texts.
Sources(facts) == <<facts.actor, facts.payload, facts.subject>>

Resolves(facts, field) == \E i \in 1..3 : field \in DOMAIN Sources(facts)[i]

Resolve(facts, field) ==
  LET i == CHOOSE i \in 1..3 : /\ field \in DOMAIN Sources(facts)[i]
                               /\ \A j \in 1..(i - 1) : field \notin DOMAIN Sources(facts)[j]
  IN  Sources(facts)[i][field]

ConditionMatches(c, facts) ==
  Resolves(facts, c.field) /\ compare(Resolve(facts, c.field), c)

Matches(rule, facts) == \A c \in rule.conditions : ConditionMatches(c, facts)

ValidCondition(c) ==
  /\ c.op \in Operators
  /\ c.op = "in" => c.value # <<>>
  /\ c.op = "matches" => Compiles(c.value[1])

\* An address can only be reached on the email channel.
ValidTarget(target, channel) ==
  target.kind \in {"user", "role"} \/ (target.kind = "email" /\ channel = "email")

Valid(rule) ==
  /\ rule.channel \in Channel
  /\ ValidTarget(rule.target, rule.channel)
  /\ \A c \in rule.conditions : ValidCondition(c)
================================================================================
