--------------------------------- MODULE Content ---------------------------------
(***************************************************************************)
(* What an element type's schema says of a document's content              *)
(* (internal/domain/content.go), which documents it refers to (related.go) *)
(* and how the editor draws it and reads it back (internal/web/content.go, *)
(* templates/pages/editor.gohtml), with the browser in between.            *)
(*                                                                         *)
(* A JSON value is a record that says what it is; the text of a string or  *)
(* of a number is a text of pieces.  Content is a function from the names  *)
(* of the fields it has.                                                   *)
(***************************************************************************)
EXTENDS Texts

CONSTANTS
  Dates,     \* the texts that ParseCoverDate reads
  Numerals,  \* the texts of whole numbers
  Large,     \* those among them that int64 does not hold
  Fractions  \* the texts of the other numbers

ASSUME ContentAssumption == Large \subseteq Numerals /\ Fractions \cap Numerals = {}

Null == [is |-> "null"]
StringOf(text) == [is |-> "string", text |-> text]
NumberOf(text) == [is |-> "number", text |-> text]
BoolOf(b) == [is |-> "bool", b |-> b]
ArrayOf(items) == [is |-> "array", items |-> items]

FieldTypes == {"text", "block", "int", "bool", "date", "url", "document"}

Field == [name : STRING, type : FieldTypes, required : BOOLEAN, repeatable : BOOLEAN]

\* A schema is a sequence of fields.
ValidSchema(schema) ==
  /\ \A i \in DOMAIN schema : schema[i].name # "" /\ schema[i].type \in FieldTypes
  /\ \A i, j \in DOMAIN schema : schema[i].name = schema[j].name => i = j

\* What json.Unmarshal reads into a string, null included, which it leaves empty.
IsText(v) == v.is \in {"string", "null"}
Text(v) == IF v.is = "null" THEN <<>> ELSE v.text

\* A return inside passes.
IsUid(text) == TrimSpace(text) = text /\ ToSet(text) \cap {" ", Break, "/"} = {}

checkValue(type, v) ==
  CASE type \in {"text", "block"} -> IsText(v)
    \* a json.Number is read from a string too
    [] type = "int"  -> v.is = "null" \/ (v.is \in {"number", "string"} /\ v.text \in Numerals)
    [] type = "bool" -> v.is \in {"bool", "null"}
    [] type = "date" -> IsText(v) /\ (Text(v) = <<>> \/ TrimSpace(Text(v)) \in Dates)
    [] type = "url"  -> IsText(v) /\ (Text(v) = <<>> \/ Text(v)[1] = "/" \/ "://" \in ToSet(Text(v)))
    [] OTHER         -> IsText(v) /\ IsUid(Text(v))

isEmptyValue(v) == IsText(v) /\ Text(v) = <<>>

\* Slip: nothing is asked of the values in an array.
checkFieldButItems(f, v) ==
  IF f.repeatable THEN v.is \in {"array", "null"} /\ (f.required => v.is = "array" /\ v.items # <<>>)
  ELSE checkValue(f.type, v) /\ (f.required => ~isEmptyValue(v))

\* null is read into an empty array.  A required field that repeats needs an
\* element, which may be empty.
checkField(f, v) ==
  IF f.repeatable
  THEN /\ v.is \in {"array", "null"}
       /\ f.required => v.is = "array" /\ v.items # <<>>
       /\ v.is = "array" => \A i \in DOMAIN v.items : checkValue(f.type, v.items[i])
  ELSE checkValue(f.type, v) /\ (f.required => ~isEmptyValue(v))

Named(schema, name) == \E i \in DOMAIN schema : schema[i].name = name

\* The names of the fields that are wrong; none for content that may be checked in.
ValidateContent(schema, tree) ==
  {f.name : f \in {g \in ToSet(schema) : IF g.name \in DOMAIN tree THEN ~checkField(g, tree[g.name])
                                         ELSE g.required}}
    \cup {name \in DOMAIN tree : ~Named(schema, name)}

--------------------------------------------------------------------------------

Unread == [ok |-> FALSE, uids |-> <<>>]

\* The values of one field as References reads them, or Unread.
Uids(f, v) ==
  IF f.repeatable
  THEN IF v.is = "null" THEN [ok |-> TRUE, uids |-> <<>>]
       ELSE IF v.is = "array" /\ \A i \in DOMAIN v.items : IsText(v.items[i])
       THEN [ok |-> TRUE, uids |-> [i \in DOMAIN v.items |-> Text(v.items[i])]]
       ELSE Unread
  ELSE IF IsText(v) THEN [ok |-> TRUE, uids |-> <<Text(v)>>] ELSE Unread

\* A blank is not a reference, and a second reference to one document is none.
addUid(out, text) ==
  LET uid == TrimSpace(text) IN
    IF uid = <<>> \/ Contains(out, uid) THEN out ELSE Append(out, uid)

\* The uids that content names, in the order of the schema and of the values.
References(schema, tree) ==
  LET fields == SelectSeq(schema, LAMBDA f : f.type = "document" /\ f.name \in DOMAIN tree)
      read == [i \in DOMAIN fields |-> Uids(fields[i], tree[fields[i].name])]
  IN  IF \A i \in DOMAIN read : read[i].ok
      THEN [ok |-> TRUE, uids |-> FoldLeft(addUid, <<>>, FlattenSeq([i \in DOMAIN read |-> read[i].uids]))]
      ELSE Unread

--------------------------------------------------------------------------------
(* The editor                                                                 *)

scalarString(v) ==
  CASE IsText(v) -> Text(v)
    [] v.is = "bool" -> IF v.b THEN <<"true">> ELSE <<"false">>
    [] v.is = "number" -> v.text
    [] OTHER -> <<"json">>

\* The boxes, by the names of the fields: a field that is not there has an empty
\* one, and so has one that repeats and holds no array.
editorFields(schema, tree) ==
  [name \in {f.name : f \in ToSet(schema)} |->
     LET f == schema[SelectInSeq(schema, LAMBDA g : g.name = name)] IN
       IF name \notin DOMAIN tree THEN <<>>
       ELSE IF ~f.repeatable THEN scalarString(tree[name])
       ELSE IF tree[name].is # "array" THEN <<>>
       ELSE Joined([i \in DOMAIN tree[name].items |-> scalarString(tree[name].items[i])])]

Control(f) == IF f.repeatable THEN "lines" ELSE f.type

\* HTML knows one kind of line break.
Unified(text) ==
  FlattenSeq([i \in DOMAIN text |->
                IF text[i] # CarriageReturn THEN <<text[i]>>
                ELSE IF i < Len(text) /\ text[i + 1] = Break THEN <<>> ELSE <<Break>>])

\* What a browser sends for a box nobody touched.  In a text area the break
\* right after the tag is none of the text, and every other is sent as a
\* return and a break; a choice sends one of its options; an input drops the
\* breaks, and one for numbers whatever is no number.
Submitted(f, box) ==
  LET shown == Unified(box)
      line == SelectSeq(shown, LAMBDA piece : piece # Break)
      body == IF shown # <<>> /\ shown[1] = Break THEN Tail(shown) ELSE shown
  IN  CASE Control(f) \in {"lines", "block"} ->
             FlattenSeq([i \in DOMAIN body |-> IF body[i] = Break THEN <<CarriageReturn, Break>> ELSE <<body[i]>>])
        [] Control(f) = "bool" -> IF box \in {<<"true">>, <<"false">>} THEN box ELSE <<>>
        [] Control(f) = "int" -> IF line \in Numerals \cup Fractions THEN line ELSE <<>>
        [] Control(f) = "url" -> TrimSpace(line)
        [] OTHER -> line

IsAbsoluteURL(text) == Len(text) > 2 /\ text[1] \notin Space \cup {"/", "://"} /\ text[2] = "://"

\* A browser sends no form with a fraction in a box for whole numbers, or an
\* address without its scheme in a box for addresses.
Sends(f, box) ==
  /\ Control(f) = "int" => Submitted(f, box) \notin Fractions
  /\ Control(f) = "url" => Submitted(f, box) = <<>> \/ IsAbsoluteURL(Submitted(f, box))

\* The words for yes and no, in whatever case.
Truths == {<<"true">>, <<"yes">>, <<"on">>, <<"1">>}
Falsehoods == {<<"false">>, <<"no">>, <<"off">>, <<"0">>}

\* A box that does not hold a number or a truth value is an error.
typedValue(f, text) ==
  CASE f.type = "int" -> IF text \in Numerals \ Large THEN NumberOf(text) ELSE Null
    [] f.type = "bool" -> IF text \in Truths \cup Falsehoods THEN BoolOf(text \in Truths) ELSE Null
    [] OTHER -> StringOf(text)

TrimReturns(line) ==
  LET kept == {i \in DOMAIN line : line[i] # CarriageReturn} IN SubSeq(line, 1, Max(kept \cup {0}))

\* The lines of a box that are values.
valueLines(text) ==
  LET lines == Lines(TrimSpace(text)) IN
    SelectSeq([n \in DOMAIN lines |-> TrimReturns(lines[n])], LAMBDA line : ~Blank(line))

\* Slip: every box is trimmed.
ValuesTrimmed(f, box) ==
  LET lines == IF f.repeatable THEN valueLines(box)
               ELSE IF Blank(box) THEN <<>> ELSE <<TrimSpace(box)>>
  IN  [i \in DOMAIN lines |-> typedValue(f, lines[i])]

\* What a box says, or no value: a box with nothing in it writes no key.
Values(f, box) ==
  LET lines == IF f.repeatable THEN valueLines(box)
               ELSE LET text == IF f.type = "block" THEN box ELSE TrimSpace(box)
                    IN  IF text = <<>> THEN <<>> ELSE <<text>>
  IN  [i \in DOMAIN lines |-> typedValue(f, lines[i])]

contentFromForm(schema, boxes) ==
  LET values == [i \in DOMAIN schema |-> Values(schema[i], boxes[schema[i].name])]
      kept == {i \in DOMAIN schema : values[i] # <<>>}
  IN  [ok |-> \A i \in kept : \A k \in DOMAIN values[i] : values[i][k] # Null,
       tree |-> [name \in {schema[i].name : i \in kept} |->
                   LET i == SelectInSeq(schema, LAMBDA f : f.name = name) IN
                     IF schema[i].repeatable THEN ArrayOf(values[i]) ELSE values[i][1]]]

\* The editor is opened and saved, and nobody typed.
Saved(schema, tree) ==
  LET boxes == editorFields(schema, tree) IN
    IF \A i \in DOMAIN schema : Sends(schema[i], boxes[schema[i].name])
    THEN contentFromForm(schema,
           [name \in DOMAIN boxes |->
              Submitted(schema[SelectInSeq(schema, LAMBDA f : f.name = name)], boxes[name])])
    ELSE [ok |-> FALSE, tree |-> tree]
================================================================================
