------------------------------- MODULE Addresses -------------------------------
(***************************************************************************)
(* The addresses of documents: the arithmetic on category paths            *)
(* (internal/domain/category.go), the expansion of a channel's format      *)
(* (uri.go, strftime.go) and where the template of a page is looked for    *)
(* (internal/render/lookup.go).                                            *)
(*                                                                         *)
(* A text is a sequence of pieces: "/", a token, a conversion, or a word   *)
(* without slashes.  A category's path is the sequence of its directories, *)
(* and PathText the text that the code keeps.                              *)
(***************************************************************************)
EXTENDS Naturals, Sequences, FiniteSets, SequencesExt

\* The pieces of a format that are not themselves.
TokenCategories == "%{categories}"
TokenSlug == "%{slug}"
DateConversions == {"%Y", "%m"}
UnknownConversions == {"%q"}

NoAddress == <<"none">>

PathText(path) == <<"/">> \o FlattenSeq([i \in DOMAIN path |-> <<path[i], "/">>])

\* At or below: a prefix, because both end in '/'.
IsDescendantPath(parent, child) == IsPrefix(parent, child)

JoinPath(parent, directory) == Append(parent, directory)

RewritePath(path, old, new) ==
  IF IsDescendantPath(old, path) THEN new \o SubSeq(path, Len(old) + 1, Len(path)) ELSE path

\* Slip: the root first.
ancestorPathsDown(path) == [i \in 1..(Len(path) + 1) |-> SubSeq(path, 1, i - 1)]

\* The path and those above it, deepest first.
AncestorPaths(path) == [i \in 1..(Len(path) + 1) |-> SubSeq(path, 1, Len(path) + 1 - i)]

--------------------------------------------------------------------------------

\* Slip: the slash after a token is always kept.
substituteTokenAlone(format, token, value) ==
  FlattenSeq([i \in DOMAIN format |-> IF format[i] = token THEN value ELSE <<format[i]>>])

\* Every token is replaced, and takes the slash after it along when its value
\* ends in one or is empty.
substituteToken(format, token, value) ==
  LET swallowed(i) == /\ i > 1 /\ format[i] = "/" /\ format[i - 1] = token
                      /\ value = <<>> \/ Last(value) = "/"
  IN  FlattenSeq([i \in DOMAIN format |-> IF format[i] = token THEN value
                                          ELSE IF swallowed(i) THEN <<>> ELSE <<format[i]>>])

HasDateConversion(text) == \E i \in DOMAIN text : text[i] \in DateConversions \cup UnknownConversions

\* A conversion gives a word of digits; one that is not known is an error.
Strftime(text, date) ==
  [ok |-> \A i \in DOMAIN text : text[i] \notin UnknownConversions,
   text |-> [i \in DOMAIN text |-> IF text[i] \in DateConversions THEN text[i] \o date ELSE text[i]]]

\* The segments between the slashes, the empty ones dropped.
NormalizeURI(text) ==
  LET starts == {i \in DOMAIN text : text[i] # "/" /\ (i = 1 \/ text[i - 1] = "/")}
      ends(i, j) == (\A k \in i..j : text[k] # "/") /\ (j = Len(text) \/ text[j + 1] = "/")
      end(i) == CHOOSE j \in i..Len(text) : ends(i, j)
  IN  [n \in 1..Cardinality(starts) |->
         LET first == CHOOSE i \in starts : Cardinality({k \in starts : k < i}) = n - 1
         IN  SubSeq(text, first, end(first))]

\* The pieces that would make another address of the one they are in.
validateSlugForURI(slug) == ToSet(slug) \cap {"/", "?", "#", " "} = {}

\* A channel is [format, fixedFormat, useSlug]; a document [fixed, slug, date],
\* its date possibly "".
Expanded(doc, path, oc) ==
  substituteToken(substituteToken(IF doc.fixed THEN oc.fixedFormat ELSE oc.format,
                                  TokenCategories, PathText(path)),
                  TokenSlug, IF oc.useSlug THEN doc.slug ELSE <<>>)

BuildURI(doc, path, oc) ==
  LET text == Expanded(doc, path, oc) IN
    IF oc.useSlug /\ ~validateSlugForURI(doc.slug) THEN NoAddress
    ELSE IF HasDateConversion(text) /\ doc.date = "" THEN NoAddress
    ELSE IF Strftime(text, doc.date).ok THEN NormalizeURI(Strftime(text, doc.date).text)
    ELSE NoAddress

\* OutputChannel.Validate: a format with an unknown conversion is not stored.
ValidFormat(format) == \A i \in DOMAIN format : format[i] \notin UnknownConversions

--------------------------------------------------------------------------------

\* Where Lookup looks: the template of the type in the deepest category that has one.
Candidates(path, key) == [i \in DOMAIN AncestorPaths(path) |-> Append(AncestorPaths(path)[i], key)]

\* templates: the set of the files of a site's tree.
Lookup(templates, path, key) ==
  LET tried == Candidates(path, key)
      found == {i \in DOMAIN tried : tried[i] \in templates}
  IN  IF found = {} THEN NoAddress ELSE tried[CHOOSE i \in found : \A j \in found : i <= j]
================================================================================
