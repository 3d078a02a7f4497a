------------------------------- MODULE MCAnswers -------------------------------
(* Questions for Answers: small texts, schemas, rows, filters and formats. *)
EXTENDS Answers

\* Up to four words, spaced as people do: once, with breaks, or not after the last.
Spaced(words, before, after) ==
  FlattenSeq([i \in DOMAIN words |-> IF i = 1 THEN before \o <<words[1]>> ELSE <<" ", words[i]>>])
    \o after
MCTexts ==
  {Spaced(w, b, a) : w \in BoundedSeq({"a", "b"}, 4) \cup BoundedSeq({"a", "b", "c"}, 3),
                     b \in {<<>>, <<" ">>}, a \in {<<>>, <<Break>>}}

FieldOf(name, type, required, repeatable) ==
  [name |-> name, type |-> type, required |-> required, repeatable |-> repeatable]
MCSchemas ==
  {<<FieldOf("f", t, q, r)>> : t \in FieldTypes, q \in BOOLEAN, r \in BOOLEAN}
    \cup {<<FieldOf("f", "document", q, TRUE), FieldOf("g", "document", FALSE, FALSE)>> : q \in BOOLEAN}
    \cup {<<FieldOf("f", "text", FALSE, FALSE), FieldOf("f", "int", FALSE, FALSE)>>}

\* A type that is left as it is, and one whose fields become or are documents.
MCRevisions ==
  {<<s, s>> : s \in MCSchemas}
    \cup {<<s, l>> : s \in MCSchemas, l \in {m \in MCSchemas : \E i \in DOMAIN m : m[i].type = "document"}}

MCDates == {<<"2020">>}
MCNumerals == {<<"1">>, <<"9e18">>}
MCLarge == {<<"9e18">>}
MCFractions == {<<"1.5">>}
Scalars ==
  {StringOf(t) : t \in {<<>>, <<" ">>, <<"u1">>, <<"u2">>, <<"1">>, <<"true">>, <<"2020">>, <<" ", "u1">>,
                        <<"u1", " ">>, <<"u1", Break, "u2">>, <<"u1", CarriageReturn, Break, "u2">>,
                        <<Break, "u1">>, <<"u1", CarriageReturn, "u2">>, <<"/", "u1">>, <<"x", "://", "u1">>}}
    \cup {NumberOf(<<"1">>), NumberOf(<<"9e18">>), NumberOf(<<"1.5">>), BoolOf(TRUE), Null}
Items == {StringOf(<<>>), StringOf(<<"u1">>), StringOf(<<"u2">>), StringOf(<<" ">>),
          NumberOf(<<"1">>), BoolOf(FALSE), StringOf(<<"on">>), Null}
Contents == Scalars \cup {ArrayOf(i) : i \in BoundedSeq(Items, 2)}
MCTrees ==
  {<<>>} \cup {"f" :> v : v \in Contents}
         \cup {("f" :> v) @@ ("g" :> w) : v \in Contents, w \in {StringOf(<<"u1">>), StringOf(<<>>), Null, NumberOf(<<"1">>)}}

\* Three rows, two of which anybody may read.
Row(id, state, site, assignee, due, readers) ==
  [id |-> id, state |-> state, site |-> site, assignee |-> assignee, due |-> due, readers |-> readers]
MCDocuments_ ==
  {{Row(1, s1, 1, a1, d1, {1, 2}), Row(2, "review", 2, a2, d2, {1, 2}), Row(3, s3, 1, 0, d3, {2})} :
     s1 \in {"draft", "review"}, s3 \in {"review"}, a1, a2 \in 0..1, d1, d2, d3 \in 0..2}
MCFilters ==
  [state : {"", "review"}, site : {0, 1}, assignedTo : 0..1, unassigned : BOOLEAN, overdue : BOOLEAN,
   limit : {1}]
    \cup {[AnyDocument EXCEPT !.limit = n] : n \in 0..4}
    \cup {Queue(DefaultQueues[q], 1) : q \in DOMAIN DefaultQueues}

MCPaths == {<<>>, <<"a">>, <<"a", "b">>}
MCTemplates == SUBSET {Append(p, k) : p \in MCPaths, k \in {"story", "page"}}

MCPages == [fixed : BOOLEAN, slug : {<<>>, <<"s">>, <<"%Y">>, <<"s", "/">>}, date : {"", "2020"}]
Formats == {<<"/", TokenCategories, "/", TokenSlug, "/">>, <<TokenCategories, TokenSlug>>,
            <<"/", TokenCategories, "/", "%Y", "/", TokenSlug>>, <<"/", TokenSlug, "/", TokenSlug, "/">>,
            <<TokenCategories, "/", TokenSlug, "/", "x">>, <<"/", "x", "/">>,
            <<TokenCategories, TokenCategories, "x">>, <<"x", TokenSlug, TokenCategories, "/", TokenSlug>>}
MCChannels == [format : Formats, fixedFormat : {<<TokenCategories, "/", "x", "/">>}, useSlug : BOOLEAN]

\* The machine itself, a proxy, and two strangers.
MCTravels ==
  [claims : BoundedSeq({"a", "here", "?"}, 2), way : BoundedSeq({"here", "proxy", "a", "b"}, 3) \ {<<>>}]

\* Requests of our pages, of another site's and of a program.  A browser
\* attaches a cookie and the word it was told, and no token.
RequestOf(sender, new, host, cookie, scheme, token, malformed, peer) ==
  E!Headers(sender, new) @@
    [sender |-> sender, host |-> host, cookie |-> cookie, scheme |-> scheme, token |-> token,
     malformed |-> malformed, peer |-> peer]
MCRequests ==
  {RequestOf(sender, new, host, cookie, scheme, "", bad, "here") :
     sender \in {"ours", "theirs"}, new, bad \in BOOLEAN, host \in {"public", "internal"},
     cookie \in E!Sessions, scheme \in {"", "basic"}}
    \cup {RequestOf("program", FALSE, "internal", cookie, "bearer", token, bad, peer) :
          cookie \in E!Sessions, token \in E!Sessions, bad \in BOOLEAN, peer \in {"here", "a"}}
MCSettings == [flag : {"", "dev"}, env : {"", "development"}, file : {"", "development"}]
MCErrors == {{}, {"conflict"}, {"forbidden"}, {"guard failed"}, {"invalid"}, {"not found"},
             {"unauthenticated"}, {"unavailable"}, {"invalid", "unavailable"}}
MCAsks ==
  [settings : {s \in MCSettings : s.file = ""}, request : MCRequests, errors : {{}}]
    \cup [settings : MCSettings, errors : {MCErrors},
          request : {RequestOf("ours", TRUE, "public", "live", "", "", FALSE, "here")}]
================================================================================
