--------------------------------- MODULE Answers ---------------------------------
(***************************************************************************)
(* What the service works out without changing anything: the difference of *)
(* two versions, a list of documents, the address of a page and its        *)
(* template, and what the editor would save.  A question is asked of rows  *)
(* that one read found, and the answer is a function of them: these are    *)
(* the functions, beside the plain statement of what each must give.       *)
(***************************************************************************)
EXTENDS Diff, Content, Queues, Addresses

CONSTANTS
  Texts_,     \* the texts that are compared
  Revisions,  \* the schemas of an element type: what a draft is checked in
              \* under, and what the type declares on the day of a publish
  Trees,      \* the content there is
  Documents_, \* the sets of rows that lists are made of
  Filters,    \* the filters asked for, saved queues among them
  Paths_,     \* the paths of categories
  Templates,  \* the sets of template files
  Pages_,     \* the documents addresses are made for
  Channels,   \* the channels they are made in
  Instant,    \* the instant of the question
  Addresses_, \* the addresses that a request may come through
  Trusted, Loopback, Unreadable,  \* and how the edge tells them apart
  Travels,    \* how a request came: what it claims, and the addresses on its way
  Asks        \* requests, what the server was started with, and the errors
              \* that a step of the handler may meet

VARIABLES
  question,
  answer     \* a sequence of it, empty before

answersVars == <<question, answer>>

E == INSTANCE Edge

\* What the edge may be met with.  An address that cannot be read is nobody's, so a
\* server or proxy never writes it down: a sender may.  A browser says of the page
\* that made it ask what Headers says, and attaches no token; and a host that the
\* proxy asks for is one of ours.
ASSUME EdgeAssumption ==
  /\ Unreadable \notin Addresses_ \cup Trusted \cup Loopback
  /\ \A t \in Travels : /\ t.claims \in Seq(Addresses_ \cup {Unreadable})
                        /\ t.way \in Seq(Addresses_) \ {<<>>}
  /\ \A a \in Asks : LET r == a.request IN
       /\ \E new \in BOOLEAN : LET says == E!Headers(r.sender, new) IN
            r.fetchSite = says.fetchSite /\ r.origin = says.origin
       /\ r.sender \in {"program", "ours", "theirs"} /\ r.host # "other"
       /\ r.sender = "theirs" => r.scheme # "bearer"

NoFailure == [of |-> "none", error |-> {}]

\* The question is whatever somebody asks.
AnswersInit ==
  /\ answer = <<>>
  /\ \/ \E a, b \in Texts_ : question = [of |-> "diff", from |-> a, to |-> b]
     \/ \E s \in Revisions, t \in Trees :
          question = [of |-> "content", schema |-> s[1], later |-> s[2], tree |-> t]
     \/ \E d \in Documents_, f \in Filters, u \in 1..2 :
          question = [of |-> "list", documents |-> d, filter |-> f, reader |-> u]
     \/ \E p \in Paths_, t \in Templates : question = [of |-> "template", path |-> p, files |-> t]
     \/ \E p \in Paths_, d \in Pages_, c \in Channels :
          question = [of |-> "address", path |-> p, page |-> d, channel |-> c]
     \/ \E t \in Travels : question = [of |-> "client", claims |-> t.claims, way |-> t.way]
     \/ \E a \in Asks : \E route \in E!buildRoutes(E!Environment(a.settings) = "development") :
          \E f \in {NoFailure} \cup [of : ToSet(route.handler.steps) \cup {"Authenticate"}, error : a.errors] :
            question = [of |-> "request", settings |-> a.settings, route |-> route,
                        request |-> a.request, failure |-> f]

Asked(of) == answer = <<>> /\ question.of = of /\ UNCHANGED question

Compare ==
  /\ Asked("diff")
  /\ answer' = <<DiffVersions([content |-> question.from], [content |-> question.to]).content>>

\* A draft is checked in or not, the editor opens and saves it, and a publish
\* reads what it refers to.  ParseElementSchema lets no other schema be stored.
Edit ==
  /\ Asked("content")
  /\ ValidSchema(question.schema) /\ ValidSchema(question.later)
  /\ answer' = <<[wrong |-> ValidateContent(question.schema, question.tree),
                refers |-> References(question.later, question.tree),
                saved |-> Saved(question.schema, question.tree)]>>

List ==
  /\ Asked("list")
  /\ ValidFilter(question.filter)
  /\ answer' = <<ListDocuments(question.documents, question.reader, question.filter, Instant)>>

FindTemplate ==
  /\ Asked("template")
  /\ answer' = <<Lookup(question.files, question.path, "story")>>

Resolve ==
  /\ Asked("address")
  /\ answer' = <<[expanded |-> Expanded(question.page, question.path, question.channel),
                uri |-> BuildURI(question.page, question.path, question.channel)]>>

\* The sender's own claims come first; whoever is next adds what it saw.
Attribute ==
  LET way == question.way IN
  /\ Asked("client")
  /\ answer' = <<E!resolveClientAddr(Last(way), question.claims \o Front(way))>>

Respond ==
  /\ Asked("request")
  /\ answer' = <<E!Serve(question.route, question.request, question.failure,
                       E!Environment(question.settings) = "development")>>

AnswersNext == Compare \/ Edit \/ List \/ FindTemplate \/ Resolve \/ Attribute \/ Respond

AnswersSpec == AnswersInit /\ [][AnswersNext]_answersVars

Answered(of) == answer # <<>> /\ question.of = of

given == answer[1]

--------------------------------------------------------------------------------
(* Properties                                                                 *)

\* The words that the longest common subsequence has.
MostInCommon(a, b) ==
  Max({Len(s) : s \in AllSubSeqs(Words(Tokens(a))) \cap AllSubSeqs(Words(Tokens(b)))})

\* A diff says what happened and no more: what it keeps and inserts is the newer
\* text to the space, what it keeps and deletes are the older text's words, no
\* word is deleted and inserted that could have been kept, unless the texts are
\* too different for the matrix, runs of one kind are one run, and an insertion
\* never comes before the deletion it replaces (trimming, the walk, appendOp).
DiffIsRight ==
  Answered("diff") =>
    LET ops == given.ops
        kept == Len(Tokens(TextOf(ops, {"equal"})))
    IN  /\ TextOf(ops, {"equal", "insert"}) = question.to
        /\ given.changed =>
             /\ FlattenSeq([n \in DOMAIN ops |-> IF ops[n].kind = "insert" THEN <<>>
                                                 ELSE Words(Tokens(ops[n].text))])
                  = Words(Tokens(question.from))
             /\ Len(Tokens(question.from)) * Len(Tokens(question.to)) <= MaxCells =>
                  kept = MostInCommon(question.from, question.to)
        /\ \A n \in 2..Len(ops) :
             /\ ops[n].kind # ops[n - 1].kind
             /\ ~(ops[n - 1].kind = "insert" /\ ops[n].kind = "delete")

\* A value that the editor and a browser show as what it is: nothing blank, and
\* but for blocks nothing padded and no line break.  A block's breaks are those
\* of a form, a return and a line feed each, and none comes first; and the box of
\* an address takes none without its scheme.
Plain(f, v) ==
  CASE v.is = "string" ->
         /\ f.type \notin {"int", "bool"}
         /\ v.text # <<>>
         /\ IF Control(f) = "block"
            THEN \A i \in 0..Len(v.text) :
                   /\ (i > 0 /\ v.text[i] = CarriageReturn) <=> (i < Len(v.text) /\ v.text[i + 1] = Break)
                   /\ i = 1 => v.text[i] # CarriageReturn
            ELSE TrimSpace(v.text) = v.text /\ ToSet(v.text) \cap {CarriageReturn, Break} = {}
         /\ Control(f) = "url" => v.text[1] # "/"
    [] v.is = "number" -> v.text \notin Large
    [] OTHER -> v.is = "bool"

PlainIn(f, v) == IF f.repeatable THEN v.is = "array" /\ v.items # <<>> /\ \A i \in DOMAIN v.items : Plain(f, v.items[i])
                 ELSE Plain(f, v)

\* Opening the editor and saving what it shows changes nothing: content that may
\* be checked in, and that the boxes can show, comes back as it was from the
\* drawing, the browser and the reading (editorFields, scalarString,
\* editor.gohtml, contentFromForm, typedValue).
ContentIsKept ==
  Answered("content") =>
    LET schema == question.schema
        tree == question.tree
    IN  /\ given.wrong = {}
        /\ \A i \in DOMAIN schema :
             schema[i].name \in DOMAIN tree => PlainIn(schema[i], tree[schema[i].name])
        => given.saved = [ok |-> TRUE, tree |-> tree]

\* Not so: opening and saving changes the text of a block that was not written in
\* the editor (internal/web/content.go:119 takes the browser's line breaks for
\* the author's), and one that begins with a line break loses it.
BlocksAreKept ==
  Answered("content") /\ given.saved.ok =>
    \A i \in DOMAIN question.schema :
      LET f == question.schema[i] IN
        Control(f) = "block" /\ f.name \in DOMAIN question.tree =>
          LET v == question.tree[f.name] IN
            v.is = "string" /\ v.text # <<>> => /\ f.name \in DOMAIN given.saved.tree
                                              /\ given.saved.tree[f.name] = v

\* Not so: content that may be checked in can be saved from the editor
\* (internal/domain/content.go takes an address that begins with a slash, which
\* the url input of editor.gohtml does not, and a number that typedValue's
\* ParseInt does not hold).
WhatIsRightIsSaved == Answered("content") /\ given.wrong = {} => given.saved.ok

\* The document fields of a schema that content has.
DocumentFields(schema, tree) == {f \in ToSet(schema) : f.type = "document" /\ f.name \in DOMAIN tree}

\* A publish can read what a checked-in version refers to, if the document fields
\* of the type are by then what they were at the check-in: each document once, and
\* nothing that is no uid.  Nothing else that was done to the schema matters, and
\* opening and saving the draft, however its values were written, leaves the
\* references as they are, but for a return inside a uid, which the check lets
\* pass (checkValue against References, and both against the editor;
\* internal/publish/graph.go:89 reads under the schema of that moment).
ReferencesAreReadable ==
  Answered("content") /\ given.wrong = {} =>
    LET uids == given.refers.uids
        later == DocumentFields(question.later, question.tree)
        Shapes(fields) == {[name |-> f.name, repeatable |-> f.repeatable] : f \in fields}
    IN
      Shapes(later) \subseteq Shapes(DocumentFields(question.schema, question.tree)) =>
        /\ given.refers.ok /\ IsInjective(uids)
        /\ \A i \in DOMAIN uids : uids[i] # <<>> /\ IsUid(uids[i])
        /\ given.saved.ok /\ (\A i \in DOMAIN uids : CarriageReturn \notin ToSet(uids[i]))
             => References(question.later, given.saved.tree) = given.refers

\* Not so: whatever was checked in can be read when it is published.  A schema may
\* be changed under the versions it was checked against (UpdateElementType looks
\* at none), and one field that repeats where it did not makes every publish of,
\* or through, the documents of that type an error.
ReferencesOutliveSchemas == Answered("content") /\ given.wrong = {} => given.refers.ok

\* A list leaves out nothing that belongs on it, but for a page that is full: a
\* document that matches, that the reader may read and that is not on the list,
\* is after Limit others that match.  Whatever is due is before whatever is not.
ListIsWhole ==
  Answered("list") =>
    LET may == {d \in question.documents : Matches(question.filter, d, Instant)}
        listed == ToSet(given)
        limit == Normalize(question.filter).limit
        earlier(d) == {e \in may : IF d.due = 0 THEN e.due # 0 \/ e.id > d.id
                                   ELSE e.due # 0 /\ (e.due < d.due \/ (e.due = d.due /\ e.id > d.id))}
    IN  /\ IsInjective(given)
        /\ \A d \in question.documents :
             d \in listed <=> /\ d \in may /\ question.reader \in d.readers
                             /\ Cardinality(earlier(d)) < limit
        /\ \A i, j \in DOMAIN given : i < j => given[i] \in earlier(given[j])

\* A page is drawn with the template of the nearest category above it that has
\* one, and with none only if no category above it has one.
NearestTemplate ==
  Answered("template") =>
    LET above == {p \in Prefixes(question.path) : Append(p, "story") \in question.files}
    IN  IF above = {} THEN given = NoAddress
        ELSE \E p \in above : given = Append(p, "story") /\ \A q \in above : Len(q) <= Len(p)

\* Where a format brings two slashes together itself: side by side, or around the
\* path of a category, which has one at either end, when a slash or another path
\* comes right before it.  A slug's token is passed over where there is no slug.
SlashesMeet(format, slug) ==
  \E j \in DOMAIN format : \E i \in 1..(j - 1) :
    /\ i = j - 1 \/ (slug = <<>> /\ \A k \in (i + 1)..(j - 1) : format[k] = TokenSlug)
    /\ \/ i = j - 1 /\ format[i] = "/" /\ format[j] = "/"
       \/ format[i] \in {"/", TokenCategories} /\ format[j] = TokenCategories

\* The rule about the slash that follows a token is enough: two slashes meet in
\* what an address is made of only where its format brings them together, whatever
\* the depth of the category and with or without a slug.  NormalizeURI mends those
\* formats, "//" and "/%{categories}" among them, and has nothing else to mend
\* (internal/domain/uri.go:282, :263).
NoDoubledSlash ==
  Answered("address") =>
    LET page == question.page
        channel == question.channel
        format == IF page.fixed THEN channel.fixedFormat ELSE channel.format
        slug == IF channel.useSlug THEN page.slug ELSE <<>>
    IN  given.uri # NoAddress /\ ~SlashesMeet(format, slug) => ~SlashesMeet(given.expanded, <<>>)

(***************************************************************************)
(* Not so.  internal/domain/uri.go:30 says that the token "expands to the  *)
(* version's slug", and uri.go:330-335 that a slug is refused only if it   *)
(* would be somebody else's address.  The date conversions run over the    *)
(* expanded text, and validateSlugForURI lets a '%' pass: a slug that      *)
(* spells a conversion becomes the date.                                   *)
(***************************************************************************)
SlugIsItself ==
  Answered("address") =>
    LET doc == question.page IN
      question.channel.useSlug /\ given.uri # NoAddress /\ doc.slug # <<>>
        => \E i \in DOMAIN given.uri : given.uri[i] = doc.slug

\* A request is attributed to the nearest address on its way that is no trusted
\* proxy's, whatever its sender wrote in the header: nobody chooses what the
\* history says of them (internal/server/middleware.go:64).
AddressIsWitnessed ==
  Answered("client") =>
    LET strangers == E!Strangers(question.way) IN
    strangers # {} =>
      given = question.way[CHOOSE n \in strangers : \A m \in strangers : m <= n]

\* The methods of the service that change something.
Changes ==
  {"Login", "Logout", "CreateGrant", "AssignRole", "CreateInvitation", "Redeem", "RevokeInvitation",
   "CreateDocument", "UpdateDraft", "Checkout", "CancelCheckout", "Checkin", "Revert", "Transition",
   "Assign", "Unassign", "SetDue", "Comment", "ResolveComment", "Approve", "WithdrawApproval",
   "RetryJob", "UpdateSite", "CreateCategory", "MoveCategory", "DeleteCategory",
   "CreateOutputChannel", "UpdateOutputChannel", "CreateElementType", "UpdateElementType",
   "FileDocument", "Preview", "Publish", "CreateAlertRule", "UpdateAlertRule", "DeleteAlertRule",
   "MarkNotificationRead", "Shutdown", "DevLogin"}

made == given.made \cap Changes
refused == given.answer.status \cap 400..599 # {}

\* A page of another site that makes a signed-in browser send a request changes
\* nothing, unless somebody started the server with "development" spelt out in
\* the highest place that says anything and asks it from the machine itself; a
\* page of ours, and a program, is never taken for one, whatever host the proxy
\* asked for and whether or not the browser says which site it is on.
OnlyOurPagesAreObeyed ==
  Answered("request") =>
    LET r == question.request
        s == question.settings
    IN  /\ r.sender = "theirs" /\ made # {} =>
             /\ question.route.face = "development" /\ r.peer \in Loopback
             /\ "development" \in {s.flag, IF s.flag = "" THEN s.env ELSE "",
                                  IF s.flag = "" /\ s.env = "" THEN s.file ELSE ""}
        /\ r.sender # "theirs" /\ 403 \in given.answer.status => "forbidden" \in question.failure.error

\* What a request is answered is what became of it: one that is refused changed
\* nothing, one that is not did all it was to do, and a form is refused just as
\* the API refuses the same thing, with the same status, telling as much.
\* But for two pages: the sign-in form says of every failure that the password
\* does not match, and a new invitation's page fails if the list on it does.
AnswersAreTrue ==
  Answered("request") =>
    LET h == question.route.handler
        r == question.request
        f == question.failure
        development == E!Environment(question.settings) = "development"
        alike(a) == E!Serve([face |-> "api", handler |-> a], r, f, development)
    IN  /\ refused /\ h # E!Pages!createInvitation => made = {}
        /\ ~refused /\ h.method # "GET" =>
             \A n \in DOMAIN h.steps : h.steps[n] \in given.made \cup h.panels
        /\ question.route.face = "pages" /\ h.refusal = 0 /\ ~r.malformed /\ ~E!BearerToken(r) =>
             \A a \in E!Api!Register : \A change \in Changes \cap ToSet(h.steps) \cap ToSet(a.steps) :
               f.of \in {"none", "Authenticate", change}
               => LET b == alike(a).answer IN
                  /\ refused <=> b.status \cap 400..599 # {}
                  /\ refused => given.answer = b

\* Not so: the pages that AnswersAreTrue leaves out (internal/web/auth.go:112,
\* where any failure to sign in is a 401, and internal/web/invitations.go:121,
\* where the list is read again once the invitation is made).
EveryAnswerIsTrue ==
  Answered("request") =>
    /\ refused => made = {}
    /\ question.route.handler.refusal # 0 /\ question.failure.of \in Changes =>
         given.answer.status = {E!StatusFor(question.failure.error)}
================================================================================
