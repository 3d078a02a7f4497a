-------------------------------- MODULE Rendering --------------------------------
(***************************************************************************)
(* A document rendered by a template out of a tree that people edit while  *)
(* the server runs (internal/render, internal/service/render.go): which    *)
(* template is found, whether it is parsed again, and the scratch tree     *)
(* where a preview is put under the checksum of its bytes.  SHA-256 is     *)
(* taken to be one to one: the name of a preview is its bytes.             *)
(***************************************************************************)
EXTENDS Naturals, Sequences, FiniteSets, Functions

CONSTANTS
  Requests,      \* what is in flight in the server
  Categories, Candidates,  \* the template paths of a category, the deepest first
  Sources,       \* what a template file may contain
  Unparsable,    \* the sources that do not parse
  Fails,         \* the sources that do not execute, with the text they fail on
  Channels,      \* the output channels the site may have
  BadExtension,  \* those whose file extension is no extension
  Settings,      \* what a server may be started with
  None,
  MaxEdits, MaxStarts, MaxAsks  \* bounds: changes of trees and documents, server
                                \* starts, and requests

Paths == UNION {Range(Candidates[c]) : c \in Categories}

ASSUME RenderingAssumption ==
  /\ Candidates \in [Categories -> Seq(Paths)]
  /\ Unparsable \subseteq Sources /\ BadExtension \subseteq Channels
  /\ Settings \subseteq [templates : BOOLEAN, preview : BOOLEAN, reload : BOOLEAN]
  /\ None \notin Sources \cup Categories \cup Channels
  /\ {MaxEdits, MaxStarts, MaxAsks} \subseteq Nat

VARIABLES
  tree,      \* the source of each template file, None where there is no file
  document,  \* its text, changed by every save, and where it is filed
  channels,  \* the site's
  server,    \* NewServer's settings, and the templates it has parsed
  render,    \* each request
  scratch,   \* the preview directory: names and what the files hold
  edits, starts, asks,
  had        \* for the properties: the sources a path had since the server
             \* started, and since each request began

vars == <<tree, document, channels, server, render, scratch, edits, starts, asks, had>>

Down == [up |-> FALSE, templates |-> FALSE, preview |-> FALSE, reload |-> FALSE,
         parsed |-> [p \in Paths |-> None]]
Idle == [at |-> "idle"]
At(r, place) == render[r].at = place
Now  == [p \in Paths |-> {tree[p]}]
Never == [p \in Paths |-> {}]

Init ==
  /\ tree \in [Paths -> Sources \cup {None}]
  /\ document \in [text : {0}, filed : Categories \cup {None}]
  /\ channels \in SUBSET Channels
  /\ server = Down
  /\ render = [r \in Requests |-> Idle]
  /\ scratch = <<>>
  /\ edits = 0 /\ starts = 0 /\ asks = 0
  /\ had = [server |-> Never, request |-> [r \in Requests |-> Never]]

--------------------------------------------------------------------------------
(* What goes on around the server                                             *)

NewServer(settings) ==
  /\ ~server.up /\ starts < MaxStarts
  /\ server' = [up |-> TRUE, templates |-> settings.templates, preview |-> settings.preview,
                reload |-> settings.reload, parsed |-> Down.parsed]
  /\ had' = [had EXCEPT !.server = Now]
  /\ starts' = starts + 1
  /\ UNCHANGED <<tree, document, channels, render, scratch, edits, asks>>

\* The process ends: what it was doing stays as it was in the scratch tree.
Stop ==
  /\ server.up
  /\ server' = Down
  /\ render' = [r \in Requests |-> Idle]
  /\ had' = [server |-> Never, request |-> [r \in Requests |-> Never]]
  /\ UNCHANGED <<tree, document, channels, scratch, edits, starts, asks>>

\* Somebody writes or removes a template file.
Edit(p, source) ==
  /\ edits < MaxEdits /\ source # tree[p]
  /\ tree' = [tree EXCEPT ![p] = source]
  /\ had' = [server  |-> IF server.up THEN [had.server EXCEPT ![p] = @ \cup {source}] ELSE Never,
             request |-> [r \in Requests |->
               IF At(r, "idle") THEN Never ELSE [had.request[r] EXCEPT ![p] = @ \cup {source}]]]
  /\ edits' = edits + 1
  /\ UNCHANGED <<document, channels, server, render, scratch, starts, asks>>

\* Somebody saves the document, files it elsewhere, or gives the site a channel.
Revise ==
  /\ edits < MaxEdits
  /\ \/ document' = [document EXCEPT !.text = @ + 1] /\ UNCHANGED channels
     \/ \E c \in Categories \ {document.filed} : document' = [document EXCEPT !.filed = c] /\ UNCHANGED channels
     \/ \E c \in Channels \ channels : channels' = channels \cup {c} /\ UNCHANGED document
  /\ edits' = edits + 1
  /\ UNCHANGED <<tree, server, render, scratch, starts, asks, had>>

--------------------------------------------------------------------------------
(* A render                                                                   *)

Goes(r, place) == render' = [render EXCEPT ![r].at = place]
Around == <<tree, document, channels, edits, starts, asks>>

\* The answer is given, and nothing is kept of the request.
Answer(r) ==
  /\ render' = [render EXCEPT ![r] = Idle]
  /\ had' = [had EXCEPT !.request[r] = Never]

Failed(r) == Answer(r) /\ UNCHANGED <<server, scratch>>

\* It begins at the document and its newest version.
Preview(r) ==
  /\ server.up /\ server.templates /\ At(r, "idle") /\ asks < MaxAsks
  /\ render' = [render EXCEPT ![r] =
       [at |-> "begun", text |-> document.text,
        category |-> None, channel |-> None, tried |-> 0, path |-> None, source |-> None]]
  /\ had' = [had EXCEPT !.request[r] = Now]
  /\ asks' = asks + 1
  /\ UNCHANGED <<tree, document, channels, server, scratch, edits, starts>>

Answered(r) ==
  /\ At(r, "rendered")
  /\ Answer(r)
  /\ UNCHANGED <<tree, document, channels, server, scratch, edits, starts, asks>>

\* The channel that is named, or the only one.
previewChannel(asked) == IF asked # None THEN channels \cap {asked} ELSE channels

\* A document that is filed nowhere has no address and no template.
Place(r, asked) ==
  LET found == previewChannel(asked) IN
  /\ At(r, "begun")
  /\ \/ (document.filed = None \/ Cardinality(found) # 1) /\ Failed(r)
     \/ \E c \in found :
          /\ document.filed # None /\ Cardinality(found) = 1
          /\ render' = [render EXCEPT ![r].category = document.filed, ![r].channel = c, ![r].at = "looking"]
          /\ UNCHANGED <<server, scratch, had>>
  /\ UNCHANGED Around

\* One directory after another is asked for the template, up to the root's.
Lookup(r) ==
  LET candidates == Candidates[render[r].category]
      next       == render[r].tried + 1
  IN  /\ At(r, "looking")
      /\ \/ next > Len(candidates) /\ Failed(r)
         \/ /\ next <= Len(candidates)
            /\ render' = [render EXCEPT ![r].tried = next,
                 ![r].path = IF tree[candidates[next]] = None THEN None ELSE candidates[next],
                 ![r].at   = IF tree[candidates[next]] = None THEN "looking" ELSE "found"]
            /\ UNCHANGED <<server, scratch, had>>
      /\ UNCHANGED Around

cachesAlways == TRUE   \* slip: in development too

\* In production what was parsed is kept and used again.
caches == ~server.reload

hit(p) == caches /\ server.parsed[p] # None

Hit(r) ==
  /\ At(r, "found") /\ hit(render[r].path)
  /\ render' = [render EXCEPT ![r].source = server.parsed[render[r].path], ![r].at = "parsed"]
  /\ UNCHANGED <<server, scratch, had, Around>>

Miss(r) == At(r, "found") /\ ~hit(render[r].path) /\ Goes(r, "reading") /\ UNCHANGED <<server, scratch, had, Around>>

\* Not under the lock: another request may be reading the same template.  What
\* does not parse is the answer of a request that only validates, and fails the rest.
Parse(r) ==
  LET source == tree[render[r].path] IN
  /\ At(r, "reading")
  /\ \/ source \in {None} \cup Unparsable /\ Failed(r)
     \/ /\ source \in Sources \ Unparsable
        /\ render' = [render EXCEPT ![r].source = source, ![r].at = IF caches THEN "keeping" ELSE "parsed"]
        /\ UNCHANGED <<server, scratch, had>>
  /\ UNCHANGED Around

Keep(r) ==
  /\ At(r, "keeping")
  /\ server' = [server EXCEPT !.parsed[render[r].path] = render[r].source]
  /\ Goes(r, "parsed")
  /\ UNCHANGED <<scratch, had, Around>>

\* Everything the page depends on.
Body(r) ==
  [text |-> render[r].text, category |-> render[r].category,
   channel |-> render[r].channel, path |-> render[r].path, source |-> render[r].source]

Executes(r) ==
  /\ <<render[r].source, render[r].text>> \notin Fails
  /\ server.preview /\ render[r].channel \notin BadExtension

\* Any request may be one that only validates: it ends here and writes nothing.
Execute(r) ==
  /\ At(r, "parsed")
  /\ \/ Failed(r)
     \/ Executes(r) /\ Goes(r, "creating") /\ UNCHANGED <<server, scratch, had>>
  /\ UNCHANGED Around

--------------------------------------------------------------------------------
(* The scratch tree                                                           *)

PreviewName(r) == [kind |-> "preview", of |-> Body(r)]

\* A temporary name is nobody else's, an earlier process's neither.
Temporary(r) == [kind |-> "temporary", of |-> <<r, starts>>]

InPlace(r) == PreviewName(r)   \* slip: under its name from the start

WrittenTo(r) == Temporary(r)

Without(name) == Restrict(scratch, DOMAIN scratch \ {name})
With(files, name, bytes) == [n \in DOMAIN files \cup {name} |-> IF n = name THEN bytes ELSE files[n]]

Create(r) ==
  /\ At(r, "creating")
  /\ \/ Failed(r)
     \/ scratch' = With(scratch, WrittenTo(r), None) /\ Goes(r, "writing") /\ UNCHANGED <<server, had>>
  /\ UNCHANGED Around

\* What fails after that leaves no temporary file behind.
Write(r) ==
  /\ At(r, "writing")
  /\ \/ scratch' = With(scratch, WrittenTo(r), Body(r)) /\ Goes(r, "renaming") /\ UNCHANGED had
     \/ scratch' = Without(WrittenTo(r)) /\ Answer(r)
  /\ UNCHANGED <<server, Around>>

Rename(r) ==
  /\ At(r, "renaming")
  /\ \/ scratch' = With(Without(WrittenTo(r)), PreviewName(r), Body(r)) /\ Goes(r, "rendered") /\ UNCHANGED had
     \/ scratch' = Without(WrittenTo(r)) /\ Answer(r)
  /\ UNCHANGED <<server, Around>>

\* What /preview/{name} may open.
ValidEntryName(name) == name.kind = "preview"

--------------------------------------------------------------------------------
Step(r) ==
  \/ Preview(r) \/ \E asked \in Channels \cup {None} : Place(r, asked)
  \/ Lookup(r)
  \/ Hit(r) \/ Miss(r) \/ Parse(r) \/ Keep(r) \/ Execute(r)
  \/ Create(r) \/ Write(r) \/ Rename(r) \/ Answered(r)

Next ==
  \/ \E settings \in Settings : NewServer(settings)
  \/ Stop
  \/ \E p \in Paths : \E s \in Sources \cup {None} : Edit(p, s)
  \/ Revise
  \/ \E r \in Requests : Step(r)

Spec == Init /\ [][Next]_vars

--------------------------------------------------------------------------------
(* Type correctness of the parts that actions read from one another.          *)
TypeOK ==
  /\ tree \in [Paths -> Sources \cup {None}]
  /\ server.parsed \in [Paths -> (Sources \ Unparsable) \cup {None}]
  /\ \A n \in DOMAIN scratch : n.kind \in {"preview", "temporary"}

(* Whoever opens a preview, while others are being written and after any      *)
(* failure or restart (scratch.go's temporary file and rename): there is the  *)
(* whole page its name stands for or no file, the page is one that rendered,  *)
(* and the address in an answer can be opened.                                *)
PreviewIsWhole ==
  /\ \A n \in DOMAIN scratch : ValidEntryName(n) =>
       /\ scratch[n] = n.of
       /\ n.of.source \in Sources \ Unparsable
       /\ <<n.of.source, n.of.text>> \notin Fails
  /\ \A r \in Requests : At(r, "rendered") => PreviewName(r) \in DOMAIN scratch

(* Whatever is edited while a request runs (engine.template, Locator.Lookup): *)
(* in development its template was in the tree while the request ran, in      *)
(* production since the server started; and no deeper category had one all    *)
(* the while.                                                                 *)
RendersAreCurrent ==
  \A r \in Requests : ~At(r, "idle") /\ render[r].source # None =>
    /\ render[r].source \in IF server.reload THEN had.request[r][render[r].path] ELSE had.server[render[r].path]
    /\ \A n \in 1..(render[r].tried - 1) : None \in had.request[r][Candidates[render[r].category][n]]

(* engine.go says that production parses each template once and keeps it.     *)
(* Not so: two requests that both find nothing kept both read the file, and   *)
(* the one that read it first may put its template over the newer one.        *)
ParsedOnce ==
  [][\A p \in Paths : server.parsed[p] # None => server'.parsed[p] \in {server.parsed[p]} \/ ~server'.up]_vars
================================================================================
