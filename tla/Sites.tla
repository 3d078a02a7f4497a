--------------------------------- MODULE Sites ---------------------------------
(***************************************************************************)
(* A site: its categories, what is filed in them, its domain, an output    *)
(* channel and an element type (service/categories.go, service/            *)
(* structure.go, store/categories.go, store/channels.go), and the          *)
(* addresses they give its documents.                                      *)
(*                                                                         *)
(* A request reads what it names outside a transaction, and finds it again *)
(* by row id inside: SQLite gives a new row one more than the greatest id  *)
(* in use, so the id may be another category's by then.  Who may do what   *)
(* is Access; here a request that may not gives up.                        *)
(***************************************************************************)
EXTENDS Addresses, TLC

CONSTANTS
  Directory,      \* the names a directory may get
  Domain,         \* the domains a site may get, as NormalizeSiteDomain leaves them
  Formats,        \* the channels' rows that a request may ask for
  Document, Slug, \* the documents, and the slug of each
  SiteRequest,    \* requests served at once
  MaxCategories,  \* bound: category ids in use at once
  MaxDepth,       \* bound: the depth of a category
  MaxFilings,     \* bound: the categories a document is filed in
  MaxEvents       \* bound: events ever recorded

ASSUME SitesAssumption ==
  MaxCategories \in Nat \ {0} /\ MaxDepth \in Nat /\ MaxEvents \in Nat /\ Domain # {} /\ Formats # {}

VARIABLES
  categories,  \* the rows: a function from the ids in use; 1 is the root
  filed,       \* [Document -> the ids it is filed in, the primary first]
  site,        \* its domain
  channel,     \* the row of the site's output channel
  fixedUri,    \* fixed_uri of the documents' element type
  events,      \* how many events there are
  lastEvent,   \* the newest of them
  siteRequests \* [SiteRequest -> what it has read and is about to do]

settings == <<site, channel, fixedUri>>
sitesVars == <<categories, filed, settings, events, lastEvent, siteRequests>>

Root == 1
Ids == 1..MaxCategories
NoPath == <<"none">>

\* What a request has read: the ids of the rows it names.  What it asks for besides
\* is chosen where it is used.
Idle == [op |-> "free", id |-> 0, ids |-> <<>>]

Children(c) == {n \in DOMAIN categories : categories[n].parent = c}

Paths == {categories[c].path : c \in DOMAIN categories}

FiledIn(c) == {d \in Document : \E i \in DOMAIN filed[d] : filed[d][i] = c}

\* Every URI there may be, worked out once.
URIs ==
  [x \in BOOLEAN \X Document \X Formats \X UNION {[1..n -> Directory] : n \in 0..MaxDepth} |->
     BuildURI([fixed |-> x[1], slug |-> Slug[x[2]], date |-> "1"], x[4], x[3])]

\* What a document's URLs resolve to: the domain, and what BuildURI makes of the
\* primary category's path.
Address(d) ==
  IF filed[d] = <<>> THEN NoAddress
  ELSE <<site, URIs[fixedUri, d, channel, categories[filed[d][1]].path]>>

SitesTypeOK ==
  /\ Root \in DOMAIN categories /\ DOMAIN categories \subseteq Ids
  /\ \A c \in DOMAIN categories : /\ categories[c].parent \in 0..MaxCategories
                                 /\ categories[c].path \in Seq(Directory)
  /\ \A d \in Document : ToSet(filed[d]) \subseteq DOMAIN categories /\ IsInjective(filed[d])
  /\ site \in Domain /\ channel \in Formats /\ fixedUri \in BOOLEAN
  /\ events \in 0..MaxEvents

SitesInit ==
  /\ categories = [n \in {Root} |-> [parent |-> 0, directory |-> "", path |-> <<>>]]
  /\ filed = [d \in Document |-> <<>>]
  /\ site = CHOOSE d \in Domain : TRUE
  /\ channel = CHOOSE oc \in Formats : TRUE
  /\ fixedUri = FALSE
  /\ events = 0
  /\ lastEvent = [type |-> "none"]
  /\ siteRequests = [r \in SiteRequest |-> Idle]

--------------------------------------------------------------------------------

Goes(r, op, req) == siteRequests[r].op = op /\ siteRequests' = [siteRequests EXCEPT ![r] = req]

Ends(r) == siteRequests' = [siteRequests EXCEPT ![r] = Idle]

recordEvent(e) == events < MaxEvents /\ events' = events + 1 /\ lastEvent' = e

Refused == UNCHANGED <<categories, filed, settings, events, lastEvent>>

--------------------------------------------------------------------------------
(* Categories                                                                 *)

\* The category a request names: the parent of a new one, or one to move or delete.
FindCategory(r) ==
  /\ \E c \in DOMAIN categories : Goes(r, "free", [Idle EXCEPT !.op = "category", !.id = c])
  /\ Refused

NextId == CHOOSE i \in 1..(MaxCategories + 1) :
            (\A c \in DOMAIN categories : c < i) /\ (i - 1 \in DOMAIN categories)

\* The path is worked out in the transaction, and is unique.
CreateCategory(r) ==
  LET p == siteRequests[r].id IN
    /\ Goes(r, "category", Idle)
    /\ \/ \E d \in Directory :
            LET path == JoinPath(categories[p].path, d) IN
              /\ p \in DOMAIN categories /\ path \notin Paths
              /\ NextId <= MaxCategories /\ Len(path) <= MaxDepth
              /\ categories' = [n \in DOMAIN categories \cup {NextId} |->
                    IF n = NextId THEN [parent |-> p, directory |-> d, path |-> path] ELSE categories[n]]
              /\ recordEvent([type |-> "category.created"])
              /\ UNCHANGED <<filed, settings>>
       \/ Refused

\* Slip: a category may go below itself.
ResolveAnywhere(c, parent, directory) ==
  IF c.parent = 0 THEN NoPath ELSE JoinPath(parent.path, directory)

\* The path after the move, or none for a root and for a move into the subtree itself.
Resolve(c, parent, directory) ==
  IF c.parent = 0 \/ IsDescendantPath(c.path, parent.path) THEN NoPath
  ELSE JoinPath(parent.path, directory)

\* Slip: the categories right below the one that moves, and no others.
moveChildren(rows, old, new) ==
  [n \in DOMAIN rows |->
     IF rows[n].path = old \/ (Len(rows[n].path) = Len(old) + 1 /\ IsPrefix(old, rows[n].path))
     THEN [rows[n] EXCEPT !.path = RewritePath(@, old, new)] ELSE rows[n]]

\* One UPDATE of the paths of a subtree.
moveSubtree(rows, old, new) ==
  [n \in DOMAIN rows |-> [rows[n] EXCEPT !.path = RewritePath(@, old, new)]]

\* Row c goes under p and is called d.
MoveTo(c, p, d) ==
  LET row == categories[c]
      path == Resolve(row, categories[p], d)
      moved == moveSubtree([categories EXCEPT ![c] = [@ EXCEPT !.parent = p, !.directory = d]],
                           row.path, path)
  IN  /\ path # NoPath /\ path # row.path
      /\ \A a, b \in DOMAIN moved : moved[a].path = moved[b].path => a = b
      /\ \A n \in DOMAIN moved : Len(moved[n].path) <= MaxDepth
      /\ categories' = moved

\* To a parent found by its path, under another name, or both.
MoveCategory(r) ==
  LET c == siteRequests[r].id IN
    /\ Goes(r, "category", Idle)
    /\ \/ /\ c \in DOMAIN categories
          /\ \E p \in DOMAIN categories, d \in Directory : MoveTo(c, p, d)
          /\ recordEvent([type |-> "category.moved", id |-> c])
          /\ UNCHANGED <<filed, settings>>
       \/ Refused

\* Slip: what is filed there is not asked about, and the rows that file it go with it.
DeletableWithFilings(c) ==
  c \in DOMAIN categories /\ categories[c].parent # 0 /\ Children(c) = {}

Deletable(c) ==
  c \in DOMAIN categories /\ categories[c].parent # 0 /\ Children(c) = {} /\ FiledIn(c) = {}

DeleteCategory(r) ==
  LET c == siteRequests[r].id IN
    /\ Goes(r, "category", Idle)
    /\ \/ /\ Deletable(c)
          /\ categories' = [n \in DOMAIN categories \ {c} |-> categories[n]]
          /\ filed' = [d \in Document |-> IF d \in FiledIn(c) THEN Remove(filed[d], c) ELSE filed[d]]
          /\ recordEvent([type |-> "category.deleted"])
          /\ UNCHANGED settings
       \/ Refused

--------------------------------------------------------------------------------
(* Filing                                                                     *)

\* The categories are read one by one: two paths may be one row's, if it moves.
ReadFiling(r) ==
  /\ \/ \E d \in Document : Goes(r, "free", [Idle EXCEPT !.op = "file", !.id = d])
     \/ \E c \in DOMAIN categories :
          /\ Len(siteRequests[r].ids) < MaxFilings
          /\ Goes(r, "file", [siteRequests[r] EXCEPT !.ids = Append(@, c)])
  /\ Refused

\* Slip: the new filings are added to the old ones.
SetCategoriesBeside(d, ids) == filed' = [filed EXCEPT ![d] = @ \o ids]

SetCategories(d, ids) == filed' = [filed EXCEPT ![d] = ids]

\* The filings are replaced; a foreign or the primary key may refuse them.
FileDocument(r) ==
  LET req == siteRequests[r]
      may == ToSet(req.ids) \subseteq DOMAIN categories /\ IsInjective(req.ids)
  IN  /\ req.op = "file" /\ Ends(r)
      /\ \/ /\ may
            /\ SetCategories(req.id, req.ids)
            /\ recordEvent([type |-> "document.filed", id |-> req.id])
            /\ UNCHANGED <<categories, settings>>
         \/ Refused

--------------------------------------------------------------------------------
(* The site, its channel and the element type                                 *)

\* The whole row is written; of what it says, only this gives addresses.
UpdateSite ==
  /\ site' \in Domain
  /\ recordEvent([type |-> "site.updated"])
  /\ UNCHANGED <<categories, filed, channel, fixedUri, siteRequests>>

UpdateElementType ==
  /\ fixedUri' \in BOOLEAN
  /\ recordEvent([type |-> "element_type.updated"])
  /\ UNCHANGED <<categories, filed, site, channel, siteRequests>>

\* Replaced as a whole by what the request asks for, in one step: only the id was read.
UpdateOutputChannel ==
  /\ channel' \in Formats /\ ValidFormat(channel'.format) /\ ValidFormat(channel'.fixedFormat)
  /\ recordEvent([type |-> "output_channel.updated"])
  /\ UNCHANGED <<categories, filed, site, fixedUri, siteRequests>>

GiveUp(r) == siteRequests[r] # Idle /\ Ends(r) /\ Refused

SitesNext ==
  \/ UpdateSite \/ UpdateElementType \/ UpdateOutputChannel
  \/ \E r \in SiteRequest :
       \/ FindCategory(r) \/ CreateCategory(r) \/ MoveCategory(r) \/ DeleteCategory(r)
       \/ ReadFiling(r) \/ FileDocument(r)
       \/ GiveUp(r)

SitesSpec == SitesInit /\ [][SitesNext]_sitesVars

--------------------------------------------------------------------------------
(* Properties                                                                 *)

\* The path a category carries is the walk up from it, on every row, and no two
\* categories share one: grants and addresses both read the path alone
\* (moveSubtree, JoinPath, against racing moves and row ids used again).
PathsAreTheTree ==
  /\ categories[Root] = [parent |-> 0, directory |-> "", path |-> <<>>]
  /\ \A c \in DOMAIN categories \ {Root} :
       /\ categories[c].parent \in DOMAIN categories
       /\ categories[c].path = Append(categories[categories[c].parent].path, categories[c].directory)
  /\ \A a, b \in DOMAIN categories : categories[a].path = categories[b].path => a = b

\* Nobody reads of an address that changed on its own: when the address of a
\* document changes, the same step tells of its filing, of a move of a category
\* it is in or below, or of the site, channel or type it takes its shape from.
AddressChangesAreTold ==
  [][\A d \in Document : Address(d)' # Address(d) =>
       /\ events' = events + 1
       /\ CASE lastEvent'.type = "document.filed" -> lastEvent'.id = d
            [] lastEvent'.type = "category.moved" ->
                 IsPrefix(categories[lastEvent'.id].path, categories[filed[d][1]].path)
            [] OTHER -> lastEvent'.type \in {"site.updated", "output_channel.updated",
                                             "element_type.updated"}]_sitesVars

\* Deciding by paths comes to the same as walking the tree: a move is refused
\* when it would put a category below itself, a name when a sibling has it.
Tree == INSTANCE SiteTree WITH
  Node <- Ids, Directory <- Directory, Root <- Root,
  parent <- [c \in DOMAIN categories \ {Root} |-> categories[c].parent],
  directory <- [c \in DOMAIN categories \ {Root} |-> categories[c].directory]

TreeSpec == Tree!Spec
================================================================================
