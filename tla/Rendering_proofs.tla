--------------------------- MODULE Rendering_proofs ---------------------------
(***************************************************************************)
(* What a render guarantees for every template tree, every number of       *)
(* requests and however often trees, documents and servers change: its     *)
(* template was there, and a preview is whole.                             *)
(***************************************************************************)
EXTENDS Rendering, TLAPS

--------------------------------------------------------------------------------
(* Requests                                                                   *)

Good    == Sources \ Unparsable
Places  == {"begun", "looking", "found", "reading", "keeping", "parsed",
            "creating", "writing", "renaming", "rendered"}
Looking == {"begun", "looking", "found", "reading"}   \* no template in hand
Found   == Places \ {"begun", "looking"}
Written == {"creating", "writing", "renaming", "rendered"}

Request ==
  [at : Places, text : Nat, category : Categories \cup {None}, channel : Channels \cup {None},
   tried : Nat, path : Paths \cup {None}, source : Good \cup {None}]

Source  == Sources \cup {None}
History == [Paths -> SUBSET Source]

\* What a request has at each place, seen and ever being the sources there were
\* since it began and since the server started.
Sound(q, seen, ever, reload) ==
  \/ q = Idle
  \/ /\ q \in Request
     /\ q.at # "begun" => q.category \in Categories
     /\ q.at \in Found => q.path \in Paths
     /\ IF q.at \in Looking THEN q.source = None
        ELSE q.source \in Good /\ q.source \in IF reload THEN seen[q.path] ELSE ever[q.path]
     /\ q.at = "looking" => \A n \in 1..q.tried : None \in seen[Candidates[q.category][n]]
     /\ q.at \in Found => \A n \in 1..(q.tried - 1) : None \in seen[Candidates[q.category][n]]
     /\ q.at = "begun" => q.tried = 0
     /\ q.at = "looking" => q.tried \in 0..Len(Candidates[q.category])
     /\ q.at \in Found => q.tried \in 1..Len(Candidates[q.category])
     /\ q.at = "keeping" => ~reload
     /\ q.at \in Written => <<q.source, q.text>> \notin Fails

ServerType ==
  [up : BOOLEAN, templates : BOOLEAN, preview : BOOLEAN, reload : BOOLEAN, parsed : [Paths -> Good \cup {None}]]

Types ==
  /\ tree \in [Paths -> Source]
  /\ document \in [text : Nat, filed : Categories \cup {None}]
  /\ channels \subseteq Channels
  /\ server \in ServerType
  /\ render \in [Requests -> Request \cup {Idle}]
  /\ had \in [server : History, request : [Requests -> History]]

\* The histories hold what there is, and a request's is part of the server's.
Kept ==
  /\ server.up => \A p \in Paths :
       tree[p] \in had.server[p] /\ server.parsed[p] \in had.server[p] \cup {None}
  /\ \A r \in Requests : render[r] # Idle =>
       /\ server.up
       /\ \A p \in Paths : tree[p] \in had.request[r][p] /\ had.request[r][p] \subseteq had.server[p]

RInv ==
  /\ Types
  /\ Kept
  /\ \A r \in Requests : Sound(render[r], had.request[r], had.server, server.reload)

LEMMA CandidateIsPath ==
  ASSUME NEW c \in Categories
  PROVE  /\ Len(Candidates[c]) \in Nat
         /\ \A n \in 1..Len(Candidates[c]) : Candidates[c][n] \in Paths
BY RenderingAssumption

LEMMA InitRInv == Init => RInv
BY RenderingAssumption DEF Init, RInv, Types, Kept, Sound, Down, Never, Idle, Source, History, ServerType

\* A longer history keeps a request sound.
LEMMA SoundGrows ==
  ASSUME NEW q, NEW seen \in History, NEW ever \in History, NEW seen2 \in History, NEW ever2 \in History,
         NEW reload \in BOOLEAN, Sound(q, seen, ever, reload),
         \A p \in Paths : seen[p] \subseteq seen2[p] /\ ever[p] \subseteq ever2[p]
  PROVE  Sound(q, seen2, ever2, reload)
<1>1. CASE q = Idle
      BY <1>1 DEF Sound
<1>2. CASE q # Idle
  <2>1. q \in Request
        BY <1>2 DEF Sound
  <2>2. q.at # "begun" => \A n \in 1..Len(Candidates[q.category]) : Candidates[q.category][n] \in Paths
        BY <1>2, CandidateIsPath DEF Sound
  <2>3. q.at \in Found => q.path \in Paths
        BY <1>2 DEF Sound
  <2>4. q.at \in Found \/ q.at \in Looking
        BY <2>1 DEF Request, Places, Found, Looking
  <2>5. q.at = "looking" => \A n \in 1..q.tried : None \in seen2[Candidates[q.category][n]]
        BY <1>2, <2>1, <2>2, CandidateIsPath DEF Sound, Request
  <2>6. q.at \in Found => \A n \in 1..(q.tried - 1) : None \in seen2[Candidates[q.category][n]]
        BY <1>2, <2>1, <2>2, CandidateIsPath DEF Sound, Request, Found
  <2>   QED  BY <1>2, <2>1, <2>3, <2>4, <2>5, <2>6 DEF Sound, Found
<1>   QED  BY <1>1, <1>2

\* A step of one request that moves no history but, at most, forgets its own.
LEMMA RequestStep ==
  ASSUME RInv, NEW r \in Requests, NEW q,
         render' = [render EXCEPT ![r] = q],
         \/ q = Idle /\ had' = [had EXCEPT !.request[r] = Never]
         \/ q \in Request /\ UNCHANGED had,
         Sound(q, had.request[r], had.server, server.reload),
         render[r] # Idle,
         UNCHANGED <<server, Around>>
  PROVE  RInv'
<1>1. Types'
  <2>1. /\ UNCHANGED <<tree, document, channels, server>>
        /\ q \in Request \cup {Idle}
        BY DEF Around
  <2>2. render' \in [Requests -> Request \cup {Idle}]
        BY <2>1 DEF RInv, Types
  <2>3. Never \in History
        BY DEF Never, History
  <2>4. had' \in [server : History, request : [Requests -> History]]
        BY <2>3 DEF RInv, Types
  <2>   QED  BY <2>1, <2>2, <2>4 DEF RInv, Types
<1>2. Kept'
      BY DEF RInv, Types, Kept, Around
<1>3. ASSUME NEW s \in Requests PROVE Sound(render[s], had.request[s], had.server, server.reload)'
  <2>1. CASE s # r
        BY <2>1 DEF RInv, Types
  <2>2. CASE s = r /\ q = Idle
        BY <2>2 DEF RInv, Types, Sound
  <2>3. CASE s = r /\ q # Idle
        BY <2>3 DEF RInv, Types
  <2>   QED  BY <2>1, <2>2, <2>3
<1>   QED  BY <1>1, <1>2, <1>3 DEF RInv

\* What a request at work has, as RInv says it.
LEMMA AtWork ==
  ASSUME RInv, NEW r \in Requests, ~At(r, "idle")
  PROVE  /\ render[r] # Idle /\ render[r] \in Request /\ server.up
         /\ Sound(render[r], had.request[r], had.server, server.reload)
BY DEF RInv, Types, Kept, At, Idle

LEMMA AnswerRInv ==
  ASSUME RInv, NEW r \in Requests, ~At(r, "idle"), Answer(r), UNCHANGED <<server, Around>>
  PROVE  RInv'
<1>1. render[r] # Idle /\ Sound(Idle, had.request[r], had.server, server.reload)
      BY AtWork DEF Sound
<1>   QED  BY <1>1, RequestStep DEF Answer

\* A step that only moves a request on.
LEMMA GoesRInv ==
  ASSUME RInv, NEW r \in Requests, NEW place \in Written, Goes(r, place), UNCHANGED had,
         render[r].at \in Written \/ (At(r, "parsed") /\ Executes(r)),
         UNCHANGED <<server, Around>>
  PROVE  RInv'
<1>1. ~At(r, "idle")
      BY DEF At, Written
<1>2. render[r] \in Request /\ render[r] # Idle
      BY <1>1, AtWork
<1>   DEFINE q == [render[r] EXCEPT !.at = place]
<1>3. render' = [render EXCEPT ![r] = q]
      BY DEF Goes, RInv, Types
<1>4. q \in Request /\ q.at = place
      BY <1>2 DEF Request, Places, Written
<1>5. Sound(q, had.request[r], had.server, server.reload)
      BY <1>1, <1>2, <1>4, AtWork DEF Sound, Request, Places, Written, Found, Looking, At, Executes
<1>   HIDE DEF q
<1>   QED  BY <1>2, <1>3, <1>4, <1>5, RequestStep

LEMMA PlaceRInv ==
  ASSUME RInv, NEW r \in Requests, NEW asked, Place(r, asked)
  PROVE  RInv'
<1>1. ~At(r, "idle") /\ UNCHANGED Around
      BY DEF Place, At
<1>2. CASE Failed(r)
      BY <1>1, <1>2, AnswerRInv DEF Failed
<1>3. CASE ~Failed(r)
  <2>1. PICK c \in previewChannel(asked) :
          /\ document.filed # None
          /\ render' = [render EXCEPT ![r].category = document.filed, ![r].channel = c, ![r].at = "looking"]
          /\ UNCHANGED <<server, scratch, had>>
        BY <1>3 DEF Place
  <2>2. c \in Channels /\ document.filed \in Categories
        BY <2>1 DEF previewChannel, RInv, Types
  <2>3. render[r] # Idle /\ render[r] \in Request /\ At(r, "begun")
        BY <1>1, AtWork DEF Place
  <2>   DEFINE q == [render[r] EXCEPT !.category = document.filed, !.channel = c, !.at = "looking"]
  <2>4. render' = [render EXCEPT ![r] = q]
        BY <2>1 DEF RInv, Types
  <2>5. q \in Request
        BY <2>2, <2>3 DEF Request, Places
  <2>6. /\ q.at = "looking" /\ q.category = document.filed /\ q.tried = 0 /\ q.source = None
        BY <1>1, <2>2, <2>3, AtWork DEF Sound, Request, Looking, At
  <2>   HIDE DEF q
  <2>7. Len(Candidates[q.category]) \in Nat
        BY <2>2, <2>6, CandidateIsPath
  <2>8. Sound(q, had.request[r], had.server, server.reload)
        BY <2>2, <2>5, <2>6, <2>7 DEF Sound, Found, Looking, Places, Written
  <2>   QED  BY <1>1, <2>1, <2>3, <2>4, <2>5, <2>8, RequestStep
<1>   QED  BY <1>2, <1>3

LEMMA LookupRInv ==
  ASSUME RInv, NEW r \in Requests, Lookup(r)
  PROVE  RInv'
<1>  DEFINE candidates == Candidates[render[r].category]
            next       == render[r].tried + 1
<1>1. ~At(r, "idle") /\ At(r, "looking") /\ UNCHANGED Around
      BY DEF Lookup, At
<1>2. CASE Failed(r)
      BY <1>1, <1>2, AnswerRInv DEF Failed
<1>3. CASE ~Failed(r)
  <2>1. /\ next <= Len(candidates)
        /\ render' = [render EXCEPT ![r].tried = next,
             ![r].path = IF tree[candidates[next]] = None THEN None ELSE candidates[next],
             ![r].at   = IF tree[candidates[next]] = None THEN "looking" ELSE "found"]
        /\ UNCHANGED <<server, scratch, had>>
        BY <1>3 DEF Lookup
  <2>2. /\ render[r] # Idle /\ render[r] \in Request /\ render[r].at = "looking" /\ server.up
        /\ Sound(render[r], had.request[r], had.server, server.reload)
        BY <1>1, AtWork DEF At
  <2>3. /\ render[r].category \in Categories /\ render[r].tried \in 0..Len(candidates)
        /\ next \in 1..Len(candidates) /\ candidates[next] \in Paths /\ Len(candidates) \in Nat
    <3>1. render[r].category \in Categories /\ render[r].tried \in 0..Len(candidates)
          BY <2>2 DEF Sound, Idle
    <3>2. /\ Len(candidates) \in Nat
          /\ \A n \in 1..Len(candidates) : candidates[n] \in Paths
          BY <3>1, CandidateIsPath
    <3>   HIDE DEF candidates
    <3>   QED  BY <3>1, <3>2, <2>1
  <2>4. tree[candidates[next]] \in had.request[r][candidates[next]]
        BY <2>2, <2>3 DEF RInv, Kept
  <2>   DEFINE q == [render[r] EXCEPT !.tried = next,
                       !.path = IF tree[candidates[next]] = None THEN None ELSE candidates[next],
                       !.at   = IF tree[candidates[next]] = None THEN "looking" ELSE "found"]
  <2>5. render' = [render EXCEPT ![r] = q]
        BY <2>1 DEF RInv, Types
  <2>6. q \in Request
    <3>1. next \in Nat
          BY <2>3
    <3>   HIDE DEF next
    <3>   QED  BY <2>2, <2>3, <3>1 DEF Request, Places
  <2>7. \A n \in 1..render[r].tried : None \in had.request[r][candidates[n]]
        BY <2>2 DEF Sound
  <2>8. Sound(q, had.request[r], had.server, server.reload)
    <3>1. CASE tree[candidates[next]] = None
      <4>1. q.at = "looking" /\ q.tried = next /\ q.category = render[r].category /\ q.source = None
            BY <3>1, <2>2, <2>6 DEF Request, Sound, Looking
      <4>2. \A n \in 1..next : None \in had.request[r][candidates[n]]
            BY <3>1, <2>3, <2>4, <2>7
      <4>   HIDE DEF q
      <4>   QED  BY <4>1, <4>2, <2>3, <2>6 DEF Sound, Looking, Found, Places, Written
    <3>2. CASE tree[candidates[next]] # None
      <4>1. /\ q.at = "found" /\ q.tried = next /\ q.category = render[r].category
            /\ q.source = None /\ q.path = candidates[next]
            BY <3>2, <2>2, <2>6 DEF Request, Sound, Looking
      <4>2. \A n \in 1..(next - 1) : None \in had.request[r][candidates[n]]
            BY <2>3, <2>7
      <4>   HIDE DEF q
      <4>   QED  BY <4>1, <4>2, <2>3, <2>6 DEF Sound, Looking, Found, Places, Written
    <3>   QED  BY <3>1, <3>2
  <2>   HIDE DEF q
  <2>   QED  BY <1>1, <2>1, <2>2, <2>5, <2>6, <2>8, RequestStep
<1>   QED  BY <1>2, <1>3

\* A source in hand is one its path had.
LEMMA HitRInv ==
  ASSUME RInv, NEW r \in Requests, Hit(r)
  PROVE  RInv'
<1>1. ~At(r, "idle") /\ UNCHANGED <<server, scratch, had, Around>>
      BY DEF Hit, At
<1>2. /\ render[r] # Idle /\ render[r] \in Request /\ render[r].at = "found" /\ server.up
      /\ Sound(render[r], had.request[r], had.server, server.reload)
      BY <1>1, AtWork DEF At, Hit
<1>   DEFINE kept == server.parsed[render[r].path]
<1>3. render[r].path \in Paths /\ kept # None /\ ~server.reload
      BY <1>2 DEF Hit, hit, caches, Sound, Found, Places
<1>4. kept \in Good /\ kept \in had.server[render[r].path]
      BY <1>2, <1>3 DEF RInv, Types, ServerType, Kept
<1>   DEFINE q == [render[r] EXCEPT !.source = kept, !.at = "parsed"]
<1>5. render' = [render EXCEPT ![r] = q]
      BY DEF Hit, RInv, Types
<1>6. q \in Request
      BY <1>2, <1>4 DEF Request, Places
<1>7. Sound(q, had.request[r], had.server, server.reload)
      BY <1>2, <1>3, <1>4, <1>6 DEF Sound, Request, Found, Looking, Places, Written
<1>   HIDE DEF q
<1>   QED  BY <1>1, <1>2, <1>5, <1>6, <1>7, RequestStep

LEMMA MissRInv ==
  ASSUME RInv, NEW r \in Requests, Miss(r)
  PROVE  RInv'
<1>1. ~At(r, "idle") /\ UNCHANGED <<server, scratch, had, Around>>
      BY DEF Miss, At
<1>2. /\ render[r] # Idle /\ render[r] \in Request /\ render[r].at = "found"
      /\ Sound(render[r], had.request[r], had.server, server.reload)
      BY <1>1, AtWork DEF At, Miss
<1>   DEFINE q == [render[r] EXCEPT !.at = "reading"]
<1>3. render' = [render EXCEPT ![r] = q]
      BY DEF Miss, Goes, RInv, Types
<1>4. q \in Request
      BY <1>2 DEF Request, Places
<1>5. Sound(q, had.request[r], had.server, server.reload)
      BY <1>2, <1>4 DEF Sound, Request, Found, Looking, Places, Written
<1>   HIDE DEF q
<1>   QED  BY <1>1, <1>2, <1>3, <1>4, <1>5, RequestStep

LEMMA ParseRInv ==
  ASSUME RInv, NEW r \in Requests, Parse(r)
  PROVE  RInv'
<1>1. ~At(r, "idle") /\ UNCHANGED Around
      BY DEF Parse, At
<1>2. CASE Failed(r)
      BY <1>1, <1>2, AnswerRInv DEF Failed
<1>3. CASE ~Failed(r)
  <2>   DEFINE source == tree[render[r].path]
               q == [render[r] EXCEPT !.source = source, !.at = IF caches THEN "keeping" ELSE "parsed"]
  <2>1. /\ source \in Good /\ UNCHANGED <<server, scratch, had>>
        /\ render' = [render EXCEPT ![r].source = source, ![r].at = IF caches THEN "keeping" ELSE "parsed"]
        BY <1>3 DEF Parse, Good
  <2>2. /\ render[r] # Idle /\ render[r] \in Request /\ render[r].at = "reading" /\ server.up
        /\ Sound(render[r], had.request[r], had.server, server.reload)
        BY <1>1, AtWork DEF At, Parse
  <2>3. render[r].path \in Paths
        BY <2>2 DEF Sound, Found, Places
  <2>4. source \in had.request[r][render[r].path] /\ source \in had.server[render[r].path]
        BY <2>2, <2>3 DEF RInv, Kept
  <2>5. render' = [render EXCEPT ![r] = q]
        BY <2>1 DEF RInv, Types
  <2>6. q \in Request
        BY <2>1, <2>2 DEF Request, Places
  <2>7. Sound(q, had.request[r], had.server, server.reload)
        BY <2>1, <2>2, <2>3, <2>4, <2>6 DEF Sound, Request, Found, Looking, Places, Written, caches
  <2>   HIDE DEF q
  <2>   QED  BY <1>1, <2>1, <2>2, <2>5, <2>6, <2>7, RequestStep
<1>   QED  BY <1>2, <1>3

\* What is kept was read while the server ran.
LEMMA KeepRInv ==
  ASSUME RInv, NEW r \in Requests, Keep(r)
  PROVE  RInv'
<1>1. /\ render[r] # Idle /\ render[r] \in Request /\ render[r].at = "keeping" /\ server.up
      /\ Sound(render[r], had.request[r], had.server, server.reload)
      BY AtWork DEF At, Keep
<1>2. /\ render[r].path \in Paths /\ render[r].source \in Good /\ ~server.reload
      /\ render[r].source \in had.server[render[r].path]
      BY <1>1 DEF Sound, Found, Looking, Places
<1>   DEFINE q == [render[r] EXCEPT !.at = "parsed"]
             parsed == [server.parsed EXCEPT ![render[r].path] = render[r].source]
<1>3. /\ render' = [render EXCEPT ![r] = q] /\ server' = [server EXCEPT !.parsed = parsed]
      /\ UNCHANGED <<had, Around>>
      BY DEF Keep, Goes, RInv, Types, ServerType
<1>4. q \in Request
      BY <1>1 DEF Request, Places
<1>5. parsed \in [Paths -> Good \cup {None}] /\ server' \in ServerType
      /\ server'.up = server.up /\ server'.reload = server.reload /\ server'.parsed = parsed
      BY <1>2, <1>3 DEF RInv, Types, ServerType
<1>6. Types'
      BY <1>3, <1>4, <1>5 DEF RInv, Types, Around
<1>7. \A p \in Paths : parsed[p] \in had.server[p] \cup {None}
      BY <1>1, <1>2 DEF RInv, Types, ServerType, Kept
<1>8. Kept'
      BY <1>1, <1>3, <1>5, <1>7 DEF RInv, Types, Kept, Around
<1>9. Sound(q, had.request[r], had.server, server.reload)
      BY <1>1, <1>2, <1>4 DEF Sound, Request, Found, Looking, Places, Written
<1>   HIDE DEF q, parsed
<1>10. \A s \in Requests : Sound(render[s], had.request[s], had.server, server.reload)'
      BY <1>3, <1>5, <1>9 DEF RInv, Types
<1>   QED  BY <1>6, <1>8, <1>10 DEF RInv

LEMMA ExecuteRInv ==
  ASSUME RInv, NEW r \in Requests, Execute(r)
  PROVE  RInv'
<1>1. ~At(r, "idle") /\ At(r, "parsed") /\ UNCHANGED Around
      BY DEF Execute, At
<1>2. CASE Failed(r)
      BY <1>1, <1>2, AnswerRInv DEF Failed
<1>3. CASE ~Failed(r)
  <2>1. Executes(r) /\ Goes(r, "creating") /\ UNCHANGED <<server, scratch, had>>
        BY <1>3 DEF Execute
  <2>   QED  BY <1>1, <2>1, GoesRInv DEF Written
<1>   QED  BY <1>2, <1>3

\* The scratch tree is the concern of PreviewIsWhole.
LEMMA ScratchRInv ==
  ASSUME RInv, NEW r \in Requests, Create(r) \/ Write(r) \/ Rename(r) \/ Answered(r)
  PROVE  RInv'
<1>1. render[r].at \in Written /\ ~At(r, "idle")
      BY DEF Create, Write, Rename, Answered, At, Written
<1>2. UNCHANGED <<server, Around>>
      BY DEF Create, Write, Rename, Answered, Failed, Around
<1>3. \/ Answer(r)
      \/ \E place \in {"writing", "renaming", "rendered"} : Goes(r, place) /\ UNCHANGED had
      BY DEF Create, Write, Rename, Answered, Failed
<1>   QED  BY <1>1, <1>2, <1>3, AnswerRInv, GoesRInv DEF Written

LEMMA PreviewRInv ==
  ASSUME RInv, NEW r \in Requests, Preview(r)
  PROVE  RInv'
<1>   DEFINE q == [at |-> "begun", text |-> document.text, category |-> None,
                   channel |-> None, tried |-> 0, path |-> None, source |-> None]
<1>1. /\ server.up /\ render' = [render EXCEPT ![r] = q]
      /\ had' = [had EXCEPT !.request[r] = Now]
      /\ UNCHANGED <<tree, document, channels, server>>
      BY DEF Preview
<1>2. q \in Request /\ q # Idle
      BY DEF RInv, Types, Request, Places, Idle
<1>3. Now \in History
      BY DEF RInv, Types, Now, History
<1>4. had' \in [server : History, request : [Requests -> History]] /\ had'.server = had.server
      /\ \A s \in Requests : had'.request[s] = IF s = r THEN Now ELSE had.request[s]
      BY <1>1, <1>3 DEF RInv, Types
<1>5. render' \in [Requests -> Request \cup {Idle}]
      BY <1>1, <1>2 DEF RInv, Types
<1>6. Types'
      BY <1>1, <1>4, <1>5 DEF RInv, Types
<1>7. \A p \in Paths : tree[p] \in Now[p] /\ Now[p] \subseteq had.server[p]
      BY <1>1 DEF RInv, Kept, Now
<1>8. Kept'
      BY <1>1, <1>2, <1>4, <1>7 DEF RInv, Types, Kept
<1>9. Sound(q, Now, had.server, server.reload)
      BY <1>2 DEF Sound, Looking, Found, Written, Places
<1>   HIDE DEF q
<1>10. \A s \in Requests : Sound(render[s], had.request[s], had.server, server.reload)'
      BY <1>1, <1>4, <1>9 DEF RInv, Types
<1>   QED  BY <1>6, <1>8, <1>10 DEF RInv

LEMMA EditRInv ==
  ASSUME RInv, NEW p \in Paths, NEW source \in Source, Edit(p, source)
  PROVE  RInv'
<1>   DEFINE seen(r) == IF At(r, "idle") THEN Never ELSE [had.request[r] EXCEPT ![p] = @ \cup {source}]
             ever    == IF server.up THEN [had.server EXCEPT ![p] = @ \cup {source}] ELSE Never
<1>1. /\ tree' = [tree EXCEPT ![p] = source]
      /\ had' = [server |-> ever, request |-> [r \in Requests |-> seen(r)]]
      /\ UNCHANGED <<document, channels, server, render>>
      BY DEF Edit
<1>2. had \in [server : History, request : [Requests -> History]] /\ Never \in History
      BY DEF RInv, Types, Never, History
<1>3. ever \in History
      BY <1>2 DEF History, Source
<1>4. \A r \in Requests : seen(r) \in History
      BY <1>2 DEF History, Source
<1>5. \A r \in Requests : render[r] # Idle =>
        \A s \in Paths : had.request[r][s] \subseteq seen(r)[s] /\ had.server[s] \subseteq ever[s]
      BY <1>2 DEF RInv, Kept, Types, Request, Places, Idle, At, History
<1>   HIDE DEF seen, ever
<1>6. Types'
      BY <1>1, <1>3, <1>4 DEF RInv, Types
<1>7. Kept'
  <2>1. server.up => \A s \in Paths : tree'[s] \in ever[s] /\ server.parsed[s] \in ever[s] \cup {None}
        BY <1>1, <1>2 DEF RInv, Kept, Types, ever, History
  <2>2. \A r \in Requests : render[r] # Idle =>
          \A s \in Paths : tree'[s] \in seen(r)[s] /\ seen(r)[s] \subseteq ever[s]
        BY <1>1, <1>2 DEF RInv, Kept, Types, Request, Places, Idle, At, seen, ever, History
  <2>   QED  BY <1>1, <2>1, <2>2 DEF RInv, Kept
<1>8. ASSUME NEW r \in Requests PROVE Sound(render[r], seen(r), ever, server.reload)
  <2>1. CASE render[r] = Idle
        BY <2>1 DEF Sound
  <2>2. CASE render[r] # Idle
    <3>1. server.reload \in BOOLEAN /\ Sound(render[r], had.request[r], had.server, server.reload)
          BY DEF RInv, Types, ServerType
    <3>   QED  BY <2>2, <3>1, <1>2, <1>3, <1>4, <1>5, SoundGrows
  <2>   QED  BY <2>1, <2>2
<1>9. \A r \in Requests : Sound(render[r], had.request[r], had.server, server.reload)'
      BY <1>1, <1>8
<1>   QED  BY <1>6, <1>7, <1>9 DEF RInv

\* A server that starts or stops serves nobody.
LEMMA ServerRInv ==
  ASSUME RInv, Stop \/ \E settings \in Settings : NewServer(settings)
  PROVE  RInv'
<1>1. Never \in History /\ Now \in History
      BY DEF RInv, Types, Never, Now, History
<1>2. CASE Stop
  <2>1. Down \in ServerType
        BY DEF Down, ServerType
  <2>   QED  BY <1>1, <1>2, <2>1 DEF Stop, RInv, Types, Kept, Sound, Down
<1>3. ASSUME NEW settings \in Settings, NewServer(settings) PROVE RInv'
  <2>1. ~server.up /\ server' \in ServerType /\ server'.parsed = [p \in Paths |-> None]
        BY <1>3, RenderingAssumption DEF NewServer, ServerType, Down
  <2>2. \A r \in Requests : render[r] = Idle
        BY <2>1 DEF RInv, Kept
  <2>3. had' \in [server : History, request : [Requests -> History]] /\ had'.server = Now
        BY <1>1, <1>3 DEF NewServer, RInv, Types
  <2>4. Types'
        BY <1>3, <2>1, <2>3 DEF NewServer, RInv, Types
  <2>   QED  BY <1>3, <2>1, <2>2, <2>3, <2>4 DEF NewServer, RInv, Kept, Sound, Now
<1>   QED  BY <1>2, <1>3

LEMMA ReviseRInv == RInv /\ Revise => RInv'
<1>   SUFFICES ASSUME RInv, Revise PROVE RInv'
      OBVIOUS
<1>1. UNCHANGED <<tree, server, render, had>>
      BY DEF Revise
<1>2. document' \in [text : Nat, filed : Categories \cup {None}] /\ channels' \subseteq Channels
      BY DEF Revise, RInv, Types
<1>   QED  BY <1>1, <1>2 DEF RInv, Types, Kept

LEMMA NextRInv == RInv /\ [Next]_vars => RInv'
<1>   SUFFICES ASSUME RInv, [Next]_vars PROVE RInv'
      OBVIOUS
<1>1. CASE UNCHANGED vars
      BY <1>1 DEF vars, RInv, Types, Kept
<1>2. ASSUME NEW r \in Requests, Step(r) PROVE RInv'
      BY <1>2, PreviewRInv, PlaceRInv, LookupRInv, HitRInv, MissRInv, ParseRInv, KeepRInv,
         ExecuteRInv, ScratchRInv DEF Step
<1>3. ASSUME NEW p \in Paths, NEW s \in Sources \cup {None}, Edit(p, s) PROVE RInv'
      BY <1>3, EditRInv DEF Source
<1>   QED  BY <1>1, <1>2, <1>3, ServerRInv, ReviseRInv DEF Next

\* RInv implies the property the run checks.
LEMMA RInvIsCurrent == RInv => RendersAreCurrent
<1>   SUFFICES ASSUME RInv, NEW r \in Requests, ~At(r, "idle"), render[r].source # None
               PROVE  /\ render[r].source \in IF server.reload THEN had.request[r][render[r].path]
                                               ELSE had.server[render[r].path]
                      /\ \A n \in 1..(render[r].tried - 1) :
                           None \in had.request[r][Candidates[render[r].category][n]]
      BY DEF RendersAreCurrent
<1>   QED  BY AtWork DEF Sound, Request, Places, Looking, Found

(* However many requests, edits and server starts there are: a page is made   *)
(* by a template that its place had while the request ran, in production      *)
(* since the server started, and no deeper category had one all the while     *)
(* (engine.template, Locator.Lookup).                                         *)
THEOREM TemplatesAreCurrent == Spec => []RendersAreCurrent
<1>1. Init => RInv
      BY InitRInv
<1>2. RInv /\ [Next]_vars => RInv'
      BY NextRInv
<1>3. RInv => RendersAreCurrent
      BY RInvIsCurrent
<1>   QED  BY <1>1, <1>2, <1>3, PTL DEF Spec

--------------------------------------------------------------------------------
(* The scratch tree                                                           *)

\* Every file under a preview's name is its page, and every answer names one.
Whole(files) ==
  \A n \in DOMAIN files : n.kind = "preview" =>
    files[n] = n.of /\ n.of.source \in Good /\ <<n.of.source, n.of.text>> \notin Fails

SInv ==
  /\ Whole(scratch)
  /\ \A r \in Requests : At(r, "rendered") => PreviewName(r) \in DOMAIN scratch

LEMMA WithTemporary ==
  ASSUME NEW r, NEW bytes, Whole(scratch)
  PROVE  /\ Whole(With(scratch, WrittenTo(r), bytes))
         /\ DOMAIN scratch \subseteq DOMAIN With(scratch, WrittenTo(r), bytes)
<1>1. WrittenTo(r).kind = "temporary"
      BY DEF WrittenTo, Temporary
<1>   QED  BY <1>1 DEF Whole, With

LEMMA WithoutTemporary ==
  ASSUME NEW r, Whole(scratch)
  PROVE  /\ Whole(Without(WrittenTo(r)))
         /\ \A n \in DOMAIN scratch : n.kind = "preview" => n \in DOMAIN Without(WrittenTo(r))
<1>1. WrittenTo(r).kind = "temporary"
      BY DEF WrittenTo, Temporary
<1>   QED  BY <1>1 DEF Whole, Without, Restrict

\* The step of one request, when no other's page goes away.
LEMMA ScratchStep ==
  ASSUME SInv, RInv, NEW r \in Requests, NEW q,
         render' = [render EXCEPT ![r] = q],
         Whole(scratch'),
         \A n \in DOMAIN scratch : n.kind = "preview" => n \in DOMAIN scratch',
         q.at # "rendered" \/ PreviewName(r)' \in DOMAIN scratch'
  PROVE  SInv'
<1>1. ASSUME NEW s \in Requests, At(s, "rendered")' PROVE PreviewName(s)' \in DOMAIN scratch'
  <2>1. CASE s = r
        BY <1>1, <2>1 DEF At, RInv, Types
  <2>2. CASE s # r
    <3>1. render'[s] = render[s]
          BY <2>2 DEF RInv, Types
    <3>2. PreviewName(s) \in DOMAIN scratch /\ PreviewName(s).kind = "preview"
          BY <1>1, <3>1 DEF SInv, At, PreviewName
    <3>3. PreviewName(s)' = PreviewName(s)
          BY <3>1 DEF PreviewName, Body
    <3>   QED  BY <3>2, <3>3
  <2>   QED  BY <2>1, <2>2
<1>   QED  BY <1>1 DEF SInv

\* A step that leaves the scratch tree alone.
LEMMA Untouched ==
  ASSUME SInv, RInv, NEW r \in Requests, NEW q, render' = [render EXCEPT ![r] = q],
         q.at # "rendered", UNCHANGED scratch
  PROVE  SInv'
BY ScratchStep DEF SInv

LEMMA AnswerSInv ==
  ASSUME SInv, RInv, NEW r \in Requests, Answer(r), UNCHANGED scratch \/ scratch' = Without(WrittenTo(r))
  PROVE  SInv'
<1>1. Idle.at # "rendered"
      BY DEF Idle
<1>   QED  BY <1>1, ScratchStep, WithoutTemporary DEF Answer, SInv

LEMMA GoesSInv ==
  ASSUME SInv, RInv, NEW r \in Requests, NEW place, Goes(r, place), ~At(r, "idle"),
         Whole(scratch'),
         \A n \in DOMAIN scratch : n.kind = "preview" => n \in DOMAIN scratch',
         place # "rendered" \/ PreviewName(r)' \in DOMAIN scratch'
  PROVE  SInv'
<1>   DEFINE q == [render[r] EXCEPT !.at = place]
<1>1. render' = [render EXCEPT ![r] = q]
      BY DEF Goes, RInv, Types
<1>2. q.at = place
      BY AtWork DEF Request
<1>   HIDE DEF q
<1>   QED  BY <1>1, <1>2, ScratchStep

LEMMA RenderSInv ==
  ASSUME SInv, RInv, NEW r \in Requests,
         \/ Preview(r) \/ \E asked \in Channels \cup {None} : Place(r, asked)
         \/ Lookup(r) \/ Hit(r) \/ Miss(r) \/ Parse(r) \/ Keep(r) \/ Execute(r)
  PROVE  SInv'
<1>1. UNCHANGED scratch
      BY DEF Preview, Place, Lookup, Hit, Miss, Parse, Keep, Execute, Failed
<1>2. CASE Answer(r)
      BY <1>1, <1>2, AnswerSInv
<1>3. \A s \in Requests \ {r} : render'[s] = render[s]
      BY DEF Preview, Place, Lookup, Hit, Miss, Parse, Keep, Execute, Failed, Goes, Answer, RInv, Types
<1>4. ~At(r, "rendered")'
  <2>1. CASE Preview(r)
        BY <2>1 DEF Preview, At, RInv, Types
  <2>2. CASE Answer(r)
        BY <2>2 DEF Answer, At, Idle, RInv, Types
  <2>3. CASE ~Preview(r) /\ ~Answer(r)
    <3>1. render[r] \in Request
          BY <2>3, AtWork DEF At, Place, Lookup, Hit, Miss, Parse, Keep, Execute
    <3>2. render \in [Requests -> Request \cup {Idle}]
          BY DEF RInv, Types
    <3>3. ASSUME NEW asked, Place(r, asked) PROVE ~At(r, "rendered")'
          BY <2>3, <3>1, <3>2, <3>3 DEF Place, Failed, At, Request
    <3>4. CASE Lookup(r)
          BY <2>3, <3>1, <3>2, <3>4 DEF Lookup, Failed, At, Request
    <3>5. CASE Hit(r) \/ Miss(r) \/ Keep(r)
          BY <3>1, <3>2, <3>5 DEF Hit, Miss, Keep, Goes, At, Request
    <3>6. CASE Parse(r)
          BY <2>3, <3>1, <3>2, <3>6 DEF Parse, Failed, At, Request
    <3>7. CASE Execute(r)
          BY <2>3, <3>1, <3>2, <3>7 DEF Execute, Failed, Goes, At, Request
    <3>   QED  BY <2>3, <3>3, <3>4, <3>5, <3>6, <3>7
  <2>   QED  BY <2>1, <2>2, <2>3
<1>5. ASSUME NEW s \in Requests, At(s, "rendered")' PROVE PreviewName(s)' \in DOMAIN scratch'
  <2>1. render'[s] = render[s]
        BY <1>3, <1>4, <1>5
  <2>2. PreviewName(s) \in DOMAIN scratch /\ PreviewName(s)' = PreviewName(s)
        BY <1>5, <2>1 DEF SInv, At, PreviewName, Body
  <2>   QED  BY <1>1, <2>2
<1>   QED  BY <1>1, <1>5 DEF SInv

LEMMA CreateSInv ==
  ASSUME SInv, RInv, NEW r \in Requests, Create(r)
  PROVE  SInv'
<1>1. ~At(r, "idle")
      BY DEF Create, At
<1>2. CASE Failed(r)
      BY <1>2, AnswerSInv DEF Failed
<1>3. CASE scratch' = With(scratch, WrittenTo(r), None) /\ Goes(r, "writing")
      BY <1>1, <1>3, WithTemporary, GoesSInv DEF SInv
<1>   QED  BY <1>2, <1>3 DEF Create

LEMMA WriteSInv ==
  ASSUME SInv, RInv, NEW r \in Requests, Write(r)
  PROVE  SInv'
<1>1. ~At(r, "idle")
      BY DEF Write, At
<1>2. CASE scratch' = Without(WrittenTo(r)) /\ Answer(r)
      BY <1>2, AnswerSInv
<1>3. CASE scratch' = With(scratch, WrittenTo(r), Body(r)) /\ Goes(r, "renaming")
      BY <1>1, <1>3, WithTemporary, GoesSInv DEF SInv
<1>   QED  BY <1>2, <1>3 DEF Write

\* The page appears whole, under the name of what it holds.
LEMMA RenameSInv ==
  ASSUME SInv, RInv, NEW r \in Requests, Rename(r)
  PROVE  SInv'
<1>1. ~At(r, "idle") /\ render[r].at = "renaming"
      BY DEF Rename, At
<1>2. CASE scratch' = Without(WrittenTo(r)) /\ Answer(r)
      BY <1>2, AnswerSInv
<1>3. CASE scratch' = With(Without(WrittenTo(r)), PreviewName(r), Body(r)) /\ Goes(r, "rendered")
  <2>1. render[r].source \in Good /\ <<render[r].source, render[r].text>> \notin Fails
        BY <1>1, AtWork DEF Sound, Looking, Written
  <2>2. /\ PreviewName(r).of = Body(r) /\ PreviewName(r).kind = "preview"
        /\ Body(r).source = render[r].source /\ Body(r).text = render[r].text
        BY DEF PreviewName, Body
  <2>3. Whole(scratch')
        BY <1>3, <2>1, <2>2, WithoutTemporary DEF SInv, Whole, With
  <2>4. \A n \in DOMAIN scratch : n.kind = "preview" => n \in DOMAIN scratch'
        BY <1>3, WithoutTemporary DEF SInv, With
  <2>5. PreviewName(r)' = PreviewName(r)
        BY <1>1, <1>3, AtWork DEF Goes, PreviewName, Body, RInv, Types, Request
  <2>6. PreviewName(r)' \in DOMAIN scratch'
        BY <1>3, <2>5 DEF With
  <2>   QED  BY <1>1, <1>3, <2>3, <2>4, <2>6, GoesSInv
<1>   QED  BY <1>2, <1>3 DEF Rename

LEMMA NextSInv == SInv /\ RInv /\ [Next]_vars => SInv'
<1>   SUFFICES ASSUME SInv, RInv, [Next]_vars PROVE SInv'
      OBVIOUS
<1>1. CASE UNCHANGED <<render, scratch>>
      BY <1>1 DEF SInv, At, PreviewName, Body
<1>2. CASE Stop
      BY <1>2 DEF Stop, SInv, At, Idle
<1>3. ASSUME NEW r \in Requests, Step(r) PROVE SInv'
  <2>1. CASE Answered(r)
        BY <2>1, AnswerSInv DEF Answered
  <2>   QED  BY <1>3, <2>1, RenderSInv, CreateSInv, WriteSInv, RenameSInv DEF Step
<1>4. CASE Revise \/ (\E settings \in Settings : NewServer(settings))
           \/ (\E p \in Paths : \E s \in Sources \cup {None} : Edit(p, s)) \/ UNCHANGED vars
      BY <1>1, <1>4 DEF Revise, NewServer, Edit, vars
<1>   QED  BY <1>2, <1>3, <1>4 DEF Next

(* Whatever is rendered at once, fails or is cut off by a restart: a file     *)
(* that can be opened as a preview is the whole of a page that rendered, and  *)
(* every address given out can be opened (scratch.go's write and rename).     *)
THEOREM PreviewsAreWhole == Spec => []PreviewIsWhole
<1>1. Init => RInv /\ SInv
      BY InitRInv DEF Init, SInv, Whole, At, Idle
<1>2. RInv /\ SInv /\ [Next]_vars => RInv' /\ SInv'
      BY NextRInv, NextSInv
<1>3. SInv => PreviewIsWhole
      BY DEF SInv, Whole, PreviewIsWhole, ValidEntryName, Good
<1>   QED  BY <1>1, <1>2, <1>3, PTL DEF Spec
================================================================================
