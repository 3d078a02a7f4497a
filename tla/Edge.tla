---------------------------------- MODULE Edge ----------------------------------
(***************************************************************************)
(* What every request goes through before its handler and after it: who it *)
(* is attributed to, whether another site's page made the browser send it, *)
(* under which credential it runs, and which status its failure becomes    *)
(* (internal/server, internal/api, internal/web, internal/edge).           *)
(***************************************************************************)
EXTENDS Naturals, SequencesExt

CONSTANTS
  Trusted,     \* the addresses of the proxies the server believes
  Loopback,    \* the addresses of the machine itself
  Unreadable   \* what stands in a header and is no address

Api   == INSTANCE Api
Pages == INSTANCE Pages

\* The nearest address to the server that is no trusted proxy's, if it is one:
\* every proxy adds the address it saw at the end.
Strangers(hops) == {n \in DOMAIN hops : hops[n] \notin Trusted}

Farthest(strangers) == Min(strangers)   \* slip: the first is the client
Nearest(strangers) == Max(strangers)

resolveClientAddr(peer, hops) ==
  LET strangers == Strangers(hops)
      nearest   == hops[Nearest(strangers)]
  IN  IF peer \notin Trusted \/ strangers = {} \/ nearest = Unreadable THEN peer ELSE nearest

\* The highest source that says anything decides, and only the exact word does.
Environment(inputs) ==
  LET sources == <<inputs.flag, inputs.env, inputs.file>>
      said    == {n \in DOMAIN sources : sources[n] # ""}
  IN  IF said # {} /\ sources[Min(said)] = "development" THEN "development" ELSE "production"

--------------------------------------------------------------------------------
(* Credentials, and requests other sites' pages make                          *)

Sessions == {"", "dead", "live"}

AnyAuthorization(request) == request.scheme # ""   \* slip: whatever the scheme

\* A token is what is after the word "Bearer", and is not blank.
BearerToken(request) == request.scheme = "bearer" /\ request.token # ""

\* The API takes a token before a cookie, the pages take the cookie.
credential(request) == IF BearerToken(request) THEN request.token ELSE request.cookie
identity(request)   == request.cookie

Safe(method) == method \in {"GET", "HEAD", "OPTIONS"}

\* The standard library's protection, with the public origin registered.
CrossOrigin(request) ==
  /\ request.fetchSite \notin {"same-origin", "none"}
  /\ request.origin # "public"
  /\ IF request.fetchSite = "" THEN request.origin \notin {"", request.host} ELSE TRUE

\* What a browser says of the page that made it send a request, a new one of the
\* page's site and any of its origin, and what it attaches on its own.  A
\* program says what it likes.
Headers(sender, new) ==
  CASE sender = "program" -> [fetchSite |-> "", origin |-> ""]
    [] sender = "ours"    -> [fetchSite |-> IF new THEN "same-origin" ELSE "", origin |-> "public"]
    [] sender = "theirs"  -> [fetchSite |-> IF new THEN "cross-site" ELSE "", origin |-> "other"]

withCSRF(method, request) == Safe(method) \/ BearerToken(request) \/ ~CrossOrigin(request)

--------------------------------------------------------------------------------
(* Failures                                                                   *)

\* An error wraps any of the sentinels; one that wraps none is internal.
Table == <<<<"unauthenticated", 401>>, <<"forbidden", 403>>, <<"not found", 404>>,
           <<"guard failed", 409>>, <<"conflict", 409>>, <<"invalid", 422>>, <<"unavailable", 503>>>>

StatusFor(err) ==
  LET rows == {n \in DOMAIN Table : Table[n][1] \in err}
  IN  IF rows = {} THEN 500 ELSE Table[Min(rows)][2]

\* An answer is one of a set of statuses, and tells what failed or does not.
Answer(status, told) == [status |-> {status}, told |-> told]

writeError(err, development) ==
  Answer(StatusFor(err), StatusFor(err) < 500 \/ "unavailable" \in err \/ development)

\* Slip: a form that fails goes back to where it was, with a notice.
failAsNotice(err, development) == Answer(303, TRUE)

\* The pages answer what the API answers.
fail(err, development) ==
  Answer(StatusFor(err), StatusFor(err) < 500 \/ "unavailable" \in err \/ development)

--------------------------------------------------------------------------------
(* A request, from the socket to the answer                                   *)

shutItDown == Api!Handler("GET", <<"Shutdown">>, {200})
logMeIn    == Api!Handler("GET", <<"input", "DevLogin">>, {200, 302})

devroutes == {Api!Open(shutItDown), Api!Open([shutItDown EXCEPT !.method = "POST"]), Api!Open(logMeIn)}

buildRoutes(development) ==
  {[face |-> "api", handler |-> h] : h \in Api!Register \cup Api!RegisterPreview}
    \cup {[face |-> "pages", handler |-> h] : h \in Pages!Register}
    \cup {[face |-> "development", handler |-> h] : h \in IF development THEN devroutes ELSE {}}

\* "failure" says which step fails, if one does, and what its error wraps.
Fails(step, request, failure) == IF step = "input" THEN request.malformed ELSE step = failure.of
ErrorOf(step, failure) == IF step = "input" THEN {"invalid"} ELSE failure.error

\* The steps until one fails that is not a panel, and what those that went well changed.
Stops(handler, request, failure) ==
  {n \in DOMAIN handler.steps : Fails(handler.steps[n], request, failure) /\ handler.steps[n] \notin handler.panels}
Made(handler, request, failure) ==
  {handler.steps[n] : n \in {n \in DOMAIN handler.steps :
     /\ \A m \in Stops(handler, request, failure) : n < m
     /\ ~Fails(handler.steps[n], request, failure)}}

\* Why a session is refused: there is none that is live, or it cannot be looked up.
Refused(token, failure) ==
  IF token # "live" THEN {"unauthenticated"} ELSE failure.error

authenticated(route, request, failure, development) ==
  writeError(Refused(credential(request), failure), development)

page(route, request, failure, development) ==
  IF route.handler.method = "GET" THEN Answer(303, FALSE)
  ELSE fail(Refused(identity(request), failure), development)

\* A development route's own statuses.
developmentError(step, failure) ==
  IF step = "input" THEN Answer(400, TRUE)
  ELSE IF "not found" \in failure.error THEN Answer(404, TRUE) ELSE Answer(500, FALSE)

Token(route, request) == IF route.face = "api" THEN credential(request) ELSE identity(request)

MayRun(route, request, failure) ==
  route.handler.open \/ (Token(route, request) = "live" /\ failure.of # "Authenticate")

reply(route, request, failure, development) ==
  LET h     == route.handler
      stops == Stops(h, request, failure)
      step  == h.steps[Min(stops)]
      error == ErrorOf(step, failure)
  IN  IF stops = {} THEN [status |-> h.ok, told |-> FALSE]
      ELSE IF route.face = "development" THEN developmentError(step, failure)
      ELSE IF h.refusal # 0 /\ step # "input" THEN Answer(h.refusal, FALSE)
      ELSE IF route.face = "api" THEN writeError(error, development) ELSE fail(error, development)

Serve(route, request, failure, development) ==
  LET h == route.handler IN
  IF ~withCSRF(h.method, request)
    THEN [made |-> {}, answer |-> Answer(403, FALSE)]
  ELSE IF route.face = "development" /\ request.peer \notin Loopback
    THEN [made |-> {}, answer |-> Answer(404, FALSE)]
  ELSE IF ~MayRun(route, request, failure)
    THEN [made |-> {}, answer |-> IF route.face = "api" THEN authenticated(route, request, failure, development)
                                  ELSE page(route, request, failure, development)]
  ELSE [made |-> Made(h, request, failure), answer |-> reply(route, request, failure, development)]
================================================================================
