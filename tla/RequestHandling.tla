-------------------------- MODULE RequestHandling --------------------------
(***************************************************************************)
(* How a parsed request becomes a response: routes_parse of utils/routing.c*)
(* reads the route table when the server starts, and fetch_response of     *)
(* foxtails/src/worker_loop.c looks a request up in it and calls the       *)
(* handler of the route, or serves a file.  This is the part of            *)
(* worker_callback between http_request_parse and http_send_response.      *)
(*                                                                         *)
(* Paths are sequences of characters, because a proxy route matches by     *)
(* prefix; files, backends and message bodies are reduced to what the      *)
(* control flow tells apart.                                               *)
(***************************************************************************)
EXTENDS Integers, SequencesExt

CONSTANTS Paths,      \* the paths of requests and routes
          Methods,    \* the request methods
          MethodSets, \* the sets of methods that routes are declared for
          MaxLines,   \* the length of routes.conf
          Root,       \* the real path of app.root
          RealPaths   \* what requested paths resolve to, through symbolic links

(* A line of routes.conf: a route, or one that does not parse. *)
RouteTypes == {"alias", "reroute", "proxy"}
Route == [src : Paths, dest : Paths, type : RouteTypes, methods : MethodSets]
Malformed == [src |-> <<>>, dest |-> <<>>, type |-> "unknown", methods |-> {}]

ASSUME RequestAssumption ==
    /\ \A m \in MethodSets : m \subseteq Methods
    /\ Paths \cup RealPaths \cup {Root} \subseteq Seq(STRING)
    /\ \A p \in Paths : p # <<>>
    /\ MaxLines \in Nat
    /\ \A p \in RealPaths \cup {Root} : p # <<>> /\ p[1] = "/"

(* What get_path finds when it opens the file. *)
Files == {"unreadable", "empty", "regular"}

(* The responses: http.h's macros, a file, a backend's own response.  body *)
(* is the number of bytes sent of a body, length body_len, and fields the  *)
(* Content-Length fields that the response has brought along.              *)
Response(code, length) ==
    [code |-> code, body |-> length, length |-> length, fields |-> {}]
NoResponse == Response(0, 0)
ErrorPage(code) == Response(code, 1)

VARIABLES lines,   \* the lines of routes.conf still to be read
          ended,   \* the last line of the file ends with a newline
          file,    \* the lines of the file, kept for the properties
          routes,  \* the route table
          lost,    \* the numbers of the lines append_route had no memory for
          req,     \* the request: method and path
          path,    \* the path in fetch_response's own copy of it
          i,       \* the loop variable of fetch_response
          pc,      \* where the program is
          backend, \* handle_proxy's socket, address and buffer, to be released
          whole,   \* the backend's answer has arrived to its end
          real,    \* the real path of the file that was looked for
          resp     \* the response

vars == <<lines, ended, file, routes, lost, req, path, i, pc, backend, whole, real, resp>>
parsing == <<lines, ended, file, routes, lost, req>>

Init == /\ file \in BoundedSeq(Route \cup {Malformed}, MaxLines)
        /\ lines = file
        /\ ended \in BOOLEAN
        /\ routes = <<>> /\ lost = {}
        /\ req \in [method : Methods, path : Paths]
        /\ path = req.path
        /\ i = 1
        /\ pc = "parse"
        /\ backend = {} /\ whole = TRUE
        /\ real = <<>>
        /\ resp = NoResponse

-----------------------------------------------------------------------------
(* Mutated forms: each is an operation below with one mistake in it, kept  *)
(* to show that the properties can tell the difference.  No specification  *)
(* uses them.                                                              *)

(* A malformed line is stored like any other. *)
IsRouteAlways(line) == TRUE

(* The prefix test for every type of route. *)
MatchesPrefix(route) == /\ req.method \in route.methods
                        /\ IsPrefix(route.src, req.path)

(* close without free. *)
AddressKept(s) == s \ {"socket"}

(* HEAD without resp.body = NULL. *)
HeadWithBody(r) == r

(* The test of the character behind the prefix is left out. *)
UnderRootPrefix(p) == IsPrefix(Root, p)

-----------------------------------------------------------------------------
(* routes_parse.                                                           *)

(* append_route. *)
WithRoute(route) == Append(routes, route)

(* memchr finds no newline behind the last line: it is not read. *)
LineThere == lines # <<>> /\ (Len(lines) > 1 \/ ended)

IsRoute(line) == line # Malformed

TakeLine == /\ pc = "parse"
            /\ LineThere
            /\ lines' = Tail(lines)
            /\ UNCHANGED <<ended, file, req, path, i, pc, backend, whole, real, resp>>

ParseRoute == /\ TakeLine
              /\ IsRoute(Head(lines))
              /\ routes' = WithRoute(Head(lines))
              /\ UNCHANGED lost

(* realloc fails in append_route: the route is reported and left out, and  *)
(* the table stays as it was.                                              *)
LoseRoute == /\ TakeLine
             /\ IsRoute(Head(lines))
             /\ lost' = lost \cup {Len(file) - Len(lines) + 1}
             /\ UNCHANGED routes

(* The line is reported and skipped. *)
SkipMalformed == /\ TakeLine
                 /\ ~IsRoute(Head(lines))
                 /\ UNCHANGED <<routes, lost>>

ParseDone == /\ pc = "parse"
             /\ ~LineThere
             /\ pc' = "match"
             /\ UNCHANGED <<parsing, path, i, backend, whole, real, resp>>

-----------------------------------------------------------------------------
(* fetch_response.                                                         *)

Matches(route) == /\ req.method \in route.methods
                  /\ \/ req.path = route.src
                     \/ route.type = "proxy" /\ IsPrefix(route.src, req.path)

NextRoute == /\ pc = "match"
             /\ i <= Len(routes)
             /\ ~Matches(routes[i])
             /\ i' = i + 1
             /\ UNCHANGED <<parsing, path, pc, backend, whole, real, resp>>

NoRoute == /\ pc = "match"
           /\ i > Len(routes)
           /\ pc' = "serve"
           /\ UNCHANGED <<parsing, path, i, backend, whole, real, resp>>

Matched(type) == /\ pc = "match"
                 /\ i <= Len(routes)
                 /\ Matches(routes[i])
                 /\ routes[i].type = type
                 /\ UNCHANGED <<parsing, i, whole, real>>

(* handle_alias: the path is replaced and served without another lookup. *)
HandleAlias == /\ Matched("alias")
               /\ path' = routes[i].dest
               /\ pc' = "serve"
               /\ UNCHANGED <<backend, resp>>

(* handle_reroute, for every method. *)
HandleReroute == /\ Matched("reroute")
                 /\ resp' = ErrorPage(301)
                 /\ pc' = "done"
                 /\ UNCHANGED <<path, backend>>

(* handle_proxy.  socket_create_auto refuses a target that is no http URL, *)
ProxyRefused == /\ Matched("proxy")
                /\ resp' = ErrorPage(404)
                /\ pc' = "done"
                /\ UNCHANGED <<path, backend>>

(* or makes a socket.  It tests the descriptor for being 0 and not for     *)
(* being negative, so it goes on with -1 when it has none, ... *)
ProxySocket == /\ Matched("proxy")
               /\ backend' \in {{"socket"}, {}}
               /\ pc' = "address"
               /\ UNCHANGED <<path, resp>>

(* ... and gives up, without closing it, if standard input's number is     *)
(* free and the socket gets it.                                            *)
ProxyZero == /\ Matched("proxy")
             /\ backend' = {"zero"}
             /\ resp' = ErrorPage(404)
             /\ pc' = "done"
             /\ UNCHANGED path

(* It allocates an address, *)
ProxyAddress == /\ pc = "address"
                /\ backend' = backend \cup {"address"}
                /\ pc' = "connect"
                /\ UNCHANGED <<parsing, path, i, whole, real, resp>>

(* which connects.  The request is sent and the answer received. *)
ProxyConnect == /\ pc = "connect"
                /\ "socket" \in backend
                /\ backend' = backend \cup {"buffer"}
                /\ pc' = "proxy"
                /\ UNCHANGED <<parsing, path, i, whole, real, resp>>

GivenUp == /\ resp' = ErrorPage(404)
           /\ pc' = "done"
           /\ UNCHANGED <<parsing, path, i, whole, real>>

(* There is no memory for the address. *)
ProxyNoMemory == /\ pc = "address"
                 /\ backend' = backend \ {"socket"}
                 /\ GivenUp

(* Malformed URL, invalid IP address, or connect fails, as it does on -1. *)
Disconnected(s) == s \ {"socket", "address"}

ProxyUnreachable == /\ pc = "connect"
                    /\ backend' = Disconnected(backend)
                    /\ GivenUp

(* free, close and free behind http_recv_message, which has given nothing  *)
(* within the timeout ... *)
Released(s) == Disconnected(s \ {"buffer"})

ProxySilent == /\ pc = "proxy"
               /\ resp' = ErrorPage(502)
               /\ backend' = Released(backend)
               /\ pc' = "done"
               /\ UNCHANGED <<parsing, path, i, whole, real>>

(* The body is taken out of what answers a HEAD request. *)
Bodiless(r) == [r EXCEPT !.body = 0]

ForMethod(r) == IF req.method = "HEAD" THEN Bodiless(r) ELSE r

(* ... or a message.  http_response_parse makes an error of it or accepts  *)
(* it, with all of its fields: the backend's Content-Length is kept beside *)
(* the body that has arrived, which is none in the answer to HEAD and less *)
(* than announced when the backend stops early.  A body without            *)
(* Content-Length is not seen.  200 stands for any code a backend sends.   *)
ProxyAnswers ==
    /\ pc = "proxy"
    /\ \/ /\ \E r \in {ErrorPage(502), ErrorPage(505), Response(200, 0)} : resp' = ForMethod(r)
          /\ UNCHANGED whole
       \/ \E announced \in 0 .. 2, arrived \in 0 .. 2 :
             /\ arrived <= announced
             /\ req.method = "HEAD" => arrived = 0
             /\ resp' = ForMethod([Response(200, arrived) EXCEPT !.fields = {announced}])
             /\ whole' = (req.method = "HEAD" \/ arrived = announced)
    /\ backend' = Released(backend)
    /\ pc' = "done"
    /\ UNCHANGED <<parsing, path, i, real>>

-----------------------------------------------------------------------------
(* serve_path.                                                             *)

(* verify_url: Root is a prefix of the real path and a '/' or the end of   *)
(* the path comes next.                                                    *)
UnderRoot(p) == /\ IsPrefix(Root, p)
                /\ Len(p) > Len(Root) => p[Len(Root) + 1] = "/"

(* get_path, by where the path leads and by what is there. *)
GetPath(p, found) == CASE ~UnderRoot(p) \/ found = "unreadable" -> ErrorPage(404)
                       [] UnderRoot(p) /\ found = "empty"       -> Response(200, 0)
                       [] UnderRoot(p) /\ found = "regular"     -> Response(200, 1)

Serve == /\ pc = "serve"
         /\ UNCHANGED <<parsing, path, i, backend, whole>>
         /\ pc' = "done"

ServeFile == /\ Serve
             /\ req.method \in {"GET", "HEAD"}
             /\ \E found \in Files : /\ real' \in RealPaths
                                     /\ resp' = ForMethod(GetPath(real', found))

(* realpath fails, or app.root is missing from the configuration: 500. *)
ServeNothing == /\ Serve
                /\ req.method \in {"GET", "HEAD"}
                /\ \E code \in {404, 500} : resp' = ForMethod(ErrorPage(code))
                /\ UNCHANGED real

ServeOptions == /\ Serve
                /\ req.method = "OPTIONS"
                /\ resp' = Response(204, 0)
                /\ UNCHANGED real

ServeRefused == /\ Serve
                /\ req.method \notin {"GET", "HEAD", "OPTIONS"}
                /\ resp' = ErrorPage(405)
                /\ UNCHANGED real

Done == pc = "done" /\ UNCHANGED vars

Next == \/ ParseRoute \/ LoseRoute \/ SkipMalformed \/ ParseDone
        \/ NextRoute \/ NoRoute
        \/ HandleAlias \/ HandleReroute
        \/ ProxyRefused \/ ProxySocket \/ ProxyZero \/ ProxyNoMemory \/ ProxyAddress
        \/ ProxyUnreachable \/ ProxyConnect \/ ProxySilent \/ ProxyAnswers
        \/ ServeFile \/ ServeNothing \/ ServeOptions \/ ServeRefused
        \/ Done

Spec == Init /\ [][Next]_vars

-----------------------------------------------------------------------------
(* Properties.                                                             *)

(* The table, the loop variable and the response have the types of         *)
(* routing.h and http.h; the loop does not leave the table.                *)
TypeOK == /\ routes \in Seq(Route)
          /\ lines \in Seq(Route \cup {Malformed}) /\ Len(lines) <= Len(file)
          /\ lost \subseteq DOMAIN file
          /\ path \in Paths
          /\ i \in 1 .. Len(routes) + 1
          /\ pc \in {"parse", "match", "serve", "address", "connect", "proxy", "done"}
          /\ backend \subseteq {"socket", "address", "buffer", "zero"}
          /\ whole \in BOOLEAN
          /\ real \in RealPaths \cup {<<>>}
          /\ resp \in [code : {0, 200, 204, 301, 404, 405, 500, 502, 505},
                       body : 0 .. 2, length : 0 .. 2, fields : SUBSET (0 .. 2)]

(* The lines of routes.conf that declare a route which concerns the        *)
(* request, read off the file and not off the table; the lines that were   *)
(* reported as not stored are not among them.                              *)
Declared == IF ended \/ file = <<>> THEN DOMAIN file
                                   ELSE DOMAIN file \ {Len(file)}

Concerning == {n \in Declared \ lost :
                 /\ file[n] # Malformed
                 /\ req.method \in file[n].methods
                 /\ IF file[n].type = "proxy"
                    THEN \E rest \in 0 .. Len(req.path) :
                            SubSeq(req.path, 1, rest) = file[n].src
                    ELSE req.path = file[n].src}

Decider == file[Min(Concerning)]

(* The first line of routes.conf that concerns a request decides what      *)
(* happens to it: malformed lines before it, and lines that append_route   *)
(* could not store (routing.c:133), do not shift the choice, an alias is   *)
(* served under its target and is not looked up again, and a request that  *)
(* no line concerns is served as a file.                                   *)
FirstLineDecides ==
    pc \in {"serve", "address", "done"} =>
       IF Concerning = {}
       THEN path = req.path /\ (pc = "done" => resp.code # 301) /\ pc # "address"
       ELSE /\ path = (IF Decider.type = "alias" THEN Decider.dest ELSE req.path)
            /\ pc = "serve" => Decider.type = "alias"
            /\ pc = "address" => Decider.type = "proxy"
            /\ pc = "done" => (resp.code = 301 <=> Decider.type = "reroute")

(* What a client of a kept connection needs to find the next response: the *)
(* Content-Length fields, the one http_send_response writes and one that   *)
(* came from a backend, agree, and what they say follows, or nothing after *)
(* a HEAD request.                                                         *)
Framed == /\ {resp.length} \cup resp.fields = {resp.length}
          /\ resp.body = IF req.method = "HEAD" THEN 0 ELSE resp.length

(* Files, error pages of files and aliases are always framed.  A response  *)
(* is misframed only if a line of routes.conf sends the request elsewhere, *)
(* and in these cases: HEAD is redirected (worker_loop.c:171), handle_     *)
(* proxy makes an error page for HEAD (worker_loop.c:177 and 187), or the  *)
(* backend's Content-Length is passed on beside another one, of no bytes   *)
(* for HEAD and of those that have arrived for a body that was cut         *)
(* (worker_loop.c:190-194).                                                *)
ResponseFramed ==
    pc = "done" /\ ~Framed =>
       /\ Concerning # {}
       /\ IF req.method = "HEAD"
          THEN \/ Decider.type = "reroute"
               \/ Decider.type = "proxy" /\ resp.code \in {404, 502}
               \/ Decider.type = "proxy" /\ resp.body = 0 /\ resp.fields # {}
          ELSE Decider.type = "proxy" /\ ~whole

(* handle_proxy and socket_create_auto close the socket and free the       *)
(* address and the buffer on all their ways out (sockets.c:146-176,        *)
(* worker_loop.c:184-193) but one, the socket whose descriptor is 0, which *)
(* is taken for none and never closed (sockets.c:139-142).                 *)
BackendReleased == pc = "done" => backend \subseteq {"zero"}

(* The directories that a path leads through, the path itself included. *)
Ancestors(p) == {SubSeq(p, 1, n) : n \in {k \in 1 .. Len(p) :
                                            k = Len(p) \/ p[k + 1] = "/"}} \cup {<<"/">>}

(* A file is served only from below app.root, in the sense of directories: *)
(* not one next to it whose name begins like it (worker_loop.c:52-61).     *)
ServedBelowRoot ==
    pc = "done" /\ real # <<>> /\ resp.code = 200 => Root \in Ancestors(real)
=============================================================================
