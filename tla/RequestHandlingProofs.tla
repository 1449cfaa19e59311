----------------------- MODULE RequestHandlingProofs -----------------------
(***************************************************************************)
(* Proofs about RequestHandling, for all route tables, paths, sets of      *)
(* methods, roots and file systems.                                        *)
(*                                                                         *)
(* The table has no line numbers, and the first line that concerns a       *)
(* request is a matter of line numbers: the proof carries along a witness  *)
(* that says from which line each route was read (ReadFrom).               *)
(***************************************************************************)
EXTENDS RequestHandling, NatSets, SequenceTheorems, TLAPS

Line == Route \cup {Malformed}

(* The inputs, which do not change. *)
Inputs == /\ file \in Seq(Line)
          /\ ended \in BOOLEAN
          /\ req \in [method : Methods, path : Paths]

(* How many lines have been read; the rest is still to be read, and a last *)
(* line without newline is never read.                                     *)
Read == Len(file) - Len(lines)

Unread == /\ Len(lines) <= Len(file)
          /\ \A n \in 1 .. Len(lines) : lines[n] = file[Read + n]
          /\ ended \/ file = <<>> \/ lines # <<>>
          /\ pc # "parse" => ~LineThere

(* Route k was read from line at[k]: in the order of the file, and no line *)
(* that parses is left out but those that were lost.                       *)
ReadFrom(at) ==
    /\ at \in [1 .. Len(routes) -> 1 .. Read]
    /\ \A k, m \in 1 .. Len(routes) : k < m => at[k] < at[m]
    /\ \A k \in 1 .. Len(routes) : routes[k] = file[at[k]] /\ at[k] \notin lost
    /\ \A n \in (1 .. Read) \ lost :
          file[n] # Malformed => \E k \in 1 .. Len(routes) : at[k] = n

Table == /\ \A n \in lost : n \in 1 .. Read
         /\ \E at : ReadFrom(at)

(* Where the loop over the table stands, and what follows from it. *)
Passed == /\ \A k \in 1 .. i - 1 : ~Matches(routes[k])
          /\ pc = "parse" => i = 1
          /\ pc \in {"parse", "match"} => path = req.path

Hit == i <= Len(routes) /\ Matches(routes[i])

Chosen ==
    /\ pc \in {"address", "connect", "proxy"} =>
          Hit /\ routes[i].type = "proxy" /\ path = req.path
    /\ pc \in {"serve", "done"} =>
          \/ i > Len(routes) /\ path = req.path
          \/ Hit /\ path = IF routes[i].type = "alias" THEN routes[i].dest ELSE req.path
    /\ pc = "serve" => i > Len(routes) \/ routes[i].type = "alias"
    /\ pc = "done" => (resp.code = 301 <=> i <= Len(routes) /\ routes[i].type = "reroute")

(* What handle_proxy holds, by how far it has come. *)
Held == /\ pc = "address" => backend \in {{"socket"}, {}}
        /\ pc = "connect" => backend \in {{"socket", "address"}, {"address"}}
        /\ pc = "proxy" => backend = {"socket", "address", "buffer"}
        /\ pc = "done" => backend \in {{}, {"zero"}}
        /\ pc \in {"parse", "match", "serve"} => backend = {}

(* No file has been looked for before the response is there. *)
NotYetServed == pc # "done" => real = <<>>

(* ResponseFramed, in terms of the table. *)
FramedByRoute ==
    pc = "done" /\ ~Framed =>
       /\ i <= Len(routes)
       /\ IF req.method = "HEAD"
          THEN \/ routes[i].type = "reroute"
               \/ routes[i].type = "proxy" /\ resp.code \in {404, 502}
               \/ routes[i].type = "proxy" /\ resp.body = 0 /\ resp.fields # {}
          ELSE routes[i].type = "proxy" /\ ~whole

RequestInv == /\ TypeOK /\ Inputs
              /\ Unread /\ Table /\ Passed /\ Chosen
              /\ Held /\ NotYetServed /\ ServedBelowRoot /\ FramedByRoute

-----------------------------------------------------------------------------
LEMMA RouteFields ==
  ASSUME NEW r \in Route
  PROVE  /\ r.src \in Paths /\ r.dest \in Paths
         /\ r.type \in RouteTypes /\ r.methods \in MethodSets
         /\ r # Malformed
  BY DEF Route, Malformed, RouteTypes

LEMMA ForMethodType ==
  ASSUME NEW c \in {0, 200, 204, 301, 404, 405, 500, 502, 505},
         NEW n \in 0 .. 2, NEW f \in SUBSET (0 .. 2)
  PROVE  LET r == [code |-> c, body |-> n, length |-> n, fields |-> f]
         IN  /\ ForMethod(r).code = c
             /\ ForMethod(r).length = n
             /\ ForMethod(r).fields = f
             /\ ForMethod(r).body = IF req.method = "HEAD" THEN 0 ELSE n
             /\ ForMethod(r) \in [code : {0, 200, 204, 301, 404, 405, 500, 502, 505},
                                  body : 0 .. 2, length : 0 .. 2, fields : SUBSET (0 .. 2)]
  BY DEF ForMethod, Bodiless

LEMMA InitInv == Init => RequestInv
<1> SUFFICES ASSUME Init PROVE RequestInv
  OBVIOUS
<1> USE RequestAssumption
<1>1. file \in Seq(Line)
  BY SeqDef DEF Init, BoundedSeq, SeqOf, Line
<1>2. Inputs
  BY <1>1 DEF Init, Inputs
<1>3. TypeOK
  BY <1>1, <1>2, EmptySeq DEF Init, TypeOK, Inputs, NoResponse, Response, Line
<1>4. Unread
  BY <1>1 DEF Init, Unread, Read
<1>5. Table
  <2>1. Len(routes) = 0 /\ Read = 0 /\ lost = {}
    BY <1>1 DEF Init, Read
  <2>2. ReadFrom([k \in 1 .. 0 |-> 1])
    BY <2>1 DEF ReadFrom
  <2> QED BY <2>1, <2>2 DEF Table
<1>6. Passed /\ Chosen /\ Held /\ NotYetServed /\ ServedBelowRoot /\ FramedByRoute
  BY DEF Init, Passed, Chosen, Held, NotYetServed, ServedBelowRoot, FramedByRoute
<1> QED BY <1>2, <1>3, <1>4, <1>5, <1>6 DEF RequestInv

-----------------------------------------------------------------------------
(* Types.                                                                  *)

LEMMA TypeStep ==
  ASSUME TypeOK, Inputs, [Next]_vars
  PROVE  TypeOK' /\ Inputs'
<1>1. Inputs'
  BY DEF Inputs, Next, vars, parsing, TakeLine, ParseRoute, LoseRoute, SkipMalformed, ParseDone, NextRoute, NoRoute,
         Matched, HandleAlias, HandleReroute, ProxyRefused, ProxyZero, ProxySocket, ProxyNoMemory,
         ProxyAddress, ProxyUnreachable, ProxyConnect, ProxySilent, ProxyAnswers, GivenUp,
         Serve, ServeFile, ServeNothing, ServeOptions, ServeRefused, Done
<1> SUFFICES TypeOK'
  BY <1>1
<1>2. CASE UNCHANGED vars
  BY <1>2 DEF TypeOK, vars
<1>3. CASE ParseRoute
  <2>1. lines # <<>> /\ Head(lines) \in Route /\ Tail(lines) \in Seq(Route \cup {Malformed})
    BY <1>3, HeadTailProperties DEF TypeOK, ParseRoute, TakeLine, LineThere, IsRoute
  <2>2. routes' \in Seq(Route) /\ Len(routes') = Len(routes) + 1
    BY <1>3, <2>1, AppendProperties DEF TypeOK, ParseRoute, WithRoute
  <2>3. Len(Tail(lines)) <= Len(file)
    BY <2>1, HeadTailProperties, LenProperties DEF TypeOK, Inputs
  <2> QED BY <1>3, <2>1, <2>2, <2>3 DEF TypeOK, ParseRoute, TakeLine
<1>4. CASE LoseRoute \/ SkipMalformed
  <2>1. /\ lines # <<>> /\ Tail(lines) \in Seq(Route \cup {Malformed})
        /\ UNCHANGED <<file, routes, path, i, pc, backend, whole, real, resp>>
        /\ lines' = Tail(lines)
        /\ lost' \in {lost, lost \cup {Len(file) - Len(lines) + 1}}
    BY <1>4, HeadTailProperties DEF TypeOK, LoseRoute, SkipMalformed, TakeLine, LineThere
  <2>2. /\ Len(lines) \in Nat \ {0} /\ Len(file) \in Nat /\ DOMAIN file = 1 .. Len(file)
        /\ Len(Tail(lines)) = Len(lines) - 1
    BY <2>1, HeadTailProperties, LenProperties, EmptySeq DEF TypeOK, Inputs
  <2>3. Len(file) - Len(lines) + 1 \in DOMAIN file /\ Len(Tail(lines)) <= Len(file)
    BY <2>2 DEF TypeOK
  <2> QED BY <2>1, <2>3 DEF TypeOK
<1>5. CASE ParseDone \/ NextRoute \/ NoRoute
  <2>1. Len(routes) \in Nat /\ i \in Nat
    BY LenProperties DEF TypeOK
  <2>2. i' \in 1 .. Len(routes) + 1 /\ UNCHANGED <<parsing, path, backend, whole, real, resp>>
    BY <1>5, <2>1 DEF TypeOK, ParseDone, NextRoute, NoRoute
  <2>3. pc' \in {"match", "serve"}
    BY <1>5 DEF ParseDone, NextRoute, NoRoute
  <2> QED BY <2>2, <2>3 DEF TypeOK, parsing
<1>6. CASE HandleAlias
  <2>1. routes[i].dest \in Paths
    BY <1>6, RouteFields, ElementOfSeq DEF TypeOK, HandleAlias, Matched
  <2>2. /\ UNCHANGED <<parsing, i, whole, real, backend, resp>>
        /\ path' = routes[i].dest /\ pc' = "serve"
    BY <1>6 DEF HandleAlias, Matched
  <2> QED BY <2>1, <2>2 DEF TypeOK, parsing
<1>7. CASE HandleReroute \/ ProxyRefused \/ ProxyZero \/ ProxyNoMemory \/ ProxyUnreachable \/ ProxySilent
  <2>1. /\ UNCHANGED <<parsing, path, i, whole, real>>
        /\ pc' = "done"
        /\ backend' \subseteq backend \cup {"zero"}
        /\ resp' \in {Response(301, 1), Response(404, 1), Response(502, 1)}
    BY <1>7 DEF HandleReroute, ProxyRefused, ProxyZero, ProxyNoMemory, ProxyUnreachable, ProxySilent,
                GivenUp, Matched, ErrorPage, Disconnected, Released
  <2>2. resp' \in [code : {0, 200, 204, 301, 404, 405, 500, 502, 505},
                   body : 0 .. 2, length : 0 .. 2, fields : SUBSET (0 .. 2)]
    BY <2>1 DEF Response
  <2> QED BY <2>1, <2>2 DEF TypeOK, parsing
<1>8. CASE ProxySocket \/ ProxyAddress \/ ProxyConnect
  <2>1. /\ UNCHANGED <<parsing, path, i, whole, real, resp>>
        /\ pc' \in {"address", "connect", "proxy"}
        /\ backend' \subseteq backend \cup {"socket", "address", "buffer"}
    BY <1>8 DEF ProxySocket, ProxyAddress, ProxyConnect, Matched
  <2> QED BY <2>1 DEF TypeOK, parsing
<1>9. CASE ProxyAnswers
  <2>1. /\ UNCHANGED <<parsing, path, i, real>>
        /\ pc' = "done"
        /\ backend' = Released(backend)
    BY <1>9 DEF ProxyAnswers
  <2>2. whole' \in BOOLEAN
    <3>1. \/ whole' = whole
          \/ \E announced \in 0 .. 2, arrived \in 0 .. 2 :
                whole' = (req.method = "HEAD" \/ arrived = announced)
      BY <1>9, Zenon DEF ProxyAnswers
    <3>2. whole \in BOOLEAN
      BY DEF TypeOK
    <3> QED BY <3>1, <3>2
  <2>3. resp' \in [code : {0, 200, 204, 301, 404, 405, 500, 502, 505},
                   body : 0 .. 2, length : 0 .. 2, fields : SUBSET (0 .. 2)]
    <3>1. CASE \E r \in {ErrorPage(502), ErrorPage(505), Response(200, 0)} : resp' = ForMethod(r)
      BY <3>1, ForMethodType DEF ErrorPage, Response
    <3>2. CASE \E announced \in 0 .. 2, arrived \in 0 .. 2 :
                 resp' = ForMethod([Response(200, arrived) EXCEPT !.fields = {announced}])
      <4>1. PICK announced \in 0 .. 2, arrived \in 0 .. 2 :
                 resp' = ForMethod([Response(200, arrived) EXCEPT !.fields = {announced}])
        BY <3>2
      <4>2. [Response(200, arrived) EXCEPT !.fields = {announced}]
              = [code |-> 200, body |-> arrived, length |-> arrived, fields |-> {announced}]
        BY DEF Response
      <4> QED BY <4>1, <4>2, ForMethodType
    <3> QED BY <1>9, <3>1, <3>2 DEF ProxyAnswers
  <2> QED BY <2>1, <2>2, <2>3 DEF TypeOK, parsing, Released, Disconnected
<1>10. CASE ServeFile
  <2>1. /\ UNCHANGED <<parsing, path, i, backend, whole>>
        /\ pc' = "done"
        /\ real' \in RealPaths
    BY <1>10 DEF ServeFile, Serve
  <2>2. PICK found \in Files : resp' = ForMethod(GetPath(real', found))
    BY <1>10 DEF ServeFile
  <2>3. GetPath(real', found) \in {Response(404, 1), Response(200, 0), Response(200, 1)}
    BY DEF GetPath, Files, ErrorPage
  <2>4. resp' \in [code : {0, 200, 204, 301, 404, 405, 500, 502, 505},
                   body : 0 .. 2, length : 0 .. 2, fields : SUBSET (0 .. 2)]
    BY <2>2, <2>3, ForMethodType DEF Response
  <2> QED BY <2>1, <2>4 DEF TypeOK, parsing
<1>11. CASE ServeNothing
  <2>1. resp' \in [code : {0, 200, 204, 301, 404, 405, 500, 502, 505},
                   body : 0 .. 2, length : 0 .. 2, fields : SUBSET (0 .. 2)]
    BY <1>11, ForMethodType DEF ServeNothing, Response, ErrorPage
  <2>2. UNCHANGED <<parsing, path, i, backend, whole, real>> /\ pc' = "done"
    BY <1>11 DEF ServeNothing, Serve
  <2> QED BY <2>1, <2>2 DEF TypeOK, parsing
<1>12. CASE ServeOptions \/ ServeRefused
  <2>1. /\ UNCHANGED <<parsing, path, i, backend, whole, real>>
        /\ pc' = "done"
        /\ resp' \in {Response(204, 0), Response(405, 1)}
    BY <1>12 DEF ServeOptions, ServeRefused, Serve, ErrorPage
  <2>2. resp' \in [code : {0, 200, 204, 301, 404, 405, 500, 502, 505},
                   body : 0 .. 2, length : 0 .. 2, fields : SUBSET (0 .. 2)]
    BY <2>1 DEF Response
  <2> QED BY <2>1, <2>2 DEF TypeOK, parsing
<1>13. CASE Done
  BY <1>13 DEF TypeOK, Done, vars
<1> QED BY <1>1, <1>2, <1>3, <1>4, <1>5, <1>6, <1>7, <1>8, <1>9, <1>10, <1>11, <1>12, <1>13
        DEF Next

(* The table, the loop over it and the response always have the types of   *)
(* routing.h and http.h, and the loop of fetch_response does not leave the *)
(* table, for every routes.conf.                                           *)
THEOREM RequestTypes == Spec => []TypeOK
<1>1. Init => TypeOK /\ Inputs
  BY InitInv DEF RequestInv
<1>2. TypeOK /\ Inputs /\ [Next]_vars => TypeOK' /\ Inputs'
  BY TypeStep
<1> QED BY <1>1, <1>2, PTL DEF Spec

-----------------------------------------------------------------------------
(* handle_proxy's resources.                                               *)

LEMMA HeldStep ==
  ASSUME Held, [Next]_vars
  PROVE  Held'
<1>1. CASE ParseRoute \/ LoseRoute \/ SkipMalformed \/ ParseDone \/ NextRoute \/ NoRoute \/ HandleAlias
           \/ HandleReroute \/ ProxyRefused \/ ProxyZero \/ Done \/ UNCHANGED vars
  BY <1>1 DEF Held, TakeLine, ParseRoute, LoseRoute, SkipMalformed, ParseDone, NextRoute, NoRoute, HandleAlias,
              HandleReroute, ProxyRefused, ProxyZero, Matched, Done, vars
<1>2. CASE ProxySocket \/ ProxyAddress \/ ProxyConnect
  BY <1>2 DEF Held, ProxySocket, ProxyAddress, ProxyConnect, Matched
<1>3. CASE ProxyNoMemory \/ ProxyUnreachable \/ ProxySilent \/ ProxyAnswers
  BY <1>3 DEF Held, ProxyNoMemory, ProxyUnreachable, ProxySilent, ProxyAnswers, GivenUp,
              Released, Disconnected
<1>4. CASE ServeFile \/ ServeNothing \/ ServeOptions \/ ServeRefused
  BY <1>4 DEF Held, ServeFile, ServeNothing, ServeOptions, ServeRefused, Serve
<1> QED BY <1>1, <1>2, <1>3, <1>4 DEF Next

(* Every way out of handle_proxy and socket_create_auto, the failures in   *)
(* the middle of them included, releases what was acquired on the way,     *)
(* except a socket whose descriptor is 0 (sockets.c:139).                  *)
THEOREM BackendsReleased == Spec => []BackendReleased
<1>1. Init => Held
  BY InitInv DEF RequestInv
<1>2. Held /\ [Next]_vars => Held'
  BY HeldStep
<1>3. Held => BackendReleased
  BY DEF Held, BackendReleased
<1> QED BY <1>1, <1>2, <1>3, PTL DEF Spec

-----------------------------------------------------------------------------
(* What is sent back.                                                      *)

(* A path that verify_url accepts leads through the root directory. *)
LEMMA UnderRootMeansBelow ==
  ASSUME NEW p \in RealPaths, UnderRoot(p)
  PROVE  Root \in Ancestors(p)
<1>1. p \in Seq(STRING) /\ Root \in Seq(STRING) /\ Root # <<>>
  BY RequestAssumption
<1>2. Len(Root) \in Nat \ {0} /\ Len(p) \in Nat
  BY <1>1, EmptySeq, LenProperties
<1>3. Len(Root) <= Len(p) /\ SubSeq(Root, 1, Len(Root)) = SubSeq(p, 1, Len(Root))
  BY DEF UnderRoot, IsPrefix
<1>4. Root = SubSeq(p, 1, Len(Root))
  BY <1>1, <1>3, SubSeqFull
<1>5. Len(Root) = Len(p) \/ p[Len(Root) + 1] = "/"
  BY <1>2, <1>3 DEF UnderRoot
<1>6. Len(Root) \in {k \in 1 .. Len(p) : k = Len(p) \/ p[k + 1] = "/"}
  BY <1>2, <1>3, <1>5
<1> QED BY <1>4, <1>6 DEF Ancestors

LEMMA GetPathAnswers ==
  ASSUME NEW p, NEW found \in Files
  PROVE  \/ GetPath(p, found) = Response(404, 1)
         \/ UnderRoot(p) /\ GetPath(p, found) \in {Response(200, 0), Response(200, 1)}
  BY DEF GetPath, Files, ErrorPage

LEMMA ServedStep ==
  ASSUME TypeOK, NotYetServed, ServedBelowRoot, [Next]_vars
  PROVE  NotYetServed' /\ ServedBelowRoot'
<1>1. CASE UNCHANGED vars \/ Done
  BY <1>1 DEF NotYetServed, ServedBelowRoot, vars, Done
<1>2. CASE ServeFile
  <2>1. pc' = "done" /\ real' \in RealPaths
    BY <1>2 DEF ServeFile, Serve
  <2>2. PICK found \in Files : resp' = ForMethod(GetPath(real', found))
    BY <1>2 DEF ServeFile
  <2>3. resp'.code = 200 => UnderRoot(real')
    BY <2>2, GetPathAnswers, ForMethodType DEF Response
  <2>4. resp'.code = 200 => Root \in Ancestors(real')
    BY <2>1, <2>3, UnderRootMeansBelow
  <2> QED BY <2>1, <2>4 DEF NotYetServed, ServedBelowRoot
<1>3. CASE Next /\ ~ServeFile /\ ~Done
  <2>1. pc # "done" /\ real' = real
    BY <1>3 DEF Next, parsing, TakeLine, ParseRoute, LoseRoute, SkipMalformed, ParseDone, NextRoute, NoRoute,
         Matched, HandleAlias, HandleReroute, ProxyRefused, ProxyZero, ProxySocket, ProxyNoMemory,
         ProxyAddress, ProxyUnreachable, ProxyConnect, ProxySilent, ProxyAnswers, GivenUp,
         Serve, ServeNothing, ServeOptions, ServeRefused
  <2> QED BY <2>1 DEF NotYetServed, ServedBelowRoot
<1> QED BY <1>1, <1>2, <1>3 DEF Next

(* Whatever requested paths resolve to, a file is answered with only from  *)
(* below app.root: verify_url's test of the next character makes a prefix  *)
(* of characters one of directories.                                       *)
THEOREM FilesBelowRoot == Spec => []ServedBelowRoot
<1>1. Init => TypeOK /\ Inputs /\ NotYetServed /\ ServedBelowRoot
  BY InitInv DEF RequestInv
<1>2. TypeOK /\ Inputs /\ NotYetServed /\ ServedBelowRoot /\ [Next]_vars
        => (TypeOK /\ Inputs /\ NotYetServed /\ ServedBelowRoot)'
  BY TypeStep, ServedStep
<1> QED BY <1>1, <1>2, PTL DEF Spec

LEMMA FramedStep ==
  ASSUME Chosen, FramedByRoute, [Next]_vars
  PROVE  FramedByRoute'
<1>1. CASE UNCHANGED vars \/ Done
  BY <1>1 DEF FramedByRoute, Framed, vars, Done
<1>2. CASE ParseRoute \/ LoseRoute \/ SkipMalformed \/ ParseDone \/ NextRoute \/ NoRoute
           \/ HandleAlias \/ ProxySocket \/ ProxyAddress \/ ProxyConnect
  <2>1. pc' # "done"
    BY <1>2 DEF TakeLine, ParseRoute, LoseRoute, SkipMalformed, ParseDone, NextRoute, NoRoute,
                HandleAlias, ProxySocket, ProxyAddress, ProxyConnect
  <2> QED BY <2>1 DEF FramedByRoute
<1>3. CASE ServeOptions \/ ServeRefused
  <2>1. /\ resp' \in {Response(204, 0), Response(405, 1)}
        /\ req' = req /\ req.method # "HEAD"
    BY <1>3 DEF ServeOptions, ServeRefused, Serve, parsing, ErrorPage
  <2> QED BY <2>1 DEF FramedByRoute, Framed, Response
<1>4. CASE HandleReroute
  <2>1. /\ i <= Len(routes) /\ routes[i].type = "reroute"
        /\ UNCHANGED <<routes, req, i>> /\ resp' = Response(301, 1)
    BY <1>4 DEF HandleReroute, Matched, parsing, ErrorPage
  <2> QED BY <2>1 DEF FramedByRoute, Framed, Response
<1>5. CASE ProxyRefused \/ ProxyZero \/ ProxyNoMemory \/ ProxyUnreachable \/ ProxySilent
  <2>1. /\ UNCHANGED <<routes, req, i>> /\ resp' \in {Response(404, 1), Response(502, 1)}
    BY <1>5 DEF ProxyRefused, ProxyZero, ProxyNoMemory, ProxyUnreachable, ProxySilent, GivenUp,
                Matched, parsing, ErrorPage
  <2>2. i <= Len(routes) /\ routes[i].type = "proxy"
    BY <1>5 DEF ProxyRefused, ProxyZero, ProxyNoMemory, ProxyUnreachable, ProxySilent, Matched,
                Chosen, Hit
  <2> QED BY <2>1, <2>2 DEF FramedByRoute, Framed, Response
<1>6. CASE ServeFile \/ ServeNothing
  <2>1. req' = req
    BY <1>6 DEF ServeFile, ServeNothing, Serve, parsing
  <2>2. PICK r \in {Response(404, 1), Response(500, 1), Response(200, 0), Response(200, 1)} :
          resp' = ForMethod(r)
    <3>1. CASE ServeFile
      BY <3>1, GetPathAnswers DEF ServeFile
    <3>2. CASE ServeNothing
      BY <3>2 DEF ServeNothing, ErrorPage
    <3> QED BY <1>6, <3>1, <3>2
  <2>3. /\ resp'.fields = {}
        /\ resp'.body = IF req.method = "HEAD" THEN 0 ELSE resp'.length
    BY <2>2, ForMethodType DEF Response
  <2> QED BY <2>1, <2>3 DEF FramedByRoute, Framed
<1>7. CASE ProxyAnswers
  <2>1. UNCHANGED <<routes, req, i>> /\ i <= Len(routes) /\ routes[i].type = "proxy"
    BY <1>7 DEF ProxyAnswers, parsing, Chosen, Hit
  <2>2. CASE \E r \in {ErrorPage(502), ErrorPage(505), Response(200, 0)} : resp' = ForMethod(r)
    <3>1. /\ resp'.fields = {}
          /\ resp'.body = IF req.method = "HEAD" THEN 0 ELSE resp'.length
      BY <2>2, ForMethodType DEF Response, ErrorPage
    <3> QED BY <2>1, <3>1 DEF FramedByRoute, Framed
  <2>3. CASE \E announced \in 0 .. 2, arrived \in 0 .. 2 :
               /\ resp' = ForMethod([Response(200, arrived) EXCEPT !.fields = {announced}])
               /\ whole' = (req.method = "HEAD" \/ arrived = announced)
    <3>1. PICK announced \in 0 .. 2, arrived \in 0 .. 2 :
               /\ resp' = ForMethod([Response(200, arrived) EXCEPT !.fields = {announced}])
               /\ whole' = (req.method = "HEAD" \/ arrived = announced)
      BY <2>3
    <3>2. [Response(200, arrived) EXCEPT !.fields = {announced}]
            = [code |-> 200, body |-> arrived, length |-> arrived, fields |-> {announced}]
      BY DEF Response
    <3>3. /\ resp'.fields = {announced}
          /\ resp'.length = arrived
          /\ resp'.body = IF req.method = "HEAD" THEN 0 ELSE arrived
      BY <3>1, <3>2, ForMethodType
    <3>4. req.method # "HEAD" /\ whole' => arrived = announced
      BY <3>1
    <3> QED BY <2>1, <3>3, <3>4 DEF FramedByRoute, Framed
  <2> QED BY <1>7, <2>2, <2>3 DEF ProxyAnswers
<1> QED BY <1>1, <1>2, <1>3, <1>4, <1>5, <1>6, <1>7 DEF Next

-----------------------------------------------------------------------------
(* The first line that concerns a request.                                 *)

LEMMA Keeping ==
  ASSUME [Next]_vars, ~ParseRoute, ~LoseRoute, ~SkipMalformed
  PROVE  UNCHANGED parsing
  BY DEF Next, vars, parsing, ParseDone, NextRoute, NoRoute,
         Matched, HandleAlias, HandleReroute, ProxyRefused, ProxyZero, ProxySocket, ProxyNoMemory,
         ProxyAddress, ProxyUnreachable, ProxyConnect, ProxySilent, ProxyAnswers, GivenUp,
         Serve, ServeFile, ServeNothing, ServeOptions, ServeRefused, Done

LEMMA NeverParsesAgain ==
  ASSUME [Next]_vars, ~ParseDone, pc' # "parse"
  PROVE  pc # "parse"
  BY DEF Next, vars, TakeLine, ParseRoute, LoseRoute, SkipMalformed, NextRoute, NoRoute,
         Matched, HandleAlias, HandleReroute, ProxyRefused, ProxyZero, ProxySocket, ProxyNoMemory,
         ProxyAddress, ProxyUnreachable, ProxyConnect, ProxySilent, ProxyAnswers, GivenUp,
         Serve, ServeFile, ServeNothing, ServeOptions, ServeRefused, Done

(* A step of the parser takes one line. *)
LEMMA OneLineLess ==
  ASSUME TypeOK, Inputs, Unread, ParseRoute \/ LoseRoute \/ SkipMalformed
  PROVE  /\ Read \in Nat /\ Read' = Read + 1 /\ Read + 1 \in 1 .. Len(file)
         /\ Head(lines) = file[Read + 1]
         /\ Unread'
<1>1. /\ lines # <<>> /\ pc = "parse" /\ LineThere
      /\ lines' = Tail(lines)
      /\ UNCHANGED <<file, ended, pc>>
  BY DEF ParseRoute, LoseRoute, SkipMalformed, TakeLine, LineThere
<1>2. /\ lines \in Seq(Line) /\ file \in Seq(Line)
      /\ Len(lines) \in Nat /\ Len(file) \in Nat
  BY LenProperties DEF TypeOK, Inputs, Line
<1>3. /\ Len(lines') = Len(lines) - 1 /\ Len(lines) >= 1
      /\ \A n \in 1 .. Len(lines') : lines'[n] = lines[n + 1]
      /\ Head(lines) = lines[1]
  BY <1>1, <1>2, HeadTailProperties, EmptySeq
<1>4. Len(lines) <= Len(file) /\ \A n \in 1 .. Len(lines) : lines[n] = file[Read + n]
  BY DEF Unread
<1>5. Read \in Nat /\ Read' = Read + 1 /\ Read + 1 \in 1 .. Len(file)
  BY <1>1, <1>2, <1>3, <1>4 DEF Read
<1>6. Head(lines) = file[Read + 1]
  BY <1>2, <1>3, <1>4
<1>7. \A n \in 1 .. Len(lines') : lines'[n] = file'[Read' + n]
  <2> SUFFICES ASSUME NEW n \in 1 .. Len(lines') PROVE lines'[n] = file'[Read' + n]
    OBVIOUS
  <2>1. n + 1 \in 1 .. Len(lines) /\ Read + (n + 1) = (Read + 1) + n
    BY <1>2, <1>3, <1>5
  <2>2. lines'[n] = file[Read + (n + 1)]
    BY <1>3, <1>4, <2>1
  <2> QED BY <1>1, <1>5, <2>1, <2>2
<1>8. ended' \/ file' = <<>> \/ lines' # <<>>
  <2>1. ended \/ Len(lines') > 0
    BY <1>1, <1>2, <1>3 DEF LineThere
  <2>2. lines' = <<>> => Len(lines') = 0
    BY EmptySeq
  <2> QED BY <1>1, <2>1, <2>2
<1>9. Len(lines') <= Len(file')
  BY <1>1, <1>2, <1>3, <1>4
<1>10. Unread'
  BY <1>1, <1>7, <1>8, <1>9 DEF Unread
<1> QED BY <1>5, <1>6, <1>10

LEMMA TableStep ==
  ASSUME TypeOK, Inputs, Unread, Table, [Next]_vars
  PROVE  Unread' /\ Table'
<1>1. PICK at : ReadFrom(at)
  BY DEF Table
<1>0. \A n \in lost : n \in 1 .. Read
  BY DEF Table
<1>2. CASE ParseRoute
  <2>1. /\ Read \in Nat /\ Read' = Read + 1 /\ Unread'
        /\ Head(lines) = file[Read + 1]
    BY <1>2, OneLineLess
  <2>2. Head(lines) \in Route
    BY <1>2, HeadTailProperties DEF ParseRoute, TakeLine, LineThere, IsRoute, TypeOK
  <2>3. /\ Len(routes) \in Nat /\ Len(routes') = Len(routes) + 1
        /\ \A k \in 1 .. Len(routes) : routes'[k] = routes[k]
        /\ routes'[Len(routes) + 1] = Head(lines)
    BY <1>2, <2>2, AppendProperties, LenProperties DEF ParseRoute, WithRoute, TypeOK
  <2>4. UNCHANGED <<file, lost>>
    BY <1>2 DEF ParseRoute, TakeLine
  <2>0. PICK new : new = [k \in 1 .. Len(routes) + 1 |->
                             IF k <= Len(routes) THEN at[k] ELSE Read + 1]
    OBVIOUS
  <2>5. /\ DOMAIN new = 1 .. Len(routes) + 1
        /\ \A k \in 1 .. Len(routes) : new[k] = at[k] /\ at[k] \in 1 .. Read
        /\ new[Len(routes) + 1] = Read + 1
    BY <1>1, <2>0, <2>3, SMTT(30) DEF ReadFrom
  <2>6. new \in [1 .. Len(routes) + 1 -> 1 .. Read + 1]
    BY <1>1, <2>0, <2>1, <2>3 DEF ReadFrom
  <2>7. \A k, m \in 1 .. Len(routes) + 1 : k < m => new[k] < new[m]
    <3> SUFFICES ASSUME NEW k \in 1 .. Len(routes) + 1, NEW m \in 1 .. Len(routes) + 1, k < m
                 PROVE  new[k] < new[m]
      OBVIOUS
    <3>1. k \in 1 .. Len(routes)
      BY <2>3
    <3>2. CASE m \in 1 .. Len(routes)
      BY <1>1, <2>5, <3>1, <3>2 DEF ReadFrom
    <3>3. CASE m = Len(routes) + 1
      BY <2>1, <2>5, <3>1, <3>3
    <3> QED BY <2>3, <3>2, <3>3
  <2>8. \A k \in 1 .. Len(routes) + 1 : routes'[k] = file[new[k]] /\ new[k] \notin lost
    <3>1. Read + 1 \notin lost
      BY <1>0, <2>1
    <3> QED BY <1>1, <2>1, <2>3, <2>5, <3>1 DEF ReadFrom
  <2>9. \A n \in (1 .. Read + 1) \ lost :
           file[n] # Malformed => \E k \in 1 .. Len(routes) + 1 : new[k] = n
    <3> SUFFICES ASSUME NEW n \in (1 .. Read + 1) \ lost, file[n] # Malformed
                 PROVE  \E k \in 1 .. Len(routes) + 1 : new[k] = n
      OBVIOUS
    <3>1. CASE n = Read + 1
      BY <2>3, <2>5, <3>1
    <3>2. CASE n \in 1 .. Read
      <4>1. PICK k \in 1 .. Len(routes) : at[k] = n
        BY <1>1, <3>2 DEF ReadFrom
      <4>2. k \in 1 .. Len(routes) + 1 /\ new[k] = n
        BY <2>3, <2>5, <4>1
      <4> QED BY <4>2
    <3> QED BY <2>1, <3>1, <3>2
  <2>10. ReadFrom(new)'
    BY <2>1, <2>3, <2>4, <2>6, <2>7, <2>8, <2>9 DEF ReadFrom
  <2>11. \A n \in lost' : n \in 1 .. Read'
    BY <1>0, <2>1, <2>4
  <2> QED BY <2>1, <2>10, <2>11 DEF Table
<1>3. CASE LoseRoute \/ SkipMalformed
  <2>1. /\ Read \in Nat /\ Read' = Read + 1 /\ Unread'
        /\ Head(lines) = file[Read + 1]
    BY <1>3, OneLineLess
  <2>2. /\ UNCHANGED <<file, routes>>
        /\ \/ lost' = lost \cup {Read + 1}
           \/ lost' = lost /\ file[Read + 1] = Malformed
    BY <1>3, <2>1 DEF LoseRoute, SkipMalformed, TakeLine, IsRoute, Read
  <2>3. at \in [1 .. Len(routes) -> 1 .. Read + 1]
    BY <1>1, <2>1 DEF ReadFrom
  <2>4. \A n \in (1 .. Read + 1) \ lost' :
           file[n] # Malformed => \E k \in 1 .. Len(routes) : at[k] = n
    <3> SUFFICES ASSUME NEW n \in (1 .. Read + 1) \ lost', file[n] # Malformed
                 PROVE  \E k \in 1 .. Len(routes) : at[k] = n
      OBVIOUS
    <3>1. n \in (1 .. Read) \ lost
      BY <2>1, <2>2
    <3> QED BY <1>1, <3>1 DEF ReadFrom
  <2>5. \A k \in 1 .. Len(routes) : routes[k] = file[at[k]] /\ at[k] \notin lost'
    <3> SUFFICES ASSUME NEW k \in 1 .. Len(routes) PROVE routes[k] = file[at[k]] /\ at[k] \notin lost'
      OBVIOUS
    <3>1. routes[k] = file[at[k]] /\ at[k] \notin lost /\ at[k] \in 1 .. Read
      BY <1>1 DEF ReadFrom
    <3>2. at[k] # Read + 1
      BY <2>1, <3>1
    <3> QED BY <2>2, <3>1, <3>2
  <2>6. ReadFrom(at)'
    BY <1>1, <2>1, <2>2, <2>3, <2>4, <2>5 DEF ReadFrom
  <2>7. \A n \in lost' : n \in 1 .. Read'
    BY <1>0, <2>1, <2>2
  <2> QED BY <2>1, <2>6, <2>7 DEF Table
<1>4. CASE ~ParseRoute /\ ~LoseRoute /\ ~SkipMalformed
  <2>1. UNCHANGED <<lines, file, ended, routes, lost>>
    BY <1>4, Keeping DEF parsing
  <2>2. Read' = Read
    BY <2>1 DEF Read
  <2>3. ReadFrom(at)'
    BY <1>1, <2>1, <2>2 DEF ReadFrom
  <2>4. pc' # "parse" => ~LineThere
    BY <1>4, NeverParsesAgain DEF Unread, ParseDone
  <2>5. Unread'
    BY <2>1, <2>2, <2>4 DEF Unread, LineThere
  <2> QED BY <1>0, <2>1, <2>2, <2>3, <2>5 DEF Table
<1> QED BY <1>2, <1>3, <1>4

(* A response that did not come from handle_reroute is no 301. *)
LEMMA OtherCodes ==
  ASSUME ProxyRefused \/ ProxyZero \/ ProxyNoMemory \/ ProxyUnreachable \/ ProxySilent \/ ProxyAnswers
            \/ ServeFile \/ ServeNothing \/ ServeOptions \/ ServeRefused
  PROVE  resp'.code # 301
<1>1. CASE ProxyRefused \/ ProxyZero \/ ProxyNoMemory \/ ProxyUnreachable \/ ProxySilent
              \/ ServeOptions \/ ServeRefused
  BY <1>1 DEF ProxyRefused, ProxyZero, ProxyNoMemory, ProxyUnreachable, ProxySilent, GivenUp,
              ServeOptions, ServeRefused, ErrorPage, Response
<1>2. CASE ServeFile
  BY <1>2, GetPathAnswers, ForMethodType DEF ServeFile, Response
<1>3. CASE ServeNothing
  BY <1>3, ForMethodType DEF ServeNothing, ErrorPage, Response
<1>4. CASE ProxyAnswers
  <2>1. CASE \E r \in {ErrorPage(502), ErrorPage(505), Response(200, 0)} : resp' = ForMethod(r)
    BY <2>1, ForMethodType DEF ErrorPage, Response
  <2>2. CASE \E announced \in 0 .. 2, arrived \in 0 .. 2 :
               resp' = ForMethod([Response(200, arrived) EXCEPT !.fields = {announced}])
    <3>1. PICK announced \in 0 .. 2, arrived \in 0 .. 2 :
               resp' = ForMethod([Response(200, arrived) EXCEPT !.fields = {announced}])
      BY <2>2
    <3>2. [Response(200, arrived) EXCEPT !.fields = {announced}]
            = [code |-> 200, body |-> arrived, length |-> arrived, fields |-> {announced}]
      BY DEF Response
    <3> QED BY <3>1, <3>2, ForMethodType
  <2> QED BY <1>4, <2>1, <2>2 DEF ProxyAnswers
<1> QED BY <1>1, <1>2, <1>3, <1>4

LEMMA ChosenStep ==
  ASSUME TypeOK, Inputs, Passed, Chosen, [Next]_vars
  PROVE  Passed' /\ Chosen'
<1>0. Len(routes) \in Nat /\ i \in Nat /\ i >= 1
  BY LenProperties DEF TypeOK
<1>1. CASE UNCHANGED vars \/ Done
  BY <1>1 DEF Passed, Chosen, Hit, Matches, vars, Done
<1>2. CASE ParseRoute \/ LoseRoute \/ SkipMalformed \/ ParseDone
  <2>1. /\ UNCHANGED <<i, path, req>>
        /\ i = 1 /\ path = req.path /\ pc' \in {"parse", "match"}
    BY <1>2 DEF Passed, TakeLine, ParseRoute, LoseRoute, SkipMalformed, ParseDone, parsing
  <2> QED BY <2>1 DEF Passed, Chosen
<1>3. CASE NextRoute
  <2>1. /\ UNCHANGED <<parsing, path>> /\ pc = "match" /\ pc' = "match"
        /\ i' = i + 1 /\ ~Matches(routes[i])
    BY <1>3 DEF NextRoute
  <2>2. \A k \in 1 .. i : ~Matches(routes[k])
    BY <1>0, <2>1 DEF Passed
  <2>3. \A k \in 1 .. i' - 1 : ~Matches(routes[k])'
    BY <1>0, <2>1, <2>2 DEF Matches, parsing
  <2> QED BY <2>1, <2>3 DEF Passed, Chosen, parsing
<1>4. CASE NoRoute \/ HandleAlias \/ HandleReroute \/ ProxyRefused \/ ProxyZero \/ ProxySocket
  <2>1. /\ UNCHANGED <<parsing, i>> /\ pc = "match"
        /\ pc' \in {"serve", "done", "address"}
    BY <1>4 DEF NoRoute, HandleAlias, HandleReroute, ProxyRefused, ProxyZero, ProxySocket, Matched
  <2>2. Passed'
    BY <2>1 DEF Passed, Matches, parsing
  <2>3. path = req.path
    BY <2>1 DEF Passed
  <2>4. CASE NoRoute
    <3>1. i > Len(routes) /\ path' = path /\ pc' = "serve" /\ UNCHANGED <<routes, req, i>>
      BY <2>4 DEF NoRoute, parsing
    <3> QED BY <2>2, <2>3, <3>1 DEF Chosen
  <2>5. CASE HandleAlias
    <3>1. /\ Hit /\ routes[i].type = "alias"
          /\ path' = routes[i].dest /\ pc' = "serve" /\ UNCHANGED <<routes, req, i>>
      BY <2>5 DEF HandleAlias, Matched, parsing, Hit
    <3>2. Hit'
      BY <3>1 DEF Hit, Matches
    <3> QED BY <2>2, <3>1, <3>2 DEF Chosen
  <2>6. CASE HandleReroute
    <3>1. /\ Hit /\ routes[i].type = "reroute" /\ resp'.code = 301
          /\ path' = path /\ pc' = "done" /\ UNCHANGED <<routes, req, i>>
      BY <2>6 DEF HandleReroute, Matched, parsing, Hit, ErrorPage, Response
    <3>2. Hit'
      BY <3>1 DEF Hit, Matches
    <3> QED BY <2>2, <2>3, <3>1, <3>2 DEF Chosen, Hit
  <2>7. CASE ProxyRefused \/ ProxyZero
    <3>1. /\ Hit /\ routes[i].type = "proxy"
          /\ path' = path /\ pc' = "done" /\ UNCHANGED <<routes, req, i>>
      BY <2>7 DEF ProxyRefused, ProxyZero, Matched, parsing, Hit
    <3>2. Hit' /\ resp'.code # 301
      BY <2>7, <3>1, OtherCodes DEF Hit, Matches
    <3> QED BY <2>2, <2>3, <3>1, <3>2 DEF Chosen
  <2>8. CASE ProxySocket
    <3>1. /\ Hit /\ routes[i].type = "proxy"
          /\ path' = path /\ pc' = "address" /\ UNCHANGED <<routes, req, i>>
      BY <2>8 DEF ProxySocket, Matched, parsing, Hit
    <3>2. Hit'
      BY <3>1 DEF Hit, Matches
    <3> QED BY <2>2, <2>3, <3>1, <3>2 DEF Chosen
  <2> QED BY <1>4, <2>4, <2>5, <2>6, <2>7, <2>8
<1>5. CASE ProxyAddress \/ ProxyConnect \/ ProxyNoMemory \/ ProxyUnreachable \/ ProxySilent
              \/ ProxyAnswers
  <2>1. /\ UNCHANGED <<routes, req, path, i>> /\ pc \in {"address", "connect", "proxy"}
        /\ pc' \in {"connect", "proxy", "done"}
    BY <1>5 DEF ProxyAddress, ProxyConnect, ProxyNoMemory, ProxyUnreachable, ProxySilent,
                ProxyAnswers, GivenUp, parsing
  <2>2. Hit /\ routes[i].type = "proxy" /\ path = req.path
    BY <2>1 DEF Chosen
  <2>3. Hit'
    BY <2>1, <2>2 DEF Hit, Matches
  <2>4. pc' = "done" => resp'.code # 301
    BY <1>5, OtherCodes DEF ProxyAddress, ProxyConnect
  <2>5. Passed'
    BY <2>1 DEF Passed, Matches
  <2> QED BY <2>1, <2>2, <2>3, <2>4, <2>5 DEF Chosen
<1>6. CASE ServeFile \/ ServeNothing \/ ServeOptions \/ ServeRefused
  <2>1. /\ UNCHANGED <<routes, req, path, i>> /\ pc = "serve" /\ pc' = "done"
    BY <1>6 DEF ServeFile, ServeNothing, ServeOptions, ServeRefused, Serve, parsing
  <2>2. resp'.code # 301
    BY <1>6, OtherCodes
  <2>3. Passed'
    BY <2>1 DEF Passed, Matches
  <2>4. Hit' <=> Hit
    BY <2>1 DEF Hit, Matches
  <2>5. ~(i <= Len(routes) /\ routes[i].type = "reroute")
    BY <1>0, <2>1 DEF Chosen
  <2> QED BY <2>1, <2>2, <2>3, <2>4, <2>5 DEF Chosen
<1> QED BY <1>1, <1>2, <1>3, <1>4, <1>5, <1>6 DEF Next

-----------------------------------------------------------------------------
(* The test of fetch_response, on the table, and Concerning, on the file.  *)

LEMMA PrefixIsCut ==
  ASSUME NEW S, NEW p \in Seq(S), NEW src \in Seq(S)
  PROVE  IsPrefix(src, p) <=> \E rest \in 0 .. Len(p) : SubSeq(p, 1, rest) = src
<1>1. Len(p) \in Nat /\ Len(src) \in Nat /\ SubSeq(src, 1, Len(src)) = src
  BY LenProperties, SubSeqFull
<1>2. ASSUME IsPrefix(src, p) PROVE \E rest \in 0 .. Len(p) : SubSeq(p, 1, rest) = src
  <2>1. Len(src) \in 0 .. Len(p) /\ SubSeq(p, 1, Len(src)) = src
    BY <1>1, <1>2 DEF IsPrefix
  <2> QED BY <2>1
<1>3. ASSUME NEW rest \in 0 .. Len(p), SubSeq(p, 1, rest) = src PROVE IsPrefix(src, p)
  <2>1. \A n \in 1 .. rest : p[n] \in S
    BY <1>1, ElementOfSeq
  <2>2. Len(src) = rest
    BY <1>3, <2>1, <1>1, SubSeqProperties
  <2> QED BY <1>1, <1>3, <2>2 DEF IsPrefix
<1> QED BY <1>2, <1>3

LEMMA ReadAll ==
  ASSUME TypeOK, Inputs, Unread, pc # "parse"
  PROVE  Declared = 1 .. Read
<1>0. Len(lines) \in Nat /\ Len(file) \in Nat
  BY LenProperties DEF TypeOK, Inputs
<1>1. DOMAIN file = 1 .. Len(file) /\ Len(lines) \in Nat /\ Len(file) \in Nat
  BY <1>0, LenProperties DEF Inputs
<1>2. file = <<>> <=> Len(file) = 0
  BY <1>1, EmptySeq DEF Inputs
<1>3. lines = <<>> <=> Len(lines) = 0
  BY <1>1, EmptySeq DEF TypeOK
<1>4. /\ Len(lines) <= Len(file)
      /\ ended \/ file = <<>> \/ lines # <<>>
      /\ ~LineThere
  BY DEF Unread
<1>5. CASE ended \/ file = <<>>
  <2>1. Len(lines) = 0
    <3>1. CASE ended
      BY <1>3, <1>4, <3>1 DEF LineThere
    <3>2. CASE file = <<>>
      BY <1>1, <1>2, <1>4, <3>2
    <3> QED BY <1>5, <3>1, <3>2
  <2>2. Read = Len(file)
    BY <1>1, <2>1 DEF Read
  <2> QED BY <1>1, <1>5, <2>2 DEF Declared
<1>6. CASE ~(ended \/ file = <<>>)
  <2>0. Len(file) # 0 /\ Len(lines) # 0 /\ ~(Len(lines) > 1)
    BY <1>2, <1>3, <1>4, <1>6, Zenon DEF LineThere
  <2>1. Len(lines) = 1 /\ Len(file) >= 1
    BY <1>0, <2>0
  <2>2. Read = Len(file) - 1
    BY <1>1, <2>1 DEF Read
  <2>3. Declared = (1 .. Len(file)) \ {Len(file)}
    BY <1>1, <1>6 DEF Declared
  <2> QED BY <1>1, <2>1, <2>2, <2>3
<1> QED BY <1>5, <1>6

LEMMA TableConcerning ==
  ASSUME TypeOK, Inputs, Unread, pc # "parse", NEW at, ReadFrom(at)
  PROVE  /\ \A k \in 1 .. Len(routes) : at[k] \in Concerning <=> Matches(routes[k])
         /\ \A n \in Concerning : \E k \in 1 .. Len(routes) : at[k] = n
<1>1. Declared = 1 .. Read
  BY ReadAll
<1>2. ASSUME NEW k \in 1 .. Len(routes)
      PROVE  at[k] \in Concerning <=> Matches(routes[k])
  <2>1. routes[k] = file[at[k]] /\ at[k] \in Declared
    BY <1>1 DEF ReadFrom
  <2>6. at[k] \notin lost
    BY DEF ReadFrom
  <2>2. routes[k] \in Route
    BY ElementOfSeq DEF TypeOK
  <2>3. routes[k].src \in Seq(STRING) /\ req.path \in Seq(STRING) /\ file[at[k]] # Malformed
    BY <2>1, <2>2, RouteFields, RequestAssumption DEF Inputs
  <2>4. req.path = routes[k].src => IsPrefix(routes[k].src, req.path)
    BY <2>3, LenProperties DEF IsPrefix
  <2>5. IsPrefix(routes[k].src, req.path)
          <=> \E rest \in 0 .. Len(req.path) : SubSeq(req.path, 1, rest) = routes[k].src
    BY <2>3, PrefixIsCut
  <2> QED BY <2>1, <2>3, <2>4, <2>5, <2>6 DEF Concerning, Matches
<1>3. ASSUME NEW n \in Concerning
      PROVE  \E k \in 1 .. Len(routes) : at[k] = n
  BY <1>1 DEF Concerning, ReadFrom
<1> QED BY <1>2, <1>3

(* The loop stops at the route of the first line that concerns the request.*)
LEMMA LoopFindsDecider ==
  ASSUME RequestInv, pc \in {"serve", "address", "done"}
  PROVE  /\ i > Len(routes) => Concerning = {}
         /\ i <= Len(routes) => Concerning # {} /\ Decider = routes[i]
<1>1. TypeOK /\ Inputs /\ Unread /\ Passed /\ Chosen
  BY DEF RequestInv
<1>2. PICK at : ReadFrom(at)
  BY DEF RequestInv, Table
<1>3. /\ \A k \in 1 .. Len(routes) : at[k] \in Concerning <=> Matches(routes[k])
      /\ \A n \in Concerning : \E k \in 1 .. Len(routes) : at[k] = n
  BY <1>1, <1>2, TableConcerning
<1>4. Len(routes) \in Nat /\ i \in Nat /\ i \in 1 .. Len(routes) + 1
  BY <1>1, LenProperties DEF TypeOK
<1>5. \A k \in 1 .. i - 1 : ~Matches(routes[k])
  BY <1>1 DEF Passed
<1>6. i > Len(routes) => Concerning = {}
  BY <1>3, <1>4, <1>5
<1>7. ASSUME i <= Len(routes) PROVE Concerning # {} /\ Decider = routes[i]
  <2>1. Hit
    BY <1>1, <1>4, <1>7 DEF Chosen
  <2>2. i \in 1 .. Len(routes) /\ at[i] \in Concerning
    BY <1>3, <1>4, <1>7, <2>1 DEF Hit
  <2>3. Concerning \in SUBSET Int
    <3>1. Declared \in SUBSET Int
      BY <1>1, ReadAll DEF Read
    <3> QED BY <3>1 DEF Concerning
  <2>4. \A n \in Concerning : at[i] <= n
    <3> SUFFICES ASSUME NEW n \in Concerning PROVE at[i] <= n
      OBVIOUS
    <3>1. PICK k \in 1 .. Len(routes) : at[k] = n
      BY <1>3
    <3>2. Matches(routes[k])
      BY <1>3, <3>1
    <3>3. k >= i
      BY <1>4, <1>5, <3>2
    <3>4. k = i \/ at[i] < at[k]
      BY <1>2, <1>4, <2>2, <3>3 DEF ReadFrom
    <3>5. at[i] \in Int /\ n \in Int
      BY <2>2, <2>3
    <3>6. at[i] = n \/ at[i] < n
      BY <3>1, <3>4
    <3> QED BY <3>5, <3>6
  <2>5. Min(Concerning) = at[i]
    BY <2>2, <2>3, <2>4, LeastIsMin
  <2> QED BY <1>2, <2>2, <2>5 DEF ReadFrom, Decider
<1> QED BY <1>6, <1>7

LEMMA FirstLineFollows == RequestInv => FirstLineDecides
<1> SUFFICES ASSUME RequestInv, pc \in {"serve", "address", "done"}
             PROVE  FirstLineDecides
  BY DEF FirstLineDecides
<1>1. Chosen /\ Len(routes) \in Nat /\ i \in Nat
  BY LenProperties DEF RequestInv, TypeOK
<1>2. CASE i > Len(routes)
  <2>1. path = req.path /\ (pc = "done" => resp.code # 301) /\ pc # "address"
    BY <1>1, <1>2 DEF Chosen, Hit
  <2> QED BY <1>2, <2>1, LoopFindsDecider DEF FirstLineDecides
<1>3. CASE i <= Len(routes)
  <2>1. /\ path = (IF routes[i].type = "alias" THEN routes[i].dest ELSE req.path)
        /\ pc = "serve" => routes[i].type = "alias"
        /\ pc = "address" => routes[i].type = "proxy"
        /\ pc = "done" => (resp.code = 301 <=> routes[i].type = "reroute")
    BY <1>1, <1>3 DEF Chosen
  <2> QED BY <1>3, <2>1, LoopFindsDecider DEF FirstLineDecides
<1> QED BY <1>1, <1>2, <1>3

LEMMA FramedFollows == RequestInv => ResponseFramed
<1> SUFFICES ASSUME RequestInv, pc = "done", ~Framed
             PROVE  ResponseFramed
  BY DEF ResponseFramed
<1>1. FramedByRoute
  BY DEF RequestInv
<1>2. i <= Len(routes)
  BY <1>1 DEF FramedByRoute
<1>3. Concerning # {} /\ Decider = routes[i]
  BY <1>2, LoopFindsDecider
<1> QED BY <1>1, <1>3 DEF FramedByRoute, ResponseFramed

-----------------------------------------------------------------------------
(* The inductive invariant of the whole module. *)
THEOREM RequestInvariant == Spec => []RequestInv
<1>1. RequestInv /\ [Next]_vars => RequestInv'
  BY TypeStep, TableStep, ChosenStep, HeldStep, ServedStep, FramedStep DEF RequestInv
<1> QED BY InitInv, <1>1, PTL DEF Spec

(* For every routes.conf, every request and every choice of lines that     *)
(* there was no memory for, the loop over the table finds the route of the *)
(* first remaining line that concerns the request, and the request is      *)
(* answered as that line says.                                             *)
THEOREM FirstLineChosen == Spec => []FirstLineDecides
  BY RequestInvariant, FirstLineFollows, PTL

(* Every response announces its body as it is sent, unless the first line  *)
(* that concerns the request sends it elsewhere and one of the cases that  *)
(* ResponseFramed lists has occurred.                                      *)
THEOREM ResponsesFramed == Spec => []ResponseFramed
  BY RequestInvariant, FramedFollows, PTL
=============================================================================
