------------------------------- MODULE Requests -------------------------------
(***************************************************************************)
(* What the server makes of one request: the parser (httpMethods.cpp), the *)
(* order of the tests in _handle_request, the router and its url_params    *)
(* (complementary_server_functions.hpp), the Request object the handler    *)
(* gets on a worker, the page it renders from a string (TemplateBlocks),   *)
(* and the task that reads a file.  An exception of the loop's part ends   *)
(* the loop, and the workers go on; the worker catches those of the        *)
(* handler, and one of the file task ends the process.                     *)
(*                                                                         *)
(* Texts are abstracted to what the code tells apart: a path is a sequence *)
(* of segments, a form the kinds of its values, JSON its shape.            *)
(***************************************************************************)
EXTENDS TemplateBlocks, FiniteSets, Functions

CONSTANT Inputs         \* sets of what is sent to which server

Methods == {"GET", "POST"}

\* Segments of paths: a digit, a number, one beyond int, and others.
Segments == {"1", "7", "10000000000", "3.5", "true", "word"}

\* What a form value has in it, maybe escaped: the whole request is unescaped
\* before it is parsed.
FieldValues == {"plain", "ampersand", "line break"}

\* A body: a form of some fields, or JSON that is right or wrong on some lines.
Forms == [kind : {"form"}, fields : Seq(FieldValues), right : {TRUE}, lines : {1}]
JSONs == [kind : {"json"}, fields : {<<>>}, right : BOOLEAN, lines : {1, 2}]
NoBody == [kind |-> "none", fields |-> <<>>, right |-> TRUE, lines |-> 0]

\* `split`: the body comes in a read of its own.  A cookie of the session is a
\* token, maybe not valid any more (Sessions), or junk that is none.  A length
\* beyond the body, or below zero, is as good as the right one.  A "/" at the
\* end of the path is dropped and what follows a "?" is no part of it, so neither
\* is here.
Messages ==
    [method : Methods, path : Seq(Segments), accept : BOOLEAN,
     cookie : {"none", "token", "junk"},
     length : {"none", "right", "short", "zero", "word", "too big"},
     type : {"none", "form", "form; charset", "json", "other"},
     body : Forms \cup JSONs \cup {NoBody}, split : BOOLEAN]

ParamTypes == {"int", "float", "bool", "string"}

\* A segment of a pattern is a literal or a named parameter.
Names == {"x", "y"}
PatternSegments == [type : {"literal"}, text : Segments] \cup [type : ParamTypes, text : Names]

\* `slash`: the path of the route ends with one; "/" itself is the empty pattern.
Routes == [pattern : Seq(PatternSegments), slash : BOOLEAN, methods : SUBSET Methods]

\* `target`: whether the path that is sent is in routesFile, and then maybe in the
\* cache, or in the public folder, and then maybe refused by check_dangerous_route.
Targets == {"route", "file", "cached file", "public", "dangerous"}

\* What the disk has there.  A path is out of reach if it cannot even be looked at:
\* a name too long, a directory without permission, a loop of links.  A directory
\* may open and have no size.
Files == {"readable", "absent", "unreadable", "unsized", "out of reach"}

AllInputs == [message : Messages, routes : Seq(Routes), target : Targets, file : Files,
              template : Seq(Lines)]

ASSUME InputsAssumption == \A family \in Inputs : family \subseteq AllInputs

VARIABLES
    input,              \* what is sent to which server
    pieces,             \* what the loop has still to read
    at,                 \* what the loop is doing
    headers,            \* the httpHeaders of the request being handled
    tried,              \* the last route _route_matcher has tried
    url_params,         \* the parameters it has found
    tasks,              \* the closures in taskQueue_
    fetched,            \* what file tasks have handed to the loop
    handled,            \* history: the Request objects given to handlers
    answers             \* what was sent back, in order

vars == <<input, pieces, at, headers, tried, url_params, tasks, fetched, handled, answers>>

Params == UNION {[names -> [type : ParamTypes, value : Segments]] : names \in SUBSET Names}

\* A body as the code knows it: a form, its fields by number with 0 for a name
\* that nobody sent, or another, which no handler gets to see.
Dict(fields) == [kind |-> "dict", fields |-> fields]
Other == [kind |-> "other", fields |-> <<>>]
Thrown == [kind |-> "thrown", fields |-> <<>>]

NoHeaders == [method |-> "", path |-> <<>>, accept |-> FALSE, cookie |-> "none", body |-> Other]

message == input.message

Init ==
    /\ \E family \in Inputs : input \in family
    /\ pieces = IF input.message.split THEN <<"head", "rest">> ELSE <<"whole">>
    /\ at = "idle"
    /\ headers = NoHeaders
    /\ tried = 0
    /\ url_params = <<>>
    /\ tasks = <<>>
    /\ fetched = <<>>
    /\ handled = <<>>
    /\ answers = <<>>

------------------------------------------------------------------------------
(***************************************************************************)
(* The parser                                                              *)
(***************************************************************************)

\* Variant: the length is converted whether the header is there or not.
AlwaysRead(length) == TRUE

HasLength(length) == length # "none"

\* The fields that follow the last line break of a form, by their number in it.
LastLine(fields) ==
    Restrict(fields, {i \in DOMAIN fields :
                         \A b \in DOMAIN fields : fields[b] = "line break" => b < i})

\* What a length that is too short may leave of a line: some of its fields, the
\* last one maybe cut.
Truncations(line) ==
    LET upTo(n) == Restrict(line, {i \in DOMAIN line : i <= n})
    IN  {upTo(n) : n \in DOMAIN line \cup {0}}
            \cup {[upTo(n) EXCEPT ![n] = "cut"] : n \in DOMAIN line}

\* The fields of a form: an ampersand in a value ends it and begins another field.
FormFields(line) ==
    [i \in DOMAIN line \cup (IF "ampersand" \in Range(line) THEN {0} ELSE {}) |->
        IF i = 0 THEN "the rest" ELSE IF line[i] = "plain" THEN "plain" ELSE "the start"]

\* What the constructor of Content may make of the last line of a piece:
\* json::parse throws, and of JSON that was cut it is open whether it is right.
ContentOf(body) ==
    LET short == message.length = "short" /\ body # NoBody
        line == LastLine(body.fields)
    IN  CASE message.type = "json" /\ short -> {Other, Thrown}
          [] message.type = "json" /\ ~short ->
                {IF body.kind = "json" /\ body.right /\ body.lines = 1 THEN Other ELSE Thrown}
          [] message.type = "form" ->
                {Dict(FormFields(l)) : l \in IF short THEN Truncations(line) ELSE {line}}
          [] OTHER -> {Other}

\* The body in a piece, as far as Content-Length goes.
Received(piece) == IF piece = "head" \/ message.length = "zero" THEN NoBody ELSE message.body

\* What may become of the body of a request: std::stoi throws.
BodiesOf(piece) ==
    IF ~HasLength(message.length) THEN {Other}
    ELSE IF message.length \notin {"right", "short", "zero"} THEN {Thrown}
    ELSE ContentOf(Received(piece))

\* httpHeaders::loadParams.  A piece with no request line has no method and the
\* path "/".
HeadersOf(piece) ==
    IF piece = "rest" THEN {NoHeaders}
    ELSE {[method |-> message.method, path |-> message.path, accept |-> message.accept,
           cookie |-> message.cookie, body |-> body] : body \in BodiesOf(piece)}

\* DataEvent: each read is taken for a request.
ReadRequest ==
    /\ at = "idle"
    /\ pieces # <<>>
    /\ pieces' = Tail(pieces)
    /\ \E read \in HeadersOf(Head(pieces)) :
          \/ /\ read.body = Thrown
             /\ at' = "down"
             /\ UNCHANGED headers
          \/ /\ read.body # Thrown
             /\ at' = "parsed"
             /\ headers' = read
    /\ UNCHANGED <<input, tried, url_params, tasks, fetched, handled, answers>>

------------------------------------------------------------------------------
(***************************************************************************)
(* _handle_request                                                         *)
(***************************************************************************)
Answer(status) == answers' = Append(answers, [status |-> status, page |-> <<>>])

\* The session: an id that is no string throws.  No cookie is refused: what does
\* not verify gets a new session, and the 401 of the code is never sent.
CheckSession ==
    /\ at = "parsed"
    /\ at' = IF headers.cookie = "junk" THEN "down" ELSE "checked"
    /\ UNCHANGED <<input, pieces, headers, tried, url_params, tasks, fetched, handled, answers>>

IsFile == input.target \in {"file", "cached file"} /\ headers.path = message.path /\ headers.method # ""

\* The closure of _send_file_worker.
FileTask == [kind |-> "file"]

\* _handle_static_file: Accept-Encoding is taken to be there.  The worker reads the
\* file, or the loop answers from the cache.
HandleStaticFile ==
    /\ at = "checked"
    /\ IsFile
    /\ \/ /\ ~headers.accept
          /\ at' = "down"
          /\ UNCHANGED <<tasks, fetched>>
       \/ /\ headers.accept
          /\ input.target = "file"
          /\ at' = "idle"
          /\ tasks' = Append(tasks, FileTask)
          /\ UNCHANGED fetched
       \/ /\ headers.accept
          /\ input.target = "cached file"
          /\ at' = "idle"
          /\ fetched' = Append(fetched, "file")
          /\ UNCHANGED tasks
    /\ UNCHANGED <<input, pieces, headers, tried, url_params, handled, answers>>

\* The path is no registered file: on to the routes.
NoStaticFile ==
    /\ at = "checked"
    /\ ~IsFile
    /\ at' = "matching"
    /\ tried' = 0
    /\ url_params' = <<>>
    /\ UNCHANGED <<input, pieces, headers, tasks, fetched, handled, answers>>

\* The regular expression of a segment.
Accepts(segment, value) ==
    CASE segment.type = "literal" -> value = segment.text
      [] segment.type = "int" -> value \in {"1", "7", "10000000000"}
      [] segment.type = "float" -> value = "3.5"
      [] segment.type = "bool" -> value \in {"true", "1"}
      [] segment.type = "string" -> TRUE

\* A route that ends with "/" is never that of a request.
Shaped(route, path) ==
    /\ ~route.slash \/ route.pattern = <<>>
    /\ Len(path) = Len(route.pattern)
    /\ \A i \in DOMAIN path : Accepts(route.pattern[i], path[i])

\* Variant: literals count as parameters.
AllSegments(route) == DOMAIN route.pattern

ParamsOf(route) == {i \in DOMAIN route.pattern : route.pattern[i].type # "literal"}

\* std::stoi throws.
Overflows(route, path, i) == route.pattern[i].type = "int" /\ path[i] = "10000000000"

\* The parameters converted before the first that does not.
Converted(route, path) ==
    {i \in ParamsOf(route) : \A j \in ParamsOf(route) : j <= i => ~Overflows(route, path, j)}

\* Variant: a parameter that does not convert does not matter.
AnyShaped(route, path) == Shaped(route, path)

Matches(route, path) == Shaped(route, path) /\ Converted(route, path) = ParamsOf(route)

\* url_params after the route was tried: of two parameters of one name the later.
ParamsAfter(route, path) ==
    LET new == IF Shaped(route, path) THEN Converted(route, path) ELSE {}
        name(i) == route.pattern[i].text
        last(n) == CHOOSE i \in new : name(i) = n /\ \A j \in new : name(j) = n => j <= i
    IN  [n \in DOMAIN url_params \cup {name(i) : i \in new} |->
            IF \E i \in new : name(i) = n
            THEN [type |-> route.pattern[last(n)].type, value |-> path[last(n)]]
            ELSE url_params[n]]

\* One turn of _route_matcher.
TryRoute ==
    /\ at = "matching"
    /\ tried < Len(input.routes)
    /\ tried' = tried + 1
    /\ LET route == input.routes[tried + 1]
       IN  /\ url_params' = ParamsAfter(route, headers.path)
           /\ at' = IF Matches(route, headers.path) THEN "matched" ELSE "matching"
    /\ UNCHANGED <<input, pieces, headers, tasks, fetched, handled, answers>>

\* A route was found: 405, or the closure with copies of what it needs.  (Static
\* routes are in Sessions.)
Dispatch ==
    /\ at = "matched"
    /\ at' = "idle"
    /\ IF headers.method \in input.routes[tried].methods
       THEN /\ tasks' = Append(tasks, [kind |-> "route", route |-> tried, params |-> url_params,
                                       headers |-> headers])
            /\ UNCHANGED answers
       ELSE /\ Answer("405")
            /\ UNCHANGED tasks
    /\ UNCHANGED <<input, pieces, headers, tried, url_params, fetched, handled>>

InPublicFolder == input.target \in {"public", "dangerous"} /\ headers.method # ""

NoRouteMatches == at = "matching" /\ tried = Len(input.routes)

\* The public folder: check_dangerous_route refuses, or the worker reads the file.
PublicFolder ==
    /\ NoRouteMatches
    /\ InPublicFolder
    /\ at' = "idle"
    /\ \/ /\ input.target = "dangerous"
          /\ Answer("404")
          /\ UNCHANGED tasks
       \/ /\ input.target = "public"
          /\ tasks' = Append(tasks, FileTask)
          /\ UNCHANGED answers
    /\ UNCHANGED <<input, pieces, headers, tried, url_params, fetched, handled>>

NotRouted ==
    /\ NoRouteMatches
    /\ ~InPublicFolder
    /\ at' = "idle"
    /\ Answer("404")
    /\ UNCHANGED <<input, pieces, headers, tried, url_params, tasks, fetched, handled>>

------------------------------------------------------------------------------
(***************************************************************************)
(* _handle_route, on a worker                                              *)
(***************************************************************************)

\* The Request: `form` is a copy of a body that is a form; `content = body`
\* copies the value of `content` to itself.
RequestOf(task) ==
    [route |-> task.route, params |-> task.params, method |-> task.headers.method,
     form |-> IF task.headers.body.kind = "dict" THEN task.headers.body.fields ELSE <<>>,
     content |-> ""]

\* The handler returns a page; what RenderString throws is answered with 500.
\* (The session and the socket are in Sessions and HttpServer.)
HandleRoute ==
    /\ at # "terminated"
    /\ tasks # <<>>
    /\ Head(tasks).kind = "route"
    /\ tasks' = Tail(tasks)
    /\ handled' = Append(handled, RequestOf(Head(tasks)))
    /\ LET page == RenderString(input.template)
       IN  \/ /\ Parse(input.template).status = "crash"
              /\ at' = "terminated"
              /\ UNCHANGED answers
           \/ /\ Parse(input.template).status # "crash"
              /\ page.thrown
              /\ Answer("500")
              /\ UNCHANGED at
           \/ /\ ~page.thrown
              /\ answers' = Append(answers, [status |-> "200", page |-> page.shown])
              /\ UNCHANGED at
    /\ UNCHANGED <<input, pieces, headers, tried, url_params, fetched>>

------------------------------------------------------------------------------
(***************************************************************************)
(* _send_file_worker: the task, on a worker, and its end, on the loop      *)
(***************************************************************************)

\* What the task may find: resize takes the size that tellg does not know for one
\* beyond vector, for more than there is memory, or for the right one.
Readings(file) ==
    CASE file = "readable" -> {"file"}
      [] file = "absent" -> {"404"}
      [] file = "unreadable" -> {"500"}
      [] file = "unsized" -> {"file", "500", "length_error"}
      [] file = "out of reach" -> {"filesystem_error"}

\* Only bad_alloc is caught, and only around the read: neither the task nor the
\* worker that runs it catches what exists and resize throw.
SendFile ==
    /\ at # "terminated"
    /\ tasks # <<>>
    /\ Head(tasks).kind = "file"
    /\ tasks' = Tail(tasks)
    /\ \E reading \in Readings(input.file) :
          \/ /\ reading \in {"length_error", "filesystem_error"}
             /\ at' = "terminated"
             /\ UNCHANGED fetched
          \/ /\ reading \in {"file", "404", "500"}
             /\ fetched' = Append(fetched, reading)
             /\ UNCHANGED at
    /\ UNCHANGED <<input, pieces, headers, tried, url_params, handled, answers>>

\* The callback of the async handle.
AsyncEvent ==
    /\ at = "idle"
    /\ fetched # <<>>
    /\ fetched' = Tail(fetched)
    /\ Answer(Head(fetched))
    /\ UNCHANGED <<input, pieces, at, headers, tried, url_params, tasks, handled>>

------------------------------------------------------------------------------
Next ==
    \/ ReadRequest
    \/ CheckSession
    \/ HandleStaticFile
    \/ NoStaticFile
    \/ TryRoute
    \/ Dispatch
    \/ PublicFolder
    \/ NotRouted
    \/ HandleRoute
    \/ SendFile
    \/ AsyncEvent

Spec == Init /\ [][Next]_vars

------------------------------------------------------------------------------
(***************************************************************************)
(* Properties                                                              *)
(***************************************************************************)
Bodies == [kind : {"dict"}, fields : UNION {[S -> {"plain", "the start", "the rest"}] :
                                               S \in SUBSET (0 .. Len(message.body.fields))}]
             \cup {Other}

Headers == [method : Methods \cup {""}, path : Seq(Segments), accept : BOOLEAN,
            cookie : {"none", "token", "junk"}, body : Bodies]

TypeOK ==
    /\ input \in AllInputs
    /\ pieces \in Seq({"whole", "head", "rest"})
    /\ at \in {"idle", "parsed", "checked", "matching", "matched", "down", "terminated"}
    /\ headers \in Headers
    /\ tried \in 0 .. Len(input.routes)
    /\ url_params \in Params
    /\ tasks \in Seq([kind : {"route"}, route : DOMAIN input.routes, params : Params, headers : Headers]
                         \cup {FileTask})
    /\ fetched \in Seq({"file", "404", "500"})
    /\ \A i \in DOMAIN handled : handled[i].params \in Params
    /\ \A i \in DOMAIN answers : answers[i].status \in {"200", "404", "405", "500", "file"}

\* The path has the form of the route, and its numbers are ints.
Fits(route, path) ==
    Shaped(route, path) /\ \A i \in DOMAIN path : ~Overflows(route, path, i)

Fitting == {r \in DOMAIN input.routes : Fits(input.routes[r], message.path)}

\* The file is read by a worker: it is registered and not in the cache, or it is
\* in the public folder and no route fits its path.
ReadFromDisk ==
    \/ input.target = "file"
    \/ input.target = "public" /\ Fitting = {}

\* The requests, files and templates that bring the server down are these: a
\* session cookie that is no token, a registered file asked for without
\* Accept-Encoding, a Content-Length that is no int, JSON that is not there with
\* its header, is cut by its length, is wrong or has more than one line, a file
\* that is to be read and cannot be looked at or has no size, and a template with
\* an elif.  No path, form, method or other order of reads does, nor a file that
\* is absent, does not open or does not read.
LoopSurvives ==
    at \in {"down", "terminated"} =>
        \/ message.cookie = "junk"
        \/ input.target \in {"file", "cached file"} /\ ~message.accept
        \/ message.length \in {"word", "too big"}
        \/ /\ message.type = "json"
           /\ message.length # "none"
           /\ \/ message.split \/ message.length \in {"zero", "short"}
              \/ message.body.kind # "json" \/ ~message.body.right \/ message.body.lines > 1
        \/ ReadFromDisk /\ input.file \in {"unsized", "out of reach"}
        \/ {"elif true", "elif false"} \cap Range(input.template) # {}

\* A handler gets the request for its route, which is the first that fits the
\* path, with its parameters as they stand in the path, and with the fields of a
\* form whose values have no ampersand and no line break.  Other parameters it
\* finds are those of an earlier route that had the form of the path and a number
\* beyond int.  (The rest of the body it never gets: `content` stays empty.)
HandlerGetsItsOwn ==
    \A n \in DOMAIN handled :
        LET h == handled[n]
            route == input.routes[h.route]
            path == message.path
            near == {r \in 1 .. h.route - 1 :
                        Shaped(input.routes[r], path) /\ ~Fits(input.routes[r], path)}
            names(r) == {input.routes[r].pattern[i].text : i \in ParamsOf(input.routes[r])}
        IN  /\ h.method \in route.methods
            /\ Fits(route, path)
            /\ \A r \in 1 .. h.route - 1 : ~Fits(input.routes[r], path)
            /\ \A i \in ParamsOf(route) :
                  h.params[route.pattern[i].text] = [type |-> route.pattern[i].type, value |-> path[i]]
                     \/ \E j \in ParamsOf(route) : j > i /\ route.pattern[j].text = route.pattern[i].text
            /\ DOMAIN h.params \ names(h.route) \subseteq UNION {names(r) : r \in near}
            /\ (/\ message.type = "form" /\ message.length = "right"
                /\ message.body.kind = "form" /\ Range(message.body.fields) \subseteq {"plain"}
                /\ ~message.split)
                  => h.form = message.body.fields

\* What is done with a request that came in one piece, once all is done.
Finished == at = "idle" /\ pieces = <<>> /\ tasks = <<>> /\ fetched = <<>> /\ ~message.split

\* The answers for a file on the disk.  (A directory may be taken for a file, and
\* one out of reach is not answered: LoopSurvives.)
AsOnDisk(status) ==
    CASE input.file = "readable" -> status = "file"
      [] input.file = "absent" -> status = "404"
      [] input.file = "unreadable" -> status = "500"
      [] input.file = "unsized" -> status \in {"file", "500"}
      [] input.file = "out of reach" -> FALSE

\* A request that comes in one read gets one answer, and it is the one it asked
\* for: the file or what is wrong with it, 404 if no route fits or the path is
\* refused, 405 by the first that does, 500 if the template cannot be rendered,
\* and else the page as its template is written.
\* (Of a request in two reads each is answered as a request.)
AnsweredAsAsked ==
    Finished =>
        LET a == answers[1]
            route == input.routes[Min(Fitting)]
        IN  /\ Len(answers) = 1
            /\ CASE ReadFromDisk -> AsOnDisk(a.status)
                 [] input.target = "cached file" -> a.status = "file"
                 [] input.target \in {"route", "dangerous"} /\ Fitting = {} -> a.status = "404"
                 [] OTHER ->
                       IF message.method \notin route.methods THEN a.status = "405"
                       ELSE IF RenderString(input.template).thrown THEN a.status = "500"
                       ELSE a.status = "200" /\ ShownAsWritten(input.template)
==============================================================================
