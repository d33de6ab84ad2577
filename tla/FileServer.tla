----------------------------- MODULE FileServer ------------------------------
(***************************************************************************)
(* Static files: _handle_static_file on the event loop, _send_file_worker  *)
(* on the threads of the pool, and file_cache_, which both use.            *)
(*                                                                         *)
(* A path is one under the public folder, served straight from the disk,   *)
(* until urlfor() registers it in routesFile; from then on it is looked up *)
(* in the cache first.  A content is the version of the file and whether   *)
(* its bytes are compressed.  There are as many threads as requests, so    *)
(* that closures start in any order.  What happens to the connection is in *)
(* HttpServer.  An exception that leaves a task ends the process.          *)
(***************************************************************************)
EXTENDS LruCache

CONSTANTS
    MaxVersion,         \* bound: versions of a file
    MaxRequests,        \* bound: requests for files
    MaxInFlight,        \* bound: requests in flight together
    Changing,           \* paths whose file changes while the server runs
    Compressible        \* paths whose type is no image and no download

ASSUME MaxVersionAssumption == MaxVersion \in Nat \ {0}
ASSUME ContentsAssumption == Contents = [version : 1 .. MaxVersion, gzip : BOOLEAN]
ASSUME RequestsAssumption == MaxRequests \in Nat /\ MaxInFlight \in Nat
ASSUME ChangingAssumption == Changing \subseteq Paths
ASSUME CompressibleAssumption == Compressible \subseteq Paths

Reqs == 1 .. MaxRequests

VARIABLES
    disk,               \* the version of each file, 0 when it cannot be opened
    routesFile,         \* HttpServer::routesFile
    loop,               \* the request between isInCache and get, or 0
    phase,              \* how far each request is
    asked,              \* the path of each request
    compress,           \* canCompress, isCompressible
    result,             \* resultData or cachedData of each request
    answer,             \* what each client was sent
    beside,             \* history: the requests in flight together with each
    uncompressed,       \* history: paths whose compression failed
    terminated          \* std::terminate was called

rvars == <<phase, asked, compress, result, answer, beside>>

\* What changes while the process runs.
fvars == <<cvars, disk, routesFile, loop, rvars, uncompressed>>
vars == <<fvars, terminated>>

Phases == {"none", "cached", "queued", "read", "fetched", "done"}

\* errorCode 0, -1 and -2, and a cachedData of nullptr.
Codes == {"ok", "notFound", "readError", "null"}

NoContent == [version |-> 0, gzip |-> FALSE]
Loaded(c) == [code |-> "ok", content |-> c]
Failure(code) == [code |-> code, content |-> NoContent]
NoAnswer == [status |-> "none", content |-> NoContent, gzip |-> FALSE]

Init ==
    /\ CacheInit
    /\ disk = [p \in Paths |-> 1]
    /\ routesFile = {}
    /\ loop = 0
    /\ phase = [r \in Reqs |-> "none"]
    /\ asked = [r \in Reqs |-> "none"]
    /\ compress = [r \in Reqs |-> FALSE]
    /\ result = [r \in Reqs |-> Failure("null")]
    /\ answer = [r \in Reqs |-> NoAnswer]
    /\ beside = [r \in Reqs |-> {}]
    /\ uncompressed = {}
    /\ terminated = FALSE

------------------------------------------------------------------------------
(***************************************************************************)
(* The files                                                               *)
(***************************************************************************)
Edit(p) ==
    /\ disk[p] \in 1 .. MaxVersion - 1
    /\ disk' = [disk EXCEPT ![p] = @ + 1]
    /\ UNCHANGED <<cvars, routesFile, loop, rvars, uncompressed>>

Delete(p) ==
    /\ disk[p] # 0
    /\ disk' = [disk EXCEPT ![p] = 0]
    /\ UNCHANGED <<cvars, routesFile, loop, rvars, uncompressed>>

------------------------------------------------------------------------------
(***************************************************************************)
(* The event loop                                                          *)
(***************************************************************************)
InFlight == {r \in Reqs : phase[r] \notin {"none", "done"}}

\* urlfor() in a handler or a template: addRouteFile, unless the path is there.
AddRouteFile(p) ==
    /\ p \notin routesFile
    /\ routesFile' = routesFile \cup {p}
    /\ UNCHANGED <<cvars, disk, loop, rvars, uncompressed>>

\* The next request r comes in, for path p.
Request(r, p, next) ==
    /\ loop = 0
    /\ Cardinality(InFlight) < MaxInFlight
    /\ phase[r] = "none"
    /\ \A q \in 1 .. r - 1 : phase[q] # "none"
    /\ phase' = [phase EXCEPT ![r] = next]
    /\ asked' = [asked EXCEPT ![r] = p]
    /\ beside' = [q \in Reqs |-> IF q = r THEN InFlight
                                 ELSE IF q \in InFlight THEN beside[q] \cup {r}
                                 ELSE beside[q]]
    /\ UNCHANGED <<disk, routesFile, result, answer, uncompressed>>

\* _handle_static_file for a path in routesFile, up to isInCache.
HandleStaticFile(r, p, gzip) ==
    /\ p \in routesFile
    /\ compress' = [compress EXCEPT ![r] = gzip /\ p \in Compressible]
    /\ \/ /\ IsInCache(p)
          /\ Request(r, p, "cached")
          /\ loop' = r
       \/ /\ ~IsInCache(p)
          /\ Request(r, p, "queued")
          /\ loop' = loop
    /\ UNCHANGED cvars

\* The rest of it: get, whose result waits for the AsyncEvent.
GetCached(r) ==
    LET p == asked[r]
    IN  /\ loop = r
        /\ result' = [result EXCEPT ![r] = IF IsInCache(p) THEN Loaded(Lookup(p)) ELSE Failure("null")]
        /\ Get(p)
        /\ phase' = [phase EXCEPT ![r] = "fetched"]
        /\ loop' = 0
        /\ UNCHANGED <<disk, routesFile, asked, compress, answer, beside, uncompressed>>

\* The public folder, which does not ask for Accept-Encoding or the cache.
HandlePublic(r, p) ==
    /\ p \notin routesFile
    /\ compress' = [compress EXCEPT ![r] = TRUE]
    /\ Request(r, p, "queued")
    /\ UNCHANGED <<cvars, loop>>

------------------------------------------------------------------------------
(***************************************************************************)
(* _send_file_worker, on a thread                                          *)
(***************************************************************************)
Finish(r, outcome, next) ==
    /\ phase' = [phase EXCEPT ![r] = next]
    /\ result' = [result EXCEPT ![r] = outcome]
    /\ UNCHANGED <<cvars, disk, routesFile, loop, asked, compress, answer, beside>>

\* Variant: the type of the file is looked at once more.
CompressesText(r) == compress[r] /\ asked[r] \in Compressible

Compresses(r) == compress[r]

\* Read the file as it is now, and compress it; when that fails the bytes
\* stay as they are.
ReadFile(r) ==
    LET p == asked[r]
    IN  /\ phase[r] = "queued"
        /\ disk[p] # 0
        /\ \E gzip \in {Compresses(r), FALSE} :
              /\ Finish(r, Loaded([version |-> disk[p], gzip |-> gzip]), "read")
              /\ uncompressed' = IF gzip = Compresses(r) THEN uncompressed
                                                         ELSE uncompressed \cup {p}

\* Variant: errorCode is not tested before the put.
CachedAnyway == "read"

NotCached == "fetched"

ReadFails(r) ==
    /\ phase[r] = "queued"
    /\ LET code == IF disk[asked[r]] = 0 THEN "notFound" ELSE "readError"
       IN  Finish(r, Failure(code), NotCached)
    /\ UNCHANGED uncompressed

\* Outside the try blocks, or not caught by them: `exists` throws for a path that
\* cannot be looked up, resize for a size that tellg could not tell.
TaskThrows(r) ==
    /\ ~terminated
    /\ phase[r] = "queued"
    /\ terminated' = TRUE
    /\ UNCHANGED fvars

\* file_cache_.put, then async->send().
CacheFile(r) ==
    /\ phase[r] = "read"
    /\ Put(asked[r], result[r].content)
    /\ phase' = [phase EXCEPT ![r] = "fetched"]
    /\ UNCHANGED <<disk, routesFile, loop, asked, compress, result, answer, beside,
                   uncompressed>>

------------------------------------------------------------------------------
(***************************************************************************)
(* The AsyncEvent                                                          *)
(***************************************************************************)

\* Variant: every error is a 404.
AllNotFound(code) == "404"

StatusOf(code) == IF code = "readError" THEN "500" ELSE "404"

AsyncEvent(r) ==
    /\ loop = 0
    /\ phase[r] = "fetched"
    /\ phase' = [phase EXCEPT ![r] = "done"]
    /\ answer' = [answer EXCEPT ![r] =
                    IF result[r].code = "ok"
                      THEN [status |-> "200", content |-> result[r].content, gzip |-> compress[r]]
                      ELSE [NoAnswer EXCEPT !.status = StatusOf(result[r].code)]]
    /\ result' = [result EXCEPT ![r] = Failure("null")]
    /\ UNCHANGED <<cvars, disk, routesFile, loop, asked, compress, beside, uncompressed>>

Step ==
    \/ \E p \in Changing : Edit(p) \/ Delete(p)
    \/ \E p \in Paths : AddRouteFile(p)
    \/ \E r \in Reqs, p \in Paths : \/ \E gzip \in BOOLEAN : HandleStaticFile(r, p, gzip)
                                   \/ HandlePublic(r, p)
    \/ \E r \in Reqs : \/ GetCached(r)
                       \/ ReadFile(r)
                       \/ ReadFails(r)
                       \/ CacheFile(r)
                       \/ AsyncEvent(r)

Running == ~terminated /\ terminated' = FALSE

Next ==
    \/ Running /\ Step
    \/ \E r \in Reqs : TaskThrows(r)

Spec == Init /\ [][Next]_vars

------------------------------------------------------------------------------
(***************************************************************************)
(* Properties                                                              *)
(***************************************************************************)
Answers ==
    [status : {"none", "200", "404", "500"}, content : Contents \cup {NoContent}, gzip : BOOLEAN]

\* Types; and what goes on to the cache was read without an error.
TypeOK ==
    /\ CacheTypeOK
    /\ disk \in [Paths -> 0 .. MaxVersion]
    /\ routesFile \subseteq Paths
    /\ loop \in Reqs \cup {0}
    /\ phase \in [Reqs -> Phases]
    /\ asked \in [Reqs -> Paths \cup {"none"}]
    /\ compress \in [Reqs -> BOOLEAN]
    /\ result \in [Reqs -> [code : Codes, content : Contents \cup {NoContent}]]
    /\ answer \in [Reqs -> Answers]
    /\ \A r \in Reqs : phase[r] = "read" => result[r].code = "ok"
    /\ beside \in [Reqs -> SUBSET Reqs]
    /\ uncompressed \subseteq Paths
    /\ terminated \in BOOLEAN

Served(r) == answer[r].status = "200"

\* A file that exists is answered with 404 only when the request for another one
\* was in flight, whose put could evict it between isInCache and get.
NotFoundOnlyByEviction ==
    \A r \in Reqs :
        answer[r].status = "404" /\ disk[asked[r]] # 0
          => \E q \in beside[r] : asked[q] # asked[r]

\* A file only gets newer for its readers, through evictions, repeated
\* entries and the change from public to registered, as long as no two of its
\* requests overlap and it fits into the cache.  (A slow worker can put an old
\* version over a new one; a public file that outgrew the cache leaves its
\* old version there, and a registered one is looked up.)
OnlyNewer ==
    \A p \in Paths :
        LET readers == {r \in Reqs : phase[r] # "none" /\ asked[r] = p}
            served == {r \in readers : Served(r)}
        IN  /\ \A r \in readers : beside[r] \cap readers = {}
            /\ \A r \in served : AdmittedSize(Size[answer[r].content])
            => \A q, r \in served :
                    q < r => answer[q].content.version <= answer[r].content.version

Encoded(r) == answer[r].content.gzip = answer[r].gzip

\* The Content-Encoding of an answer is that of its bytes, through the cache
\* as well, as long as all requests of the file agree and zlib succeeds.
EncodingTrueIfUniform ==
    \A r \in Reqs :
        /\ Served(r)
        /\ asked[r] \notin uncompressed
        /\ \A q \in Reqs : phase[q] # "none" /\ asked[q] = asked[r]
                             => compress[q] = compress[r]
        => Encoded(r)

\* server_handler_file.cpp:234, "Indicate compression if used", for a client
\* that is answered from the cache: the header is of this request, the bytes
\* are those another one had made.
CompressionIsIndicated ==
    \A r \in Reqs : Served(r) /\ asked[r] \notin uncompressed => Encoded(r)
==============================================================================
