-------------------------- MODULE FileServerProofs ---------------------------
(***************************************************************************)
(* Proofs about FileServer, for every set of paths, every number of        *)
(* versions, requests and requests in flight, and every budget.            *)
(***************************************************************************)
EXTENDS FileServer, LruCacheProofs

\* The types the argument needs; the cache has its own (Shape).
FileType ==
    /\ disk \in [Paths -> 0 .. MaxVersion]
    /\ routesFile \subseteq Paths
    /\ loop \in Reqs \cup {0}
    /\ phase \in [Reqs -> Phases]
    /\ asked \in [Reqs -> Paths \cup {"none"}]
    /\ compress \in [Reqs -> BOOLEAN]
    /\ result \in [Reqs -> [code : Codes, content : Contents \cup {NoContent}]]
    /\ answer \in [Reqs -> Answers]
    /\ uncompressed \subseteq Paths
    /\ \A r \in Reqs : phase[r] # "none" => asked[r] \in Paths
    /\ \A r \in Reqs : phase[r] = "none" => result[r].code = "null" /\ answer[r].status = "none"
    /\ \A r \in Reqs : result[r].code = "ok" => result[r].content \in Contents
    /\ \A r \in Reqs : phase[r] = "read" => result[r].code = "ok"
    /\ loop # 0 => phase[loop] = "cached"

\* Some request of p asked for the encoding c has.
Witnessed(p, c) ==
    \E q \in Reqs : phase[q] # "none" /\ asked[q] = p /\ compress[q] = c.gzip

\* As long as zlib succeeds, bytes in the cache, on their way and answered
\* have the encoding of some request of their path, and the header of an
\* answer is its own request's.
Provenance ==
    /\ \A p \in DOMAIN cacheMap : p \notin uncompressed => Witnessed(p, cacheMap[p].content)
    /\ \A r \in Reqs : result[r].code = "ok" /\ asked[r] \notin uncompressed
                         => Witnessed(asked[r], result[r].content)
    /\ \A r \in Reqs : Served(r) => answer[r].gzip = compress[r]
    /\ \A r \in Reqs : Served(r) /\ asked[r] \notin uncompressed
                         => Witnessed(asked[r], answer[r].content)

Inv == IInv /\ FileType /\ Provenance

------------------------------------------------------------------------------
(* What is asked of a path is never taken back.                             *)

LEMMA SameWitness ==
    ASSUME NEW p, NEW c, Witnessed(p, c), phase \in [Reqs -> Phases],
           asked' = asked, compress' = compress,
           \A r \in Reqs : phase[r] # "none" => phase'[r] # "none"
    PROVE  Witnessed(p, c)'
BY DEF Witnessed

\* A step that leaves the cache, the requests and their answers alone.
LEMMA OthersStep ==
    ASSUME Inv, UNCHANGED <<cvars, loop, rvars, uncompressed>>,
           disk' \in [Paths -> 0 .. MaxVersion], routesFile' \subseteq Paths
    PROVE  Inv'
<1>1. IInv'
  BY DEF Inv, IInv, Shape, Coherent, cvars
<1>2. FileType'
  BY DEF Inv, FileType, rvars
<1>3. Provenance'
  BY DEF Inv, Provenance, Witnessed, Served, rvars, cvars
<1> QED
  BY <1>1, <1>2, <1>3 DEF Inv

LEMMA RequestStep ==
    ASSUME Inv, NEW r \in Reqs, NEW p \in Paths, NEW next \in {"cached", "queued"},
           Request(r, p, next), UNCHANGED cvars,
           NEW b \in BOOLEAN, compress' = [compress EXCEPT ![r] = b],
           loop' = IF next = "cached" THEN r ELSE loop
    PROVE  Inv'
<1>1. IInv'
  BY DEF Inv, IInv, Shape, Coherent, cvars
<1>2. /\ phase[r] = "none" /\ result[r].code = "null" /\ answer[r].status = "none"
      /\ \A q \in Reqs : phase'[q] = IF q = r THEN next ELSE phase[q]
      /\ \A q \in Reqs : asked'[q] = IF q = r THEN p ELSE asked[q]
      /\ \A q \in Reqs : compress'[q] = IF q = r THEN b ELSE compress[q]
      /\ UNCHANGED <<disk, routesFile, result, answer, uncompressed>>
  BY DEF Inv, FileType, Request
<1>3. FileType'
  <2>1. /\ phase' \in [Reqs -> Phases]
        /\ asked' \in [Reqs -> Paths \cup {"none"}]
        /\ compress' \in [Reqs -> BOOLEAN]
    BY DEF Inv, FileType, Request, Phases
  <2>2. loop = 0 /\ loop' \in Reqs \cup {0} /\ (loop' # 0 => phase'[loop'] = "cached")
    BY <1>2 DEF Request
  <2>3. \A q \in Reqs : phase'[q] # "none" => asked'[q] \in Paths
    BY <1>2 DEF Inv, FileType
  <2>4. /\ \A q \in Reqs : phase'[q] = "none" => result'[q].code = "null" /\ answer'[q].status = "none"
        /\ \A q \in Reqs : result'[q].code = "ok" => result'[q].content \in Contents
        /\ \A q \in Reqs : phase'[q] = "read" => result'[q].code = "ok"
    BY <1>2 DEF Inv, FileType
  <2> QED
    BY <1>2, <2>1, <2>2, <2>3, <2>4 DEF Inv, FileType
<1>4. ASSUME NEW x, NEW c, Witnessed(x, c)
      PROVE  Witnessed(x, c)'
  <2>1. PICK q \in Reqs : phase[q] # "none" /\ asked[q] = x /\ compress[q] = c.gzip
    BY <1>4 DEF Witnessed
  <2> QED
    BY <1>2, <2>1 DEF Witnessed
<1>5. Provenance'
  <2>1. \A x \in DOMAIN cacheMap' : x \notin uncompressed' => Witnessed(x, cacheMap[x].content)'
    BY <1>2, <1>4 DEF Inv, Provenance, cvars
  <2>2. \A q \in Reqs : result'[q].code = "ok" \/ Served(q)' => q # r
    BY <1>2 DEF Served
  <2>3. \A q \in Reqs : result'[q].code = "ok" /\ asked'[q] \notin uncompressed'
                          => Witnessed(asked[q], result[q].content)'
    BY <1>2, <1>4, <2>2 DEF Inv, Provenance
  <2>4. \A q \in Reqs : Served(q)' => answer'[q].gzip = compress'[q]
    BY <1>2, <2>2 DEF Inv, Provenance, Served
  <2>5. \A q \in Reqs : Served(q)' /\ asked'[q] \notin uncompressed'
                          => Witnessed(asked[q], answer[q].content)'
    BY <1>2, <1>4, <2>2 DEF Inv, Provenance, Served
  <2> QED
    BY <1>2, <2>1, <2>2, <2>3, <2>4, <2>5 DEF Provenance, cvars, Witnessed
<1> QED
  BY <1>1, <1>3, <1>5 DEF Inv

LEMMA HandleStaticFileStep ==
    ASSUME Inv, NEW r \in Reqs, NEW p \in Paths, NEW gzip \in BOOLEAN,
           HandleStaticFile(r, p, gzip)
    PROVE  Inv'
<1>1. PICK b \in BOOLEAN : b = (gzip /\ p \in Compressible)
  OBVIOUS
<1>2. compress' = [compress EXCEPT ![r] = b] /\ UNCHANGED cvars
  BY <1>1 DEF HandleStaticFile
<1>3. PICK next \in {"cached", "queued"} :
          Request(r, p, next) /\ loop' = IF next = "cached" THEN r ELSE loop
  BY DEF HandleStaticFile
<1> QED
  BY <1>2, <1>3, RequestStep

LEMMA HandlePublicStep ==
    ASSUME Inv, NEW r \in Reqs, NEW p \in Paths, HandlePublic(r, p)
    PROVE  Inv'
<1>1. /\ compress' = [compress EXCEPT ![r] = TRUE]
      /\ UNCHANGED cvars
      /\ Request(r, p, "queued")
      /\ loop' = loop
  BY DEF HandlePublic
<1>2. PICK next \in {"cached", "queued"} : next = "queued"
  OBVIOUS
<1> QED
  BY <1>1, <1>2, RequestStep

------------------------------------------------------------------------------
(* A request that has come moves on with a result.                          *)

LEMMA ResultStep ==
    ASSUME Inv, IInv', NEW r \in Reqs, phase[r] # "none",
           NEW next \in Phases \ {"none"}, phase' = [phase EXCEPT ![r] = next],
           NEW x \in [code : Codes, content : Contents \cup {NoContent}],
           result' = [result EXCEPT ![r] = x],
           x.code = "ok" => x.content \in Contents,
           next = "read" => x.code = "ok",
           x.code = "ok" /\ asked[r] \notin uncompressed' => Witnessed(asked[r], x.content),
           uncompressed \subseteq uncompressed', uncompressed' \subseteq Paths,
           loop' = 0 \/ (loop' = loop /\ loop # r), cacheMap' = cacheMap,
           UNCHANGED <<disk, routesFile, asked, compress, answer>>
    PROVE  Inv'
<1>1. /\ \A q \in Reqs : phase'[q] = IF q = r THEN next ELSE phase[q]
      /\ \A q \in Reqs : result'[q] = IF q = r THEN x ELSE result[q]
  BY DEF Inv, FileType
<1>2. FileType'
  <2>1. /\ phase' \in [Reqs -> Phases]
        /\ result' \in [Reqs -> [code : Codes, content : Contents \cup {NoContent}]]
        /\ loop' \in Reqs \cup {0}
    BY DEF Inv, FileType
  <2>2. \A q \in Reqs : phase'[q] # "none" => asked'[q] \in Paths
    BY <1>1 DEF Inv, FileType
  <2>3. \A q \in Reqs : phase'[q] = "none" => result'[q].code = "null" /\ answer'[q].status = "none"
    BY <1>1 DEF Inv, FileType
  <2>4. /\ \A q \in Reqs : result'[q].code = "ok" => result'[q].content \in Contents
        /\ \A q \in Reqs : phase'[q] = "read" => result'[q].code = "ok"
    BY <1>1 DEF Inv, FileType
  <2>5. loop' # 0 => phase'[loop'] = "cached"
    BY <1>1, <2>1 DEF Inv, FileType
  <2> QED
    BY <2>1, <2>2, <2>3, <2>4, <2>5 DEF Inv, FileType
<1>3. ASSUME NEW p, NEW c, Witnessed(p, c)
      PROVE  Witnessed(p, c)'
  BY <1>1, <1>3 DEF Witnessed
<1>4. Provenance'
  <2>1. \A p \in DOMAIN cacheMap' :
            p \notin uncompressed' => Witnessed(p, cacheMap[p].content)'
    BY <1>3 DEF Inv, Provenance
  <2>2. \A q \in Reqs : result'[q].code = "ok" /\ asked'[q] \notin uncompressed'
                          => Witnessed(asked[q], result'[q].content)
    BY <1>1 DEF Inv, Provenance
  <2>3. \A q \in Reqs : result'[q].code = "ok" /\ asked'[q] \notin uncompressed'
                          => Witnessed(asked[q], result[q].content)'
    BY <1>1, <2>2 DEF Witnessed
  <2>4. \A q \in Reqs : Served(q)' => answer'[q].gzip = compress'[q]
    BY DEF Inv, Provenance, Served
  <2>5. \A q \in Reqs : Served(q)' /\ asked'[q] \notin uncompressed'
                          => Witnessed(asked[q], answer[q].content)'
    BY <1>3 DEF Inv, Provenance, Served
  <2> QED
    BY <2>1, <2>3, <2>4, <2>5 DEF Provenance, Witnessed
<1> QED
  BY <1>2, <1>4 DEF Inv

LEMMA GetCachedStep ==
    ASSUME Inv, NEW r \in Reqs, GetCached(r)
    PROVE  Inv'
<1>1. phase[r] = "cached" /\ asked[r] \in Paths
  BY DEF Inv, FileType, GetCached, Reqs
<1>2. IInv'
  BY <1>1, GetCoherent DEF Inv, GetCached
<1>3. PICK x : x = IF IsInCache(asked[r]) THEN Loaded(Lookup(asked[r])) ELSE Failure("null")
  OBVIOUS
<1>4. /\ x \in [code : Codes, content : Contents \cup {NoContent}]
      /\ x.code = "ok" => /\ x.content \in Contents
                          /\ asked[r] \notin uncompressed => Witnessed(asked[r], x.content)
  <2>1. CASE IsInCache(asked[r])
    <3>1. cacheMap[asked[r]].content \in Contents
      BY <2>1 DEF Inv, IInv, Shape, IsInCache, File
    <3>2. asked[r] \notin uncompressed => Witnessed(asked[r], cacheMap[asked[r]].content)
      BY <2>1 DEF Inv, Provenance, IsInCache
    <3>3. x = [code |-> "ok", content |-> cacheMap[asked[r]].content]
      BY <1>3, <2>1 DEF Loaded, Lookup
    <3> QED
      BY <3>1, <3>2, <3>3 DEF Codes
  <2>2. CASE ~IsInCache(asked[r])
    BY <1>3, <2>2 DEF Failure, Codes
  <2> QED
    BY <2>1, <2>2
<1>5. /\ phase' = [phase EXCEPT ![r] = "fetched"]
      /\ result' = [result EXCEPT ![r] = x]
      /\ loop' = 0 /\ cacheMap' = cacheMap /\ uncompressed' = uncompressed
      /\ UNCHANGED <<disk, routesFile, asked, compress, answer>>
  BY <1>3 DEF GetCached, Get
<1>6. PICK next \in Phases \ {"none"} : next = "fetched"
  BY DEF Phases
<1>7. uncompressed \subseteq Paths
  BY DEF Inv, FileType
<1> QED
  BY <1>1, <1>2, <1>4, <1>5, <1>6, <1>7, ResultStep

LEMMA ReadFileStep ==
    ASSUME Inv, NEW r \in Reqs, ReadFile(r)
    PROVE  Inv'
<1>1. phase[r] = "queued" /\ asked[r] \in Paths /\ disk[asked[r]] \in 1 .. MaxVersion
  BY DEF Inv, FileType, ReadFile
<1>2. PICK gzip \in {compress[r], FALSE} :
          /\ Finish(r, Loaded([version |-> disk[asked[r]], gzip |-> gzip]), "read")
          /\ uncompressed' = IF gzip = compress[r] THEN uncompressed
                                                   ELSE uncompressed \cup {asked[r]}
  BY DEF ReadFile, Compresses
<1>3. PICK c : c = [version |-> disk[asked[r]], gzip |-> gzip]
  OBVIOUS
<1>4. c \in Contents
  <2>1. gzip \in BOOLEAN
    BY DEF Inv, FileType
  <2> QED
    BY <1>1, <1>3, <2>1, ContentsAssumption
<1>5. PICK x : x = [code |-> "ok", content |-> c]
  OBVIOUS
<1>6. x \in [code : Codes, content : Contents \cup {NoContent}] /\ x.content \in Contents
  BY <1>4, <1>5 DEF Codes
<1>7. asked[r] \notin uncompressed' => Witnessed(asked[r], x.content)
  <2> SUFFICES ASSUME asked[r] \notin uncompressed'
               PROVE  compress[r] = gzip
    BY <1>1, <1>3, <1>5 DEF Witnessed
  <2> QED
    BY <1>2
<1>8. IInv' /\ cacheMap' = cacheMap
  BY <1>2 DEF Inv, IInv, Shape, Coherent, Finish, cvars
<1>9. /\ phase' = [phase EXCEPT ![r] = "read"]
      /\ result' = [result EXCEPT ![r] = x]
      /\ loop' = loop
      /\ UNCHANGED <<disk, routesFile, asked, compress, answer>>
  BY <1>2, <1>3, <1>5 DEF Finish, Loaded
<1>10. loop # r \/ loop = 0
  BY <1>1 DEF Inv, FileType
<1>11. uncompressed \subseteq uncompressed' /\ uncompressed' \subseteq Paths
  BY <1>1, <1>2 DEF Inv, FileType
<1>12. PICK next \in Phases \ {"none"} : next = "read"
  BY DEF Phases
<1> QED
  BY <1>1, <1>5, <1>6, <1>7, <1>8, <1>9, <1>10, <1>11, <1>12, ResultStep

LEMMA ReadFailsStep ==
    ASSUME Inv, NEW r \in Reqs, ReadFails(r)
    PROVE  Inv'
<1>1. PICK code \in {"notFound", "readError"} : Finish(r, Failure(code), "fetched")
  BY DEF ReadFails, NotCached
<1>2. PICK x : x = [code |-> code, content |-> NoContent]
  OBVIOUS
<1>3. x \in [code : Codes, content : Contents \cup {NoContent}] /\ x.code # "ok"
  BY <1>2 DEF Codes
<1>4. IInv' /\ cacheMap' = cacheMap
  BY <1>1 DEF Inv, IInv, Shape, Coherent, Finish, cvars
<1>5. /\ phase[r] = "queued" /\ uncompressed' = uncompressed
      /\ phase' = [phase EXCEPT ![r] = "fetched"]
      /\ result' = [result EXCEPT ![r] = x]
      /\ loop' = loop
      /\ UNCHANGED <<disk, routesFile, asked, compress, answer>>
  BY <1>1, <1>2 DEF Finish, Failure, ReadFails
<1>6. (loop # r \/ loop = 0) /\ uncompressed \subseteq Paths
  BY <1>5 DEF Inv, FileType
<1>7. PICK next \in Phases \ {"none"} : next = "fetched"
  BY DEF Phases
<1> QED
  BY <1>3, <1>4, <1>5, <1>6, <1>7, ResultStep

------------------------------------------------------------------------------
LEMMA PutContents ==
    ASSUME NEW key \in Paths, NEW content \in Contents, Put(key, content),
           NEW p \in DOMAIN cacheMap'
    PROVE  \/ p = key /\ cacheMap'[p].content = content
           \/ p \in DOMAIN cacheMap /\ cacheMap'[p] = cacheMap[p]
<1>1. CASE cacheMap' = cacheMap
  BY <1>1
<1>2. CASE cacheMap' # cacheMap
  <2>1. PICK lost : cacheMap' = SetFile(Erase(cacheMap, lost), [path |-> key, content |-> content])
    BY <1>2 DEF Put, RoomFirst, cvars
  <2>2. PICK left : left = Erase(cacheMap, lost)
    OBVIOUS
  <2>3. /\ DOMAIN left \subseteq DOMAIN cacheMap
        /\ \A q \in DOMAIN left : left[q] = cacheMap[q]
    BY <2>2 DEF Erase, Restrict
  <2> QED
    BY <2>1, <2>2, <2>3 DEF SetFile
<1> QED
  BY <1>1, <1>2

LEMMA CacheFileStep ==
    ASSUME Inv, NEW r \in Reqs, CacheFile(r)
    PROVE  Inv'
<1>1. /\ phase[r] = "read" /\ asked[r] \in Paths
      /\ result[r].code = "ok" /\ result[r].content \in Contents
  BY DEF Inv, FileType, CacheFile
<1>2. Put(asked[r], result[r].content)
  BY DEF CacheFile
<1>3. IInv'
  BY <1>1, <1>2, PutCoherent DEF Inv
<1>4. /\ \A q \in Reqs : phase'[q] = IF q = r THEN "fetched" ELSE phase[q]
      /\ UNCHANGED <<disk, routesFile, loop, asked, compress, result, answer, uncompressed>>
  BY DEF Inv, FileType, CacheFile
<1>5. FileType'
  <2>1. phase' \in [Reqs -> Phases]
    BY DEF Inv, FileType, CacheFile, Phases
  <2>2. loop # 0 => phase'[loop] = "cached"
    BY <1>1, <1>4 DEF Inv, FileType
  <2> QED
    BY <1>1, <1>4, <2>1, <2>2 DEF Inv, FileType
<1>6. ASSUME NEW p, NEW c, Witnessed(p, c)
      PROVE  Witnessed(p, c)'
  BY <1>1, <1>4, <1>6 DEF Witnessed
<1>7. Provenance'
  <2>1. ASSUME NEW p \in DOMAIN cacheMap', p \notin uncompressed
        PROVE  Witnessed(p, cacheMap'[p].content)
    <3>1. CASE p = asked[r] /\ cacheMap'[p].content = result[r].content
      BY <1>1, <2>1, <3>1 DEF Inv, Provenance
    <3>2. CASE p \in DOMAIN cacheMap /\ cacheMap'[p] = cacheMap[p]
      BY <2>1, <3>2 DEF Inv, Provenance
    <3> QED
      BY <1>1, <1>2, <3>1, <3>2, PutContents
  <2>2. \A p \in DOMAIN cacheMap' : p \notin uncompressed' => Witnessed(p, cacheMap[p].content)'
    BY <1>1, <1>4, <2>1 DEF Witnessed
  <2>3. /\ \A q \in Reqs : result'[q].code = "ok" /\ asked'[q] \notin uncompressed'
                            => Witnessed(asked[q], result[q].content)'
        /\ \A q \in Reqs : Served(q)' => answer'[q].gzip = compress'[q]
        /\ \A q \in Reqs : Served(q)' /\ asked'[q] \notin uncompressed'
                            => Witnessed(asked[q], answer[q].content)'
    BY <1>4, <1>6 DEF Inv, Provenance, Served
  <2> QED
    BY <2>2, <2>3 DEF Provenance, Witnessed
<1> QED
  BY <1>3, <1>5, <1>7 DEF Inv

LEMMA AsyncEventStep ==
    ASSUME Inv, NEW r \in Reqs, AsyncEvent(r)
    PROVE  Inv'
<1>1. /\ phase[r] = "fetched" /\ asked[r] \in Paths /\ loop = 0
      /\ \A q \in Reqs : phase'[q] = IF q = r THEN "done" ELSE phase[q]
      /\ \A q \in Reqs : result'[q] = IF q = r THEN Failure("null") ELSE result[q]
      /\ UNCHANGED <<cvars, disk, routesFile, loop, asked, compress, uncompressed>>
  BY DEF Inv, FileType, AsyncEvent
<1>2. PICK a : a = IF result[r].code = "ok"
                     THEN [status |-> "200", content |-> result[r].content, gzip |-> compress[r]]
                     ELSE [NoAnswer EXCEPT !.status = StatusOf(result[r].code)]
  OBVIOUS
<1>3. \A q \in Reqs : answer'[q] = IF q = r THEN a ELSE answer[q]
  BY <1>2 DEF Inv, FileType, AsyncEvent
<1>4. /\ a \in Answers
      /\ a.status = "200" => /\ result[r].code = "ok" /\ a.content = result[r].content
                             /\ a.gzip = compress[r]
  <2>1. CASE result[r].code = "ok"
    BY <1>2, <2>1 DEF Inv, FileType, Answers
  <2>2. CASE result[r].code # "ok"
    BY <1>2, <2>2 DEF NoAnswer, StatusOf, Answers
  <2> QED
    BY <2>1, <2>2
<1>5. IInv'
  BY <1>1 DEF Inv, IInv, Shape, Coherent, cvars
<1>6. Failure("null") \in [code : Codes, content : Contents \cup {NoContent}]
      /\ Failure("null").code = "null"
  BY DEF Failure, Codes
<1>7. FileType'
  <2>1. /\ phase' \in [Reqs -> Phases] /\ answer' \in [Reqs -> Answers]
        /\ result' \in [Reqs -> [code : Codes, content : Contents \cup {NoContent}]]
    <3>1. phase' \in [Reqs -> Phases]
      BY DEF Inv, FileType, AsyncEvent, Phases
    <3>2. answer' \in [Reqs -> Answers]
      BY <1>2, <1>4 DEF Inv, FileType, AsyncEvent
    <3>3. result' \in [Reqs -> [code : Codes, content : Contents \cup {NoContent}]]
      BY <1>6 DEF Inv, FileType, AsyncEvent
    <3> QED
      BY <3>1, <3>2, <3>3
  <2>2. /\ \A q \in Reqs : phase'[q] # "none" => asked'[q] \in Paths
        /\ \A q \in Reqs : phase'[q] = "none"
                            => result'[q].code = "null" /\ answer'[q].status = "none"
        /\ \A q \in Reqs : result'[q].code = "ok" => result'[q].content \in Contents
        /\ \A q \in Reqs : phase'[q] = "read" => result'[q].code = "ok"
    <3>1. /\ \A q \in Reqs : phase[q] # "none" => asked[q] \in Paths
          /\ \A q \in Reqs : phase[q] = "none" => result[q].code = "null" /\ answer[q].status = "none"
          /\ \A q \in Reqs : result[q].code = "ok" => result[q].content \in Contents
          /\ \A q \in Reqs : phase[q] = "read" => result[q].code = "ok"
      BY DEF Inv, FileType
    <3>2. \A q \in Reqs : phase'[q] # "none" => asked'[q] \in Paths
      BY <1>1, <3>1
    <3>3. \A q \in Reqs : phase'[q] = "none" => result'[q].code = "null" /\ answer'[q].status = "none"
      BY <1>1, <1>3, <3>1
    <3>4. \A q \in Reqs : result'[q].code = "ok" => result'[q].content \in Contents
      BY <1>1, <1>6, <3>1
    <3>5. \A q \in Reqs : phase'[q] = "read" => result'[q].code = "ok"
      BY <1>1, <3>1
    <3> QED
      BY <3>2, <3>3, <3>4, <3>5
  <2> QED
    BY <1>1, <2>1, <2>2 DEF Inv, FileType
<1>8. ASSUME NEW p, NEW c, Witnessed(p, c)
      PROVE  Witnessed(p, c)'
  BY <1>1, <1>8 DEF Witnessed
<1>9. Provenance'
  <2>1. \A p \in DOMAIN cacheMap' : p \notin uncompressed' => Witnessed(p, cacheMap[p].content)'
    BY <1>1, <1>8 DEF Inv, Provenance, cvars
  <2>2. \A q \in Reqs : result'[q].code = "ok" /\ asked'[q] \notin uncompressed'
                          => Witnessed(asked[q], result[q].content)'
    <3>1. \A q \in Reqs : result'[q].code = "ok" => q # r /\ result'[q] = result[q]
      BY <1>1, <1>6
    <3>2. \A q \in Reqs : result'[q].code = "ok" /\ asked'[q] \notin uncompressed'
                            => Witnessed(asked[q], result'[q].content)
      BY <1>1, <3>1 DEF Inv, Provenance
    <3> QED
      BY <1>1, <3>2 DEF Witnessed
  <2>3. \A q \in Reqs : Served(q)' => answer'[q].gzip = compress'[q]
    BY <1>1, <1>3, <1>4 DEF Inv, Provenance, Served
  <2>4. \A q \in Reqs : Served(q)' /\ asked'[q] \notin uncompressed'
                          => Witnessed(asked[q], answer[q].content)'
    <3>1. \A q \in Reqs : Served(q)' /\ asked'[q] \notin uncompressed'
                            => Witnessed(asked[q], answer'[q].content)
      BY <1>1, <1>3, <1>4 DEF Inv, Provenance, Served
    <3> QED
      BY <1>1, <3>1 DEF Witnessed
  <2> QED
    BY <2>1, <2>2, <2>3, <2>4 DEF Provenance, Witnessed
<1> QED
  BY <1>5, <1>7, <1>9 DEF Inv

------------------------------------------------------------------------------
LEMMA InitInv == Init => Inv
<1> SUFFICES ASSUME Init
             PROVE  Inv
  OBVIOUS
<1>1. IInv
  BY InitCoherent DEF Init
<1>2. FileType
  <2>1. disk \in [Paths -> 0 .. MaxVersion]
    BY MaxVersionAssumption DEF Init
  <2> QED
    BY <2>1 DEF Init, FileType, Failure, NoAnswer, Answers, Codes, Phases
<1>3. Provenance
  <2>1. DOMAIN cacheMap = {}
    BY DEF Init, CacheInit
  <2>2. \A r \in Reqs : result[r].code # "ok" /\ answer[r].status # "200"
    BY DEF Init, Failure, NoAnswer
  <2> QED
    BY <2>1, <2>2 DEF Provenance, Served
<1> QED
  BY <1>1, <1>2, <1>3 DEF Inv

\* A task that ends the process changes nothing else.
LEMMA WhileItRuns == [Next]_vars => [Step]_fvars
BY DEF Next, Running, TaskThrows, vars

LEMMA NextInv == Inv /\ [Next]_vars => Inv'
<1> SUFFICES ASSUME Inv, [Step]_fvars
             PROVE  Inv'
  BY WhileItRuns
<1>1. ASSUME NEW p \in Changing, Edit(p) \/ Delete(p)
      PROVE  Inv'
  <2>1. disk' \in [Paths -> 0 .. MaxVersion]
    <3>1. p \in Paths /\ disk \in [Paths -> 0 .. MaxVersion]
      BY ChangingAssumption DEF Inv, FileType
    <3>2. PICK v \in 0 .. MaxVersion : disk' = [disk EXCEPT ![p] = v]
      <4>1. CASE Edit(p)
        <5>1. disk[p] \in 1 .. MaxVersion - 1 /\ disk' = [disk EXCEPT ![p] = disk[p] + 1]
          BY <3>1, <4>1 DEF Edit
        <5>2. disk[p] + 1 \in 0 .. MaxVersion
          BY <5>1, MaxVersionAssumption
        <5> QED
          BY <5>1, <5>2
      <4>2. CASE Delete(p)
        <5>1. disk' = [disk EXCEPT ![p] = 0]
          BY <4>2 DEF Delete
        <5>2. 0 \in 0 .. MaxVersion
          BY MaxVersionAssumption
        <5> QED
          BY <5>1, <5>2
      <4> QED
        BY <1>1, <4>1, <4>2
    <3> QED
      BY <3>1, <3>2
  <2> QED
    BY <1>1, <2>1, OthersStep DEF Edit, Delete, Inv, FileType
<1>2. ASSUME NEW p \in Paths, AddRouteFile(p)
      PROVE  Inv'
  BY <1>2, OthersStep DEF AddRouteFile, Inv, FileType
<1>3. ASSUME NEW r \in Reqs, NEW p \in Paths, NEW gzip \in BOOLEAN, HandleStaticFile(r, p, gzip)
      PROVE  Inv'
  BY <1>3, HandleStaticFileStep
<1>4. ASSUME NEW r \in Reqs, NEW p \in Paths, HandlePublic(r, p)
      PROVE  Inv'
  BY <1>4, HandlePublicStep
<1>5. ASSUME NEW r \in Reqs, GetCached(r)
      PROVE  Inv'
  BY <1>5, GetCachedStep
<1>6. ASSUME NEW r \in Reqs, ReadFile(r)
      PROVE  Inv'
  BY <1>6, ReadFileStep
<1>7. ASSUME NEW r \in Reqs, ReadFails(r)
      PROVE  Inv'
  BY <1>7, ReadFailsStep
<1>8. ASSUME NEW r \in Reqs, CacheFile(r)
      PROVE  Inv'
  BY <1>8, CacheFileStep
<1>9. ASSUME NEW r \in Reqs, AsyncEvent(r)
      PROVE  Inv'
  BY <1>9, AsyncEventStep
<1>10. CASE UNCHANGED fvars
  BY <1>10, OthersStep DEF fvars, Inv, FileType
<1> QED
  BY <1>1, <1>2, <1>3, <1>4, <1>5, <1>6, <1>7, <1>8, <1>9, <1>10 DEF Step

\* Used by the loop and the threads together, the map and the list of the
\* cache agree, so that no put of a worker throws.
THEOREM CacheStaysCoherent == Spec => []Coherent
<1>1. Inv => Coherent
  BY DEF Inv, IInv
<1> QED
  BY <1>1, InitInv, NextInv, PTL DEF Spec

\* As long as all requests of a file agree and zlib succeeds, the header of
\* each answer is true of its bytes, whoever read and cached them.
THEOREM UniformEncodingIsTrue == Spec => []EncodingTrueIfUniform
<1>1. Inv => EncodingTrueIfUniform
  <2> SUFFICES ASSUME Inv, NEW r \in Reqs, Served(r), asked[r] \notin uncompressed,
                      \A q \in Reqs : phase[q] # "none" /\ asked[q] = asked[r]
                                          => compress[q] = compress[r]
               PROVE  Encoded(r)
    BY DEF EncodingTrueIfUniform
  <2>1. answer[r].gzip = compress[r]
    BY DEF Inv, Provenance
  <2>2. PICK q \in Reqs : /\ phase[q] # "none" /\ asked[q] = asked[r]
                          /\ compress[q] = answer[r].content.gzip
    BY DEF Inv, Provenance, Witnessed
  <2> QED
    BY <2>1, <2>2 DEF Encoded
<1> QED
  BY <1>1, InitInv, NextInv, PTL DEF Spec

------------------------------------------------------------------------------
(***************************************************************************)
(* What one step does to the requests, the cache and the disk: the files   *)
(* change, a request arrives, or a request that has come makes one move.   *)
(***************************************************************************)
Edits ==
    /\ phase' = phase /\ asked' = asked /\ result' = result /\ answer' = answer
    /\ beside' = beside /\ cacheMap' = cacheMap
    /\ \A p \in Paths : disk'[p] = 0 \/ (disk[p] # 0 /\ disk'[p] >= disk[p])

Arrives(r, p) ==
    /\ phase[r] = "none"
    /\ \A q \in 1 .. r - 1 : phase[q] # "none"
    /\ phase'[r] \in {"cached", "queued"} /\ asked'[r] = p
    /\ phase'[r] = "cached" => p \in DOMAIN cacheMap
    /\ \A q \in Reqs : q # r => phase'[q] = phase[q] /\ asked'[q] = asked[q]
    /\ \A q \in Reqs : beside'[q] = IF q = r THEN InFlight
                                    ELSE IF q \in InFlight THEN beside[q] \cup {r}
                                    ELSE beside[q]
    /\ disk' = disk /\ result' = result /\ answer' = answer /\ cacheMap' = cacheMap

OnlyMoves(r, from, to) ==
    /\ phase[r] = from /\ phase'[r] = to
    /\ \A q \in Reqs : q # r => /\ phase'[q] = phase[q] /\ result'[q] = result[q]
                                /\ answer'[q] = answer[q]
    /\ asked' = asked /\ beside' = beside /\ disk' = disk

Gets(r) ==
    /\ OnlyMoves(r, "cached", "fetched")
    /\ answer'[r] = answer[r] /\ cacheMap' = cacheMap
    /\ IF asked[r] \in DOMAIN cacheMap
         THEN result'[r].code = "ok" /\ result'[r].content = cacheMap[asked[r]].content
         ELSE result'[r].code = "null"

Reads(r) ==
    /\ OnlyMoves(r, "queued", "read")
    /\ answer'[r] = answer[r] /\ cacheMap' = cacheMap /\ disk[asked[r]] # 0
    /\ result'[r].code = "ok" /\ result'[r].content.version = disk[asked[r]]

Fails(r) ==
    /\ OnlyMoves(r, "queued", "fetched")
    /\ answer'[r] = answer[r] /\ cacheMap' = cacheMap
    /\ \/ result'[r].code = "notFound" /\ disk[asked[r]] = 0
       \/ result'[r].code = "readError"

Caches(r) ==
    /\ OnlyMoves(r, "read", "fetched")
    /\ answer'[r] = answer[r] /\ result'[r] = result[r]
    /\ \A p \in DOMAIN cacheMap' :
           \/ p = asked[r] /\ cacheMap'[p].content = result[r].content
           \/ p \in DOMAIN cacheMap /\ cacheMap'[p] = cacheMap[p]
    /\ AdmittedSize(Size[result[r].content])
         => asked[r] \in DOMAIN cacheMap' /\ cacheMap'[asked[r]].content = result[r].content
    /\ asked[r] \in DOMAIN cacheMap => asked[r] \in DOMAIN cacheMap'

Answered(r) ==
    /\ OnlyMoves(r, "fetched", "done")
    /\ result'[r].code = "null" /\ cacheMap' = cacheMap
    /\ IF result[r].code = "ok"
         THEN answer'[r].status = "200" /\ answer'[r].content = result[r].content
         ELSE answer'[r].status = IF result[r].code = "readError" THEN "500" ELSE "404"

Moves(r) == Gets(r) \/ Reads(r) \/ Fails(r) \/ Caches(r) \/ Answered(r)

LEMMA PutAdmitted ==
    ASSUME NEW key \in Paths, NEW content \in Contents, Put(key, content),
           AdmittedSize(Size[content])
    PROVE  key \in DOMAIN cacheMap' /\ cacheMap'[key].content = content
<1>1. PICK lost : cacheMap' = SetFile(Erase(cacheMap, lost), [path |-> key, content |-> content])
  BY DEF Put, RoomFirst
<1> QED
  BY <1>1 DEF SetFile

LEMMA RequestArrives ==
    ASSUME Inv, NEW r \in Reqs, NEW p \in Paths, NEW next \in {"cached", "queued"},
           Request(r, p, next), UNCHANGED cvars,
           next = "cached" => p \in DOMAIN cacheMap
    PROVE  Arrives(r, p)
<1>1. /\ phase \in [Reqs -> Phases] /\ asked \in [Reqs -> Paths \cup {"none"}]
  BY DEF Inv, FileType
<1>2. /\ phase' = [phase EXCEPT ![r] = next] /\ asked' = [asked EXCEPT ![r] = p]
      /\ phase[r] = "none" /\ \A q \in 1 .. r - 1 : phase[q] # "none"
      /\ disk' = disk /\ result' = result /\ answer' = answer
  BY DEF Request
<1>3. beside' = [q \in Reqs |-> IF q = r THEN InFlight
                                ELSE IF q \in InFlight THEN beside[q] \cup {r}
                                ELSE beside[q]]
  BY DEF Request
<1>4. \A q \in Reqs : beside'[q] = IF q = r THEN InFlight
                                   ELSE IF q \in InFlight THEN beside[q] \cup {r}
                                   ELSE beside[q]
  BY ONLY <1>3
<1>5. cacheMap' = cacheMap
  BY DEF cvars
<1> QED
  BY <1>1, <1>2, <1>4, <1>5 DEF Arrives

LEMMA GetCachedMoves ==
    ASSUME Inv, NEW r \in Reqs, GetCached(r)
    PROVE  Gets(r)
<1>1. PICK x : x = IF IsInCache(asked[r]) THEN Loaded(Lookup(asked[r])) ELSE Failure("null")
  OBVIOUS
<1>2. phase[r] = "cached"
  BY DEF Inv, FileType, GetCached, Reqs
<1>3. OnlyMoves(r, "cached", "fetched") /\ result'[r] = x /\ answer'[r] = answer[r]
  BY <1>1, <1>2 DEF GetCached, Inv, FileType, OnlyMoves
<1>4. cacheMap' = cacheMap
  BY DEF GetCached, Get
<1> QED
  BY <1>1, <1>3, <1>4 DEF Gets, IsInCache, Lookup, Loaded, Failure

LEMMA ReadFileMoves ==
    ASSUME Inv, NEW r \in Reqs, ReadFile(r)
    PROVE  Reads(r)
<1>1. PICK gzip : Finish(r, Loaded([version |-> disk[asked[r]], gzip |-> gzip]), "read")
  BY DEF ReadFile
<1>2. PICK x : x = Loaded([version |-> disk[asked[r]], gzip |-> gzip])
  OBVIOUS
<1>3. /\ phase[r] = "queued" /\ cacheMap' = cacheMap /\ disk[asked[r]] # 0
      /\ phase' = [phase EXCEPT ![r] = "read"] /\ result' = [result EXCEPT ![r] = x]
      /\ disk' = disk /\ asked' = asked /\ beside' = beside /\ answer' = answer
  BY <1>1, <1>2 DEF ReadFile, Finish, cvars
<1>4. OnlyMoves(r, "queued", "read") /\ result'[r] = x /\ answer'[r] = answer[r]
  BY <1>3 DEF Inv, FileType, OnlyMoves
<1> QED
  BY <1>2, <1>3, <1>4 DEF Reads, Loaded

LEMMA ReadFailsMoves ==
    ASSUME Inv, NEW r \in Reqs, ReadFails(r)
    PROVE  Fails(r)
<1>1. PICK code : /\ code = IF disk[asked[r]] = 0 THEN "notFound" ELSE "readError"
                  /\ Finish(r, Failure(code), "fetched")
  BY DEF ReadFails, NotCached
<1>2. PICK x : x = Failure(code)
  OBVIOUS
<1>3. /\ phase[r] = "queued" /\ cacheMap' = cacheMap
      /\ phase' = [phase EXCEPT ![r] = "fetched"] /\ result' = [result EXCEPT ![r] = x]
      /\ disk' = disk /\ asked' = asked /\ beside' = beside /\ answer' = answer
  BY <1>1, <1>2 DEF ReadFails, Finish, cvars
<1>4. OnlyMoves(r, "queued", "fetched") /\ result'[r] = x /\ answer'[r] = answer[r]
  BY <1>3 DEF Inv, FileType, OnlyMoves
<1> QED
  BY <1>1, <1>2, <1>3, <1>4 DEF Fails, Failure

LEMMA CacheFileMoves ==
    ASSUME Inv, NEW r \in Reqs, CacheFile(r)
    PROVE  Caches(r)
<1>1. /\ phase[r] = "read" /\ asked[r] \in Paths
      /\ result[r].code = "ok" /\ result[r].content \in Contents
      /\ Put(asked[r], result[r].content)
  BY DEF Inv, FileType, CacheFile
<1>2. OnlyMoves(r, "read", "fetched") /\ answer'[r] = answer[r] /\ result'[r] = result[r]
  BY <1>1 DEF Inv, FileType, CacheFile, OnlyMoves
<1>3. \A p \in DOMAIN cacheMap' :
          \/ p = asked[r] /\ cacheMap'[p].content = result[r].content
          \/ p \in DOMAIN cacheMap /\ cacheMap'[p] = cacheMap[p]
  BY <1>1, PutContents
<1>4. asked[r] \in DOMAIN cacheMap => asked[r] \in DOMAIN cacheMap'
  <2>1. ~AdmittedSize(Size[result[r].content]) => cacheMap' = cacheMap
    BY <1>1 DEF Put, cvars
  <2> QED
    BY <1>1, <2>1, PutAdmitted
<1> QED
  BY <1>1, <1>2, <1>3, <1>4, PutAdmitted DEF Caches

LEMMA AsyncEventMoves ==
    ASSUME Inv, NEW r \in Reqs, AsyncEvent(r)
    PROVE  Answered(r)
<1>1. PICK a : a = IF result[r].code = "ok"
                     THEN [status |-> "200", content |-> result[r].content, gzip |-> compress[r]]
                     ELSE [NoAnswer EXCEPT !.status = StatusOf(result[r].code)]
  OBVIOUS
<1>2. /\ answer' = [answer EXCEPT ![r] = a]
      /\ result' = [result EXCEPT ![r] = Failure("null")]
      /\ phase' = [phase EXCEPT ![r] = "done"] /\ phase[r] = "fetched"
      /\ disk' = disk /\ asked' = asked /\ beside' = beside /\ cacheMap' = cacheMap
  BY <1>1 DEF AsyncEvent, cvars
<1>3. OnlyMoves(r, "fetched", "done") /\ answer'[r] = a /\ result'[r].code = "null"
  BY <1>2 DEF Inv, FileType, OnlyMoves, Failure
<1> QED
  BY <1>1, <1>2, <1>3 DEF Answered, NoAnswer, StatusOf

LEMMA EveryStep ==
    ASSUME Inv, [Next]_vars
    PROVE  \/ Edits
           \/ \E r \in Reqs, p \in Paths : Arrives(r, p)
           \/ \E r \in Reqs : Moves(r)
<1>1. /\ disk \in [Paths -> 0 .. MaxVersion] /\ MaxVersion \in Nat
  BY MaxVersionAssumption DEF Inv, FileType
<1>2. CASE UNCHANGED fvars
  BY <1>1, <1>2 DEF fvars, rvars, cvars, Edits
<1>3. ASSUME NEW p \in Changing, Edit(p) \/ Delete(p)
      PROVE  Edits
  <2>1. /\ phase' = phase /\ asked' = asked /\ result' = result /\ answer' = answer
        /\ beside' = beside /\ cacheMap' = cacheMap
    BY <1>3 DEF Edit, Delete, rvars, cvars
  <2>2. CASE Edit(p)
    <3>1. disk[p] \in 1 .. MaxVersion - 1 /\ disk' = [disk EXCEPT ![p] = disk[p] + 1]
      BY <2>2 DEF Edit
    <3>2. \A q \in Paths : disk'[q] = 0 \/ (disk[q] # 0 /\ disk'[q] >= disk[q])
      BY <1>1, <3>1
    <3> QED
      BY <2>1, <3>2 DEF Edits
  <2>3. CASE Delete(p)
    <3>1. disk' = [disk EXCEPT ![p] = 0]
      BY <2>3 DEF Delete
    <3>2. \A q \in Paths : disk'[q] = 0 \/ (disk[q] # 0 /\ disk'[q] >= disk[q])
      BY <1>1, <3>1
    <3> QED
      BY <2>1, <3>2 DEF Edits
  <2> QED
    BY <1>3, <2>2, <2>3
<1>4. ASSUME NEW p \in Paths, AddRouteFile(p)
      PROVE  Edits
  BY <1>1, <1>4 DEF AddRouteFile, rvars, cvars, Edits
<1>5. ASSUME NEW r \in Reqs, NEW p \in Paths, NEW gzip \in BOOLEAN, HandleStaticFile(r, p, gzip)
      PROVE  Arrives(r, p)
  <2>1. PICK next \in {"cached", "queued"} :
            Request(r, p, next) /\ (next = "cached" => p \in DOMAIN cacheMap)
    BY <1>5 DEF HandleStaticFile, IsInCache
  <2> QED
    BY <1>5, <2>1, RequestArrives DEF HandleStaticFile
<1>6. ASSUME NEW r \in Reqs, NEW p \in Paths, HandlePublic(r, p)
      PROVE  Arrives(r, p)
  <2>1. PICK next \in {"cached", "queued"} : next = "queued" /\ Request(r, p, next)
    BY <1>6 DEF HandlePublic
  <2> QED
    BY <1>6, <2>1, RequestArrives DEF HandlePublic
<1>7. ASSUME NEW r \in Reqs,
             GetCached(r) \/ ReadFile(r) \/ ReadFails(r) \/ CacheFile(r) \/ AsyncEvent(r)
      PROVE  Moves(r)
  BY <1>7, GetCachedMoves, ReadFileMoves, ReadFailsMoves, CacheFileMoves, AsyncEventMoves DEF Moves
<1> QED
  BY <1>2, <1>3, <1>4, <1>5, <1>6, <1>7, WhileItRuns DEF Step

------------------------------------------------------------------------------
(***************************************************************************)
(* Requests come in order, and beside[r] holds every request that was in   *)
(* flight together with r.                                                 *)
(***************************************************************************)
ComeInOrder == \A q, r \in Reqs : q < r /\ phase[q] = "none" => phase[r] = "none"

LaterIsBeside == \A q, r \in Reqs : q < r /\ q \in InFlight /\ phase[r] # "none" => r \in beside[q]

TogetherIsBeside == \A q, r \in InFlight : q # r => q \in beside[r]

ResultInFlight == \A r \in Reqs : result[r].code = "ok" => phase[r] \in {"read", "fetched"}

BesideCame == \A r \in Reqs : \A q \in beside[r] : phase[q] # "none"

AnsweredWhenDone == \A r \in Reqs : answer[r].status # "none" => phase[r] = "done"

FlightInv ==
    /\ beside \in [Reqs -> SUBSET Reqs]
    /\ ComeInOrder
    /\ LaterIsBeside
    /\ TogetherIsBeside
    /\ BesideCame
    /\ ResultInFlight
    /\ AnsweredWhenDone

LEMMA FlightOfArrival ==
    ASSUME Inv, FlightInv, NEW r \in Reqs, NEW p, Arrives(r, p),
           beside' \in [Reqs -> SUBSET Reqs]
    PROVE  FlightInv'
<1>1. /\ \A q \in Reqs : q < r => phase[q] # "none"
      /\ \A q \in Reqs : r < q => phase[q] = "none"
  <2>1. \A q \in Reqs : q < r => q \in 1 .. r - 1
    BY DEF Reqs
  <2> QED
    BY <2>1 DEF Arrives, FlightInv, ComeInOrder
<1>2. ComeInOrder'
  BY <1>1 DEF Arrives, FlightInv, ComeInOrder, Reqs
<1>3. r \notin InFlight /\ \A q \in Reqs : q \in InFlight' <=> q = r \/ q \in InFlight
  BY DEF Arrives, InFlight
<1>4. /\ \A q \in InFlight : r \in beside'[q] /\ q \in beside'[r]
      /\ \A q, s \in Reqs : q # r /\ s \in beside[q] => s \in beside'[q]
  BY <1>3 DEF Arrives, InFlight
<1>5. LaterIsBeside'
  <2> SUFFICES ASSUME NEW q \in Reqs, NEW s \in Reqs, q < s, q \in InFlight', phase'[s] # "none"
               PROVE  s \in beside'[q]
    BY DEF LaterIsBeside
  <2>1. CASE s = r
    <3>1. q \in InFlight
      BY <1>3, <2>1 DEF Reqs
    <3> QED
      BY <1>4, <2>1, <3>1
  <2>2. CASE s # r
    <3>1. phase[s] # "none" /\ q # r
      BY <1>1, <2>2 DEF Arrives
    <3>2. s \in beside[q]
      BY <1>3, <3>1 DEF FlightInv, LaterIsBeside
    <3> QED
      BY <1>4, <3>1, <3>2
  <2> QED
    BY <2>1, <2>2
<1>6. TogetherIsBeside'
  <2> SUFFICES ASSUME NEW q \in InFlight', NEW s \in InFlight', q # s
               PROVE  q \in beside'[s]
    BY DEF TogetherIsBeside
  <2>1. q \in Reqs /\ s \in Reqs
    BY DEF InFlight
  <2>2. CASE q = r \/ s = r
    BY <1>3, <1>4, <2>1, <2>2
  <2>3. CASE q # r /\ s # r
    BY <1>3, <1>4, <2>1, <2>3 DEF FlightInv, TogetherIsBeside
  <2> QED
    BY <2>2, <2>3
<1>7. ResultInFlight' /\ AnsweredWhenDone'
  BY DEF Arrives, FlightInv, ResultInFlight, AnsweredWhenDone
<1>8. BesideCame'
  BY DEF Arrives, FlightInv, BesideCame, InFlight
<1> QED
  BY <1>2, <1>5, <1>6, <1>7, <1>8 DEF FlightInv

LEMMA FlightOfMove ==
    ASSUME Inv, FlightInv, NEW r \in Reqs, Moves(r)
    PROVE  FlightInv'
<1>1. /\ phase[r] \in {"cached", "queued", "read", "fetched"} /\ phase'[r] # "none"
      /\ \A q \in Reqs : q # r => phase'[q] = phase[q] /\ result'[q] = result[q]
                                  /\ answer'[q] = answer[q]
      /\ beside' = beside
  BY DEF Moves, Gets, Reads, Fails, Caches, Answered, OnlyMoves
<1>2. /\ \A q \in Reqs : phase'[q] = "none" <=> phase[q] = "none"
      /\ InFlight' \subseteq InFlight
  BY <1>1 DEF InFlight
<1>3. ComeInOrder' /\ LaterIsBeside' /\ TogetherIsBeside' /\ BesideCame'
  BY <1>1, <1>2 DEF FlightInv, ComeInOrder, LaterIsBeside, TogetherIsBeside, BesideCame
<1>4. /\ result'[r].code = "ok" => phase'[r] \in {"read", "fetched"}
      /\ answer'[r].status # "none" => phase'[r] = "done"
  BY DEF Moves, Gets, Reads, Fails, Caches, Answered, OnlyMoves, FlightInv,
         ResultInFlight, AnsweredWhenDone
<1>5. ResultInFlight' /\ AnsweredWhenDone'
  BY <1>1, <1>4 DEF FlightInv, ResultInFlight, AnsweredWhenDone
<1> QED
  BY <1>1, <1>3, <1>5 DEF FlightInv

LEMMA BesideTyped ==
    ASSUME beside \in [Reqs -> SUBSET Reqs], [Next]_vars
    PROVE  beside' \in [Reqs -> SUBSET Reqs]
<1>1. CASE beside' = beside
  BY <1>1
<1>2. CASE beside' # beside
  <2>1. PICK r \in Reqs, p \in Paths : HandlePublic(r, p) \/ \E gzip \in BOOLEAN : HandleStaticFile(r, p, gzip)
    BY <1>2, WhileItRuns DEF Step, fvars, rvars, Edit, Delete, AddRouteFile, GetCached, ReadFile, ReadFails,
                CacheFile, AsyncEvent, Finish
  <2>2. PICK next : Request(r, p, next)
    BY <2>1 DEF HandlePublic, HandleStaticFile
  <2>3. beside' = [q \in Reqs |-> IF q = r THEN InFlight
                                  ELSE IF q \in InFlight THEN beside[q] \cup {r}
                                  ELSE beside[q]]
    BY <2>2 DEF Request
  <2>4. InFlight \subseteq Reqs
    BY DEF InFlight
  <2>5. \A q \in Reqs : beside[q] \subseteq Reqs
    OBVIOUS
  <2> QED
    BY <2>3, <2>4, <2>5
<1> QED
  BY <1>1, <1>2

LEMMA NextFlight == Inv /\ FlightInv /\ [Next]_vars => FlightInv'
<1> SUFFICES ASSUME Inv, FlightInv, [Next]_vars
             PROVE  FlightInv'
  OBVIOUS
<1>1. beside' \in [Reqs -> SUBSET Reqs]
  BY BesideTyped DEF FlightInv
<1>2. CASE Edits
  BY <1>2 DEF Edits, FlightInv, ComeInOrder, LaterIsBeside, TogetherIsBeside, BesideCame,
              ResultInFlight, AnsweredWhenDone, InFlight
<1> QED
  BY <1>1, <1>2, EveryStep, FlightOfArrival, FlightOfMove

LEMMA InitFlight == Init => FlightInv
BY DEF Init, FlightInv, ComeInOrder, LaterIsBeside, TogetherIsBeside, BesideCame, ResultInFlight,
       AnsweredWhenDone, InFlight, Failure, NoAnswer

------------------------------------------------------------------------------
(***************************************************************************)
(* A request beside which no other path is asked for finds its own between *)
(* isInCache and get, and fails only when there is no file.                *)
(***************************************************************************)
Alone(r) == \A q \in beside[r] : asked[q] = asked[r]

Missed(r) == result[r].code \in {"null", "notFound"}

MissInv ==
    /\ \A r \in Reqs : phase[r] = "cached" /\ Alone(r) => asked[r] \in DOMAIN cacheMap
    /\ \A r \in Reqs : phase[r] = "fetched" /\ Alone(r) /\ Missed(r) => disk[asked[r]] = 0
    /\ NotFoundOnlyByEviction

LEMMA MissOfEdits ==
    ASSUME Inv, MissInv, FlightInv, Edits
    PROVE  MissInv'
<1>1. /\ phase' = phase /\ asked' = asked /\ result' = result /\ answer' = answer
      /\ beside' = beside /\ cacheMap' = cacheMap
  BY DEF Edits
<1>2. \A r \in Reqs : phase[r] # "none" /\ disk[asked[r]] = 0 => disk'[asked[r]] = 0
  BY DEF Edits, Inv, FileType
<1>3. \A r \in Reqs : answer[r].status = "404" => phase[r] # "none"
  BY DEF FlightInv, AnsweredWhenDone
<1> QED
  BY <1>1, <1>2, <1>3 DEF MissInv, Alone, Missed, NotFoundOnlyByEviction

LEMMA MissOfArrival ==
    ASSUME Inv, MissInv, FlightInv, NEW r \in Reqs, NEW p, Arrives(r, p)
    PROVE  MissInv'
<1>1. /\ phase[r] = "none" /\ phase'[r] \in {"cached", "queued"} /\ asked'[r] = p
      /\ phase'[r] = "cached" => p \in DOMAIN cacheMap
      /\ \A q \in Reqs : q # r => phase'[q] = phase[q] /\ asked'[q] = asked[q]
      /\ disk' = disk /\ result' = result /\ answer' = answer /\ cacheMap' = cacheMap
  BY DEF Arrives
<1>2. \A q \in Reqs : q # r /\ Alone(q)' => Alone(q)
  <2>1. \A q \in Reqs : r \notin beside[q] /\ beside[q] \subseteq Reqs
    BY <1>1 DEF FlightInv, BesideCame
  <2>2. \A q \in Reqs : q # r => beside[q] \subseteq beside'[q]
    BY DEF Arrives
  <2> QED
    BY <1>1, <2>1, <2>2 DEF Alone
<1>3. \A q \in Reqs : phase'[q] = "cached" /\ Alone(q)' => asked'[q] \in DOMAIN cacheMap'
  BY <1>1, <1>2 DEF MissInv
<1>4. \A q \in Reqs : phase'[q] = "fetched" /\ Alone(q)' /\ Missed(q)' => disk'[asked'[q]] = 0
  BY <1>1, <1>2 DEF MissInv, Missed
<1>5. answer[r].status = "none"
  BY <1>1 DEF Inv, FileType
<1>6. NotFoundOnlyByEviction'
  BY <1>1, <1>2, <1>5 DEF NotFoundOnlyByEviction, MissInv, Alone
<1> QED
  BY <1>3, <1>4, <1>6 DEF MissInv

LEMMA MissOfMove ==
    ASSUME Inv, MissInv, FlightInv, NEW r \in Reqs, Moves(r)
    PROVE  MissInv'
<1>1. /\ phase[r] \in {"cached", "queued", "read", "fetched"}
      /\ \A q \in Reqs : q # r => phase'[q] = phase[q] /\ result'[q] = result[q]
                                  /\ answer'[q] = answer[q]
      /\ asked' = asked /\ beside' = beside /\ disk' = disk
  BY DEF Moves, Gets, Reads, Fails, Caches, Answered, OnlyMoves
<1>2. ASSUME NEW q \in Reqs, phase'[q] = "cached", Alone(q)
      PROVE  asked[q] \in DOMAIN cacheMap'
  <2>1. q # r
    BY <1>2 DEF Moves, Gets, Reads, Fails, Caches, Answered, OnlyMoves
  <2>2. phase[q] = "cached" /\ asked[q] \in DOMAIN cacheMap
    BY <1>1, <1>2, <2>1 DEF MissInv
  <2>3. asked[r] = asked[q]
    BY <1>1, <1>2, <2>1, <2>2 DEF FlightInv, TogetherIsBeside, InFlight, Alone
  <2> QED
    BY <2>2, <2>3 DEF Moves, Gets, Reads, Fails, Caches, Answered
<1>3. ASSUME NEW q \in Reqs, phase'[q] = "fetched", Alone(q), Missed(q)'
      PROVE  disk[asked[q]] = 0
  <2>1. CASE q # r
    BY <1>1, <1>3, <2>1 DEF MissInv, Missed
  <2>2. CASE q = r /\ Gets(r)
    BY <1>3, <2>2 DEF MissInv, Missed, Gets, OnlyMoves
  <2>3. CASE q = r /\ Fails(r)
    BY <1>3, <2>3 DEF Missed, Fails
  <2>4. CASE q = r /\ Caches(r)
    BY <1>3, <2>4 DEF Missed, Caches, OnlyMoves, Inv, FileType
  <2> QED
    BY <1>3, <2>1, <2>2, <2>3, <2>4 DEF Moves, Reads, Answered, OnlyMoves
<1>4. ASSUME NEW q \in Reqs, answer'[q].status = "404", Alone(q)
      PROVE  disk[asked[q]] = 0
  <2>1. CASE answer'[q] = answer[q]
    BY <1>4, <2>1 DEF MissInv, NotFoundOnlyByEviction, Alone
  <2>2. CASE answer'[q] # answer[q]
    <3>1. q = r /\ Answered(r)
      BY <1>1, <2>2 DEF Moves, Gets, Reads, Fails, Caches
    <3>2. phase[r] = "fetched" /\ result[r].code \notin {"ok", "readError"}
      BY <1>4, <3>1 DEF Answered, OnlyMoves
    <3>3. Missed(r)
      BY <3>2 DEF Missed, Inv, FileType, Codes
    <3> QED
      BY <1>4, <3>1, <3>2, <3>3 DEF MissInv
  <2> QED
    BY <2>1, <2>2
<1>5. \A q \in Reqs : Alone(q)' <=> Alone(q)
  BY <1>1 DEF Alone
<1> QED
  BY <1>1, <1>2, <1>3, <1>4, <1>5 DEF MissInv, NotFoundOnlyByEviction, Alone

LEMMA NextMiss == Inv /\ FlightInv /\ MissInv /\ [Next]_vars => MissInv'
BY EveryStep, MissOfEdits, MissOfArrival, MissOfMove

LEMMA InitMiss == Init => MissInv
BY DEF Init, MissInv, NotFoundOnlyByEviction, NoAnswer

\* A client beside whose request no other file was asked for is told 404 only for
\* a file that is gone: what isInCache saw is still there when get asks.
THEOREM NotFoundTrue == Spec => []NotFoundOnlyByEviction
<1>1. MissInv => NotFoundOnlyByEviction
  BY DEF MissInv
<1> QED
  BY <1>1, InitInv, NextInv, InitFlight, NextFlight, InitMiss, NextMiss, PTL DEF Spec

------------------------------------------------------------------------------
(***************************************************************************)
(* No copy of a file is newer than the file.                               *)
(***************************************************************************)
OnDisk(p, c) == disk[p] # 0 => c.version <= disk[p]

DiskInv ==
    /\ \A p \in DOMAIN cacheMap : OnDisk(p, cacheMap[p].content)
    /\ \A r \in Reqs : result[r].code = "ok" => OnDisk(asked[r], result[r].content)
    /\ \A r \in Reqs : Served(r) => OnDisk(asked[r], answer[r].content)

LEMMA VersionsAreNumbers ==
    ASSUME Inv
    PROVE  /\ \A p \in Paths : disk[p] \in Nat
           /\ \A p \in DOMAIN cacheMap : p \in Paths /\ cacheMap[p].content.version \in Nat
           /\ \A r \in Reqs : result[r].content.version \in Nat
           /\ \A r \in Reqs : answer[r].content.version \in Nat
           /\ \A r \in Reqs : phase[r] # "none" => asked[r] \in Paths
<1>1. ASSUME NEW c \in Contents \cup {NoContent}
      PROVE  c.version \in Nat
  <2>1. CASE c \in Contents
    BY <2>1, ContentsAssumption, MaxVersionAssumption
  <2>2. CASE c = NoContent
    BY <2>2 DEF NoContent
  <2> QED
    BY <2>1, <2>2
<1>2. \A p \in Paths : disk[p] \in Nat
  BY MaxVersionAssumption DEF Inv, FileType
<1>3. \A p \in DOMAIN cacheMap : p \in Paths /\ cacheMap[p].content \in Contents
  BY DEF Inv, IInv, Shape, File
<1>4. \A r \in Reqs : result[r].content \in Contents \cup {NoContent}
  BY DEF Inv, FileType
<1>5. \A r \in Reqs : answer[r].content \in Contents \cup {NoContent}
  BY DEF Inv, FileType, Answers
<1>6. \A r \in Reqs : phase[r] # "none" => asked[r] \in Paths
  BY DEF Inv, FileType
<1> QED
  BY <1>1, <1>2, <1>3, <1>4, <1>5, <1>6

\* A copy stays as old as it is.
LEMMA DiskOfEdits ==
    ASSUME Inv, Inv', FlightInv, DiskInv, Edits
    PROVE  DiskInv'
<1>1. ASSUME NEW p \in Paths, NEW c, c.version \in Nat, OnDisk(p, c)
      PROVE  OnDisk(p, c)'
  <2>1. disk[p] \in Nat
    BY VersionsAreNumbers
  <2>2. disk'[p] = 0 \/ (disk[p] # 0 /\ disk'[p] >= disk[p])
    BY DEF Edits
  <2>3. disk'[p] \in Nat
    BY MaxVersionAssumption DEF Inv, FileType
  <2>4. disk'[p] # 0 => c.version <= disk[p]
    BY <1>1, <2>2 DEF OnDisk
  <2> QED
    BY <1>1, <2>1, <2>2, <2>3, <2>4 DEF OnDisk
<1> QED
  BY <1>1, VersionsAreNumbers DEF Edits, DiskInv, OnDisk, Served, FlightInv, ResultInFlight, AnsweredWhenDone

LEMMA DiskOfArrival ==
    ASSUME Inv, DiskInv, NEW r \in Reqs, NEW p, Arrives(r, p)
    PROVE  DiskInv'
<1>1. result[r].code # "ok" /\ ~Served(r)
  BY DEF Arrives, Inv, FileType, Served
<1> QED
  BY <1>1 DEF Arrives, DiskInv, OnDisk, Served

LEMMA DiskOfMove ==
    ASSUME Inv, DiskInv, NEW r \in Reqs, Moves(r)
    PROVE  DiskInv'
<1>1. /\ phase[r] \in {"cached", "queued", "read", "fetched"} /\ asked[r] \in Paths
      /\ \A q \in Reqs : q # r => result'[q] = result[q] /\ answer'[q] = answer[q]
      /\ asked' = asked /\ disk' = disk
  BY DEF Moves, Gets, Reads, Fails, Caches, Answered, OnlyMoves, Inv, FileType
<1>2. result'[r].code = "ok" => OnDisk(asked[r], result'[r].content)
  <2>1. CASE Gets(r)
    BY <2>1 DEF Gets, DiskInv
  <2>2. CASE Reads(r)
    BY <1>1, <2>2, VersionsAreNumbers DEF Reads, OnDisk
  <2>3. CASE Fails(r) \/ Answered(r)
    BY <2>3 DEF Fails, Answered
  <2>4. CASE Caches(r)
    BY <2>4 DEF Caches, DiskInv
  <2> QED
    BY <2>1, <2>2, <2>3, <2>4 DEF Moves
<1>3. answer'[r].status = "200" => OnDisk(asked[r], answer'[r].content)
  <2>1. CASE Answered(r)
    BY <2>1 DEF Answered, DiskInv
  <2>2. CASE answer'[r] = answer[r]
    BY <2>2 DEF DiskInv, Served
  <2> QED
    BY <2>1, <2>2 DEF Moves, Gets, Reads, Fails, Caches
<1>4. \A p \in DOMAIN cacheMap' : OnDisk(p, cacheMap'[p].content)
  <2>1. CASE cacheMap' = cacheMap
    BY <2>1 DEF DiskInv
  <2>2. CASE Caches(r)
    <3>1. result[r].code = "ok"
      BY <2>2 DEF Caches, OnlyMoves, Inv, FileType
    <3> QED
      BY <2>2, <3>1 DEF Caches, DiskInv
  <2> QED
    BY <2>1, <2>2 DEF Moves, Gets, Reads, Fails, Answered
<1>5. /\ \A q \in Reqs : result'[q].code = "ok" => OnDisk(asked[q], result'[q].content)
      /\ \A q \in Reqs : answer'[q].status = "200" => OnDisk(asked[q], answer'[q].content)
  BY <1>1, <1>2, <1>3 DEF DiskInv, Served
<1> QED
  BY <1>1, <1>4, <1>5 DEF DiskInv, OnDisk, Served

LEMMA NextDisk == Inv /\ FlightInv /\ DiskInv /\ [Next]_vars => DiskInv'
BY EveryStep, NextInv, DiskOfEdits, DiskOfArrival, DiskOfMove

LEMMA InitDisk == Init => DiskInv
<1> SUFFICES ASSUME Init
             PROVE  DiskInv
  OBVIOUS
<1>1. DOMAIN cacheMap = {}
  BY DEF Init, CacheInit
<1>2. \A r \in Reqs : result[r].code # "ok" /\ answer[r].status # "200"
  BY DEF Init, Failure, NoAnswer
<1> QED
  BY <1>1, <1>2 DEF DiskInv, Served

------------------------------------------------------------------------------
(***************************************************************************)
(* While the requests of a path stay apart and its file fits, what the     *)
(* readers have been given is no newer than what is in the cache or on its *)
(* way, and what has been put is in the cache or was thrown out.           *)
(***************************************************************************)
Readers(p) == {r \in Reqs : phase[r] # "none" /\ asked[r] = p}

Apart(p) ==
    /\ \A r \in Readers(p) : beside[r] \cap Readers(p) = {}
    /\ \A r \in Readers(p) : Served(r) => AdmittedSize(Size[answer[r].content])

Version(c) == c.version

ServedBeforeCached(p) ==
    \A r \in Readers(p) : Served(r) /\ p \in DOMAIN cacheMap
        => Version(answer[r].content) <= Version(cacheMap[p].content)

ServedBeforeResults(p) ==
    \A q, r \in Readers(p) : Served(q) /\ result[r].code = "ok"
        => Version(answer[q].content) <= Version(result[r].content)

FetchedBeforeCached(p) ==
    \A r \in Readers(p) :
        /\ phase[r] = "fetched" /\ result[r].code = "ok"
        /\ AdmittedSize(Size[result[r].content]) /\ p \in DOMAIN cacheMap
        => Version(result[r].content) <= Version(cacheMap[p].content)

ServedInOrder(p) ==
    \A q, r \in Readers(p) : Served(q) /\ Served(r) /\ q < r
        => Version(answer[q].content) <= Version(answer[r].content)

NewerOf(p) ==
    /\ ServedBeforeCached(p)
    /\ ServedBeforeResults(p)
    /\ FetchedBeforeCached(p)
    /\ ServedInOrder(p)

NewerInv == \A p \in Paths : Apart(p) => NewerOf(p)

LEMMA NewerOfEdits ==
    ASSUME NewerInv, Edits
    PROVE  NewerInv'
<1>1. /\ phase' = phase /\ asked' = asked /\ result' = result /\ answer' = answer
      /\ beside' = beside /\ cacheMap' = cacheMap
  BY DEF Edits
<1> QED
  BY <1>1 DEF NewerInv, Apart, NewerOf, ServedBeforeCached, ServedBeforeResults,
              FetchedBeforeCached, ServedInOrder, Readers, Served, Version

LEMMA NewerOfArrival ==
    ASSUME Inv, NewerInv, NEW r \in Reqs, NEW k, Arrives(r, k)
    PROVE  NewerInv'
<1> SUFFICES ASSUME NEW p \in Paths, Apart(p)'
             PROVE  NewerOf(p)'
  BY DEF NewerInv
<1>1. /\ phase[r] = "none" /\ phase'[r] \in {"cached", "queued"}
      /\ \A q \in Reqs : q # r => phase'[q] = phase[q] /\ asked'[q] = asked[q]
      /\ result' = result /\ answer' = answer /\ cacheMap' = cacheMap
  BY DEF Arrives
<1>2. result[r].code # "ok" /\ ~Served(r) /\ ~Served(r)'
  BY <1>1 DEF Inv, FileType, Served
<1>3. /\ r \notin Readers(p)
      /\ Readers(p) \subseteq Readers(p)' /\ Readers(p)' \subseteq Readers(p) \cup {r}
  BY <1>1 DEF Readers
<1>4. \A q \in Readers(p) : beside[q] \subseteq beside'[q]
  BY <1>3 DEF Arrives, Readers
<1>5. Apart(p)
  BY <1>1, <1>3, <1>4 DEF Apart, Served
<1>6. NewerOf(p)
  BY <1>5 DEF NewerInv
<1>7. ServedBeforeCached(p)' /\ ServedBeforeResults(p)'
  BY <1>1, <1>2, <1>3, <1>6 DEF NewerOf, ServedBeforeCached, ServedBeforeResults, Served, Version
<1>8. FetchedBeforeCached(p)'
  <2>1. \A q \in Readers(p)' : phase'[q] = "fetched" => q \in Readers(p) /\ phase[q] = "fetched"
    BY <1>1, <1>3 DEF Readers
  <2> QED
    BY <1>1, <1>6, <2>1 DEF NewerOf, FetchedBeforeCached, Version
<1>9. ServedInOrder(p)'
  BY <1>1, <1>2, <1>3, <1>6 DEF NewerOf, ServedInOrder, Served, Version
<1> QED
  BY <1>7, <1>8, <1>9 DEF NewerOf

\* A move keeps the readers, and readers that stay apart were apart.
LEMMA MoveKeepsReaders ==
    ASSUME Inv, FlightInv, NEW r \in Reqs, Moves(r), NEW p \in Paths, Apart(p)'
    PROVE  Apart(p) /\ Readers(p)' = Readers(p)
<1>1. /\ phase[r] # "none" /\ phase'[r] # "none"
      /\ \A q \in Reqs : q # r => phase'[q] = phase[q] /\ answer'[q] = answer[q]
      /\ asked' = asked /\ beside' = beside
  BY DEF Moves, Gets, Reads, Fails, Caches, Answered, OnlyMoves
<1>2. Readers(p)' = Readers(p)
  BY <1>1 DEF Readers
<1>3. answer[r].status = "none"
  BY DEF FlightInv, AnsweredWhenDone, Inv, FileType, Answers,
         Moves, Gets, Reads, Fails, Caches, Answered, OnlyMoves
<1>4. \A q \in Readers(p) : Served(q) => answer'[q] = answer[q]
  BY <1>1, <1>3 DEF Served, Readers
<1> QED
  BY <1>1, <1>2, <1>4 DEF Apart, Served

\* Two readers of a path whose requests stay apart are never both in flight.
LEMMA OneReaderInFlight ==
    ASSUME FlightInv, NEW p \in Paths, Apart(p),
           NEW q \in Readers(p), NEW r \in Readers(p), q \in InFlight, r \in InFlight
    PROVE  q = r
BY DEF FlightInv, TogetherIsBeside, Apart

LEMMA NewerOfGets ==
    ASSUME Inv, FlightInv, NewerInv, NEW r \in Reqs, Gets(r),
           NEW p \in Paths, Apart(p), Readers(p)' = Readers(p)
    PROVE  NewerOf(p)'
<1>1. NewerOf(p)
  BY DEF NewerInv
<1>2. /\ \A q \in Reqs : q # r => phase'[q] = phase[q] /\ result'[q] = result[q]
      /\ \A q \in Reqs : answer'[q] = answer[q]
      /\ cacheMap' = cacheMap
      /\ result'[r].code = "ok" => /\ asked[r] \in DOMAIN cacheMap
                                   /\ result'[r].content = cacheMap[asked[r]].content
  BY DEF Gets, OnlyMoves
<1>3. \A q \in Readers(p) : asked[q] = p /\ q \in Reqs
  BY DEF Readers
<1>4. ServedBeforeCached(p)' /\ ServedInOrder(p)'
  BY <1>1, <1>2, <1>3 DEF NewerOf, ServedBeforeCached, ServedInOrder, Served, Version
<1>5. ServedBeforeResults(p)'
  <2> SUFFICES ASSUME NEW q \in Readers(p), NEW s \in Readers(p),
                      Served(q), result'[s].code = "ok"
               PROVE  Version(answer[q].content) <= Version(result'[s].content)
    BY <1>2, <1>3 DEF ServedBeforeResults, Served, Version
  <2>1. CASE s = r
    BY <1>1, <1>2, <1>3, <2>1 DEF NewerOf, ServedBeforeCached
  <2>2. CASE s # r
    BY <1>1, <1>2, <1>3, <2>2 DEF NewerOf, ServedBeforeResults
  <2> QED
    BY <2>1, <2>2
<1>6. FetchedBeforeCached(p)'
  <2> SUFFICES ASSUME NEW s \in Readers(p), phase'[s] = "fetched", result'[s].code = "ok",
                      AdmittedSize(Size[result'[s].content]), p \in DOMAIN cacheMap
               PROVE  Version(result'[s].content) <= Version(cacheMap[p].content)
    BY <1>2 DEF FetchedBeforeCached, Version
  <2>1. CASE s = r
    <3>1. result'[r].content = cacheMap[p].content
      BY <1>2, <1>3, <2>1
    <3>2. Version(cacheMap[p].content) \in Nat
      BY VersionsAreNumbers DEF Version
    <3> QED
      BY <2>1, <3>1, <3>2
  <2>2. CASE s # r
    BY <1>1, <1>2, <1>3, <2>2 DEF NewerOf, FetchedBeforeCached
  <2> QED
    BY <2>1, <2>2
<1> QED
  BY <1>4, <1>5, <1>6 DEF NewerOf

LEMMA NewerOfReads ==
    ASSUME Inv, DiskInv, FlightInv, NewerInv, NEW r \in Reqs, Reads(r),
           NEW p \in Paths, Apart(p), Readers(p)' = Readers(p)
    PROVE  NewerOf(p)'
<1>1. NewerOf(p)
  BY DEF NewerInv
<1>2. /\ \A q \in Reqs : q # r => phase'[q] = phase[q] /\ result'[q] = result[q]
      /\ \A q \in Reqs : answer'[q] = answer[q]
      /\ cacheMap' = cacheMap /\ phase'[r] = "read"
      /\ Version(result'[r].content) = disk[asked[r]] /\ disk[asked[r]] # 0
  BY DEF Reads, OnlyMoves, Version
<1>3. \A q \in Readers(p) : asked[q] = p /\ q \in Reqs
  BY DEF Readers
<1>4. ServedBeforeCached(p)' /\ ServedInOrder(p)'
  BY <1>1, <1>2, <1>3 DEF NewerOf, ServedBeforeCached, ServedInOrder, Served, Version
<1>5. ServedBeforeResults(p)'
  <2> SUFFICES ASSUME NEW q \in Readers(p), NEW s \in Readers(p),
                      Served(q), result'[s].code = "ok"
               PROVE  Version(answer[q].content) <= Version(result'[s].content)
    BY <1>2, <1>3 DEF ServedBeforeResults, Served, Version
  <2>1. CASE s = r
    <3>1. OnDisk(p, answer[q].content)
      BY <1>3 DEF DiskInv
    <3> QED
      BY <1>2, <1>3, <2>1, <3>1 DEF OnDisk, Version
  <2>2. CASE s # r
    BY <1>1, <1>2, <1>3, <2>2 DEF NewerOf, ServedBeforeResults
  <2> QED
    BY <2>1, <2>2
<1>6. FetchedBeforeCached(p)'
  BY <1>1, <1>2, <1>3 DEF NewerOf, FetchedBeforeCached, Version
<1> QED
  BY <1>4, <1>5, <1>6 DEF NewerOf

LEMMA NewerOfFails ==
    ASSUME FlightInv, NewerInv, NEW r \in Reqs, Fails(r),
           NEW p \in Paths, Apart(p), Readers(p)' = Readers(p)
    PROVE  NewerOf(p)'
<1>1. NewerOf(p)
  BY DEF NewerInv
<1>2. /\ \A q \in Reqs : q # r => phase'[q] = phase[q] /\ result'[q] = result[q]
      /\ \A q \in Reqs : answer'[q] = answer[q]
      /\ cacheMap' = cacheMap /\ result'[r].code # "ok"
  BY DEF Fails, OnlyMoves
<1>3. \A q \in Readers(p) : q \in Reqs
  BY DEF Readers
<1> QED
  BY <1>1, <1>2, <1>3 DEF NewerOf, ServedBeforeCached, ServedBeforeResults,
                          FetchedBeforeCached, ServedInOrder, Served, Version

LEMMA NewerOfCaches ==
    ASSUME Inv, FlightInv, NewerInv, NEW r \in Reqs, Caches(r),
           NEW p \in Paths, Apart(p), Readers(p)' = Readers(p)
    PROVE  NewerOf(p)'
<1>1. NewerOf(p)
  BY DEF NewerInv
<1>2. /\ \A q \in Reqs : q # r => phase'[q] = phase[q]
      /\ \A q \in Reqs : answer'[q] = answer[q] /\ result'[q] = result[q]
      /\ phase[r] = "read" /\ phase'[r] = "fetched"
      /\ \A k \in DOMAIN cacheMap' :
             \/ k = asked[r] /\ cacheMap'[k].content = result[r].content
             \/ k \in DOMAIN cacheMap /\ cacheMap'[k] = cacheMap[k]
      /\ AdmittedSize(Size[result[r].content])
           => asked[r] \in DOMAIN cacheMap' /\ cacheMap'[asked[r]].content = result[r].content
  BY DEF Caches, OnlyMoves
<1>3. /\ \A q \in Readers(p) : asked[q] = p /\ q \in Reqs
      /\ asked[r] = p => r \in Readers(p)
      /\ result[r].code = "ok"
  BY <1>2 DEF Readers, Inv, FileType
<1>4. ServedBeforeResults(p)' /\ ServedInOrder(p)'
  BY <1>1, <1>2, <1>3 DEF NewerOf, ServedBeforeResults, ServedInOrder, Served, Version
<1>5. ServedBeforeCached(p)'
  <2> SUFFICES ASSUME NEW q \in Readers(p), Served(q), p \in DOMAIN cacheMap'
               PROVE  Version(answer[q].content) <= Version(cacheMap'[p].content)
    BY <1>2, <1>3 DEF ServedBeforeCached, Served, Version
  <2>1. CASE p = asked[r] /\ cacheMap'[p].content = result[r].content
    BY <1>1, <1>3, <2>1 DEF NewerOf, ServedBeforeResults
  <2>2. CASE p \in DOMAIN cacheMap /\ cacheMap'[p] = cacheMap[p]
    BY <1>1, <2>2 DEF NewerOf, ServedBeforeCached
  <2> QED
    BY <1>2, <2>1, <2>2
<1>6. FetchedBeforeCached(p)'
  <2> SUFFICES ASSUME NEW s \in Readers(p), phase'[s] = "fetched", result[s].code = "ok",
                      AdmittedSize(Size[result[s].content]), p \in DOMAIN cacheMap'
               PROVE  Version(result[s].content) <= Version(cacheMap'[p].content)
    BY <1>2, <1>3 DEF FetchedBeforeCached, Version
  <2>1. CASE s = r
    <3>1. cacheMap'[p].content = result[r].content
      BY <1>2, <1>3, <2>1
    <3>2. Version(result[r].content) \in Nat
      BY VersionsAreNumbers DEF Version
    <3> QED
      BY <2>1, <3>1, <3>2
  <2>2. CASE s # r
    <3>1. phase[s] = "fetched" /\ s \in InFlight /\ r \in InFlight
      BY <1>2, <1>3, <2>2 DEF InFlight
    <3>2. asked[r] # p
      BY <1>3, <2>2, <3>1, OneReaderInFlight
    <3>3. p \in DOMAIN cacheMap /\ cacheMap'[p] = cacheMap[p]
      BY <1>2, <3>2
    <3> QED
      BY <1>1, <3>1, <3>3 DEF NewerOf, FetchedBeforeCached
  <2> QED
    BY <2>1, <2>2
<1> QED
  BY <1>4, <1>5, <1>6 DEF NewerOf

LEMMA NewerOfAnswered ==
    ASSUME Inv, FlightInv, NewerInv, NEW r \in Reqs, Answered(r),
           NEW p \in Paths, Apart(p), Apart(p)', Readers(p)' = Readers(p)
    PROVE  NewerOf(p)'
<1>1. NewerOf(p)
  BY DEF NewerInv
<1>2. /\ \A q \in Reqs : q # r => /\ phase'[q] = phase[q] /\ answer'[q] = answer[q]
                                  /\ result'[q] = result[q]
      /\ phase[r] = "fetched" /\ phase'[r] = "done"
      /\ result'[r].code = "null" /\ cacheMap' = cacheMap
      /\ answer'[r].status = "200" => /\ result[r].code = "ok"
                                      /\ answer'[r].content = result[r].content
  BY DEF Answered, OnlyMoves
<1>3. /\ \A q \in Readers(p) : asked[q] = p /\ q \in Reqs
      /\ r \in InFlight
  BY <1>2 DEF Readers, InFlight
<1>4. FetchedBeforeCached(p)'
  BY <1>1, <1>2, <1>3 DEF NewerOf, FetchedBeforeCached, Version
<1>5. ServedBeforeCached(p)'
  <2> SUFFICES ASSUME NEW q \in Readers(p), answer'[q].status = "200", p \in DOMAIN cacheMap
               PROVE  Version(answer'[q].content) <= Version(cacheMap[p].content)
    BY <1>2, <1>3 DEF ServedBeforeCached, Served, Version
  <2>1. CASE q = r
    <3>1. AdmittedSize(Size[result[r].content])
      BY <1>2, <2>1 DEF Apart, Served
    <3> QED
      BY <1>1, <1>2, <2>1, <3>1 DEF NewerOf, FetchedBeforeCached
  <2>2. CASE q # r
    BY <1>1, <1>2, <1>3, <2>2 DEF NewerOf, ServedBeforeCached, Served
  <2> QED
    BY <2>1, <2>2
<1>6. ServedBeforeResults(p)'
  <2> SUFFICES ASSUME NEW q \in Readers(p), NEW s \in Readers(p),
                      answer'[q].status = "200", result'[s].code = "ok"
               PROVE  Version(answer'[q].content) <= Version(result'[s].content)
    BY <1>2, <1>3 DEF ServedBeforeResults, Served, Version
  <2>1. s # r /\ result'[s] = result[s] /\ result[s].code = "ok" /\ s \in InFlight
    BY <1>2, <1>3 DEF FlightInv, ResultInFlight, InFlight
  <2>2. CASE q = r
    BY <1>3, <2>1, <2>2, OneReaderInFlight
  <2>3. CASE q # r
    BY <1>1, <1>2, <1>3, <2>1, <2>3 DEF NewerOf, ServedBeforeResults, Served
  <2> QED
    BY <2>2, <2>3
<1>7. ServedInOrder(p)'
  <2> SUFFICES ASSUME NEW q \in Readers(p), NEW s \in Readers(p), q < s,
                      answer'[q].status = "200", answer'[s].status = "200"
               PROVE  Version(answer'[q].content) <= Version(answer'[s].content)
    BY <1>2, <1>3 DEF ServedInOrder, Served, Version
  <2>1. CASE q = r
    <3>1. phase[s] # "none" /\ s \in Reqs /\ q \in InFlight
      BY <1>3, <2>1 DEF Readers
    <3>2. s \in beside[q]
      BY <1>3, <3>1 DEF FlightInv, LaterIsBeside
    <3> QED
      BY <3>2 DEF Apart
  <2>2. CASE s = r
    <3>1. q # r
      BY <1>3, <2>2 DEF Reqs
    <3> QED
      BY <1>1, <1>2, <1>3, <2>2, <3>1 DEF NewerOf, ServedBeforeResults, Served
  <2>3. CASE q # r /\ s # r
    BY <1>1, <1>2, <1>3, <2>3 DEF NewerOf, ServedInOrder, Served
  <2> QED
    BY <2>1, <2>2, <2>3
<1> QED
  BY <1>4, <1>5, <1>6, <1>7 DEF NewerOf

LEMMA NewerOfMove ==
    ASSUME Inv, DiskInv, FlightInv, NewerInv, NEW r \in Reqs, Moves(r)
    PROVE  NewerInv'
<1> SUFFICES ASSUME NEW p \in Paths, Apart(p)'
             PROVE  NewerOf(p)'
  BY DEF NewerInv
<1>1. Apart(p) /\ Readers(p)' = Readers(p)
  BY MoveKeepsReaders
<1> QED
  BY <1>1, NewerOfGets, NewerOfReads, NewerOfFails, NewerOfCaches, NewerOfAnswered DEF Moves

LEMMA NextNewer == Inv /\ FlightInv /\ DiskInv /\ NewerInv /\ [Next]_vars => NewerInv'
BY EveryStep, NewerOfEdits, NewerOfArrival, NewerOfMove

LEMMA InitNewer == Init => NewerInv
BY DEF Init, NewerInv, Readers, NewerOf, ServedBeforeCached, ServedBeforeResults,
       FetchedBeforeCached, ServedInOrder

LEMMA NewerServed == NewerInv => OnlyNewer
<1> SUFFICES ASSUME NewerInv, NEW p \in Paths,
                    \A r \in Readers(p) : beside[r] \cap Readers(p) = {},
                    \A r \in {s \in Readers(p) : Served(s)} : AdmittedSize(Size[answer[r].content])
             PROVE  \A q, r \in {s \in Readers(p) : Served(s)} :
                        q < r => answer[q].content.version <= answer[r].content.version
  BY DEF OnlyNewer, Readers
<1>1. Apart(p)
  BY DEF Apart
<1> QED
  BY <1>1 DEF NewerInv, NewerOf, ServedInOrder, Version

\* A reader of a file whose requests do not overlap, and which fits, is never
\* given an older version than the reader before, whatever is evicted,
\* repeated in the list or registered meanwhile.
THEOREM FilesOnlyGetNewer == Spec => []OnlyNewer
BY InitInv, NextInv, InitFlight, NextFlight, InitDisk, NextDisk, InitNewer, NextNewer,
   NewerServed, PTL DEF Spec

------------------------------------------------------------------------------
LEMMA NextCacheTypes == Inv /\ CacheTypeOK /\ [Next]_vars => CacheTypeOK'
<1> SUFFICES ASSUME Inv, CacheTypeOK, [Next]_vars
             PROVE  CacheTypeOK'
  OBVIOUS
<1>1. CASE UNCHANGED cvars
  BY <1>1 DEF cvars, CacheTypeOK
<1>2. ASSUME NEW r \in Reqs, GetCached(r)
      PROVE  CacheTypeOK'
  <2>1. asked[r] \in Paths
    BY <1>2 DEF Inv, FileType, GetCached, Reqs
  <2> QED
    BY <1>2, <2>1, GetTypes DEF Inv, GetCached
<1>3. ASSUME NEW r \in Reqs, CacheFile(r)
      PROVE  CacheTypeOK'
  <2>1. asked[r] \in Paths /\ result[r].content \in Contents
    BY <1>3 DEF Inv, FileType, CacheFile
  <2> QED
    BY <1>3, <2>1, PutTypes DEF Inv, CacheFile
<1>4. CASE ~UNCHANGED cvars
  <2>1. \E r \in Reqs : GetCached(r) \/ CacheFile(r)
    BY <1>4, WhileItRuns DEF Step, fvars, Edit, Delete, AddRouteFile, HandleStaticFile, HandlePublic, ReadFile,
                ReadFails, AsyncEvent, Finish
  <2> QED
    BY <1>2, <1>3, <2>1
<1> QED
  BY <1>1, <1>4

\* Every variable keeps its type: nothing goes into the cache that it does not
\* admit, and what goes on to it was read without an error.
THEOREM TypeCorrect == Spec => []TypeOK
<1>1. Init => CacheTypeOK
  BY DEF Init, CacheInit, CacheTypeOK
<1>2. Inv /\ FlightInv /\ CacheTypeOK /\ terminated \in BOOLEAN => TypeOK
  BY DEF Inv, FileType, FlightInv, TypeOK
<1>3. Init => terminated \in BOOLEAN
  BY Zenon DEF Init
<1>4. terminated \in BOOLEAN /\ [Next]_vars => (terminated \in BOOLEAN)'
  BY Zenon DEF Next, Running, TaskThrows, vars
<1> QED
  BY <1>1, <1>2, <1>3, <1>4, InitInv, NextInv, InitFlight, NextFlight, NextCacheTypes, PTL DEF Spec

\* The count of bytes holds with the loop and the workers on the cache, each
\* call being one step: currentSize never wraps and stays in the budget.
THEOREM BudgetKeptByAll == Spec => []WithinBudget
<1>1. Inv /\ WithinBudget /\ [Next]_vars => WithinBudget'
  <2> SUFFICES ASSUME Inv, WithinBudget, [Next]_vars
               PROVE  WithinBudget'
    OBVIOUS
  <2>1. CASE UNCHANGED cvars
    <3>1. Bytes(cacheList, Len(cacheList))' = Bytes(cacheList, Len(cacheList))
      BY <2>1 DEF cvars, Bytes
    <3> QED
      BY <2>1, <3>1 DEF cvars, WithinBudget
  <2>2. ASSUME NEW r \in Reqs, GetCached(r)
        PROVE  WithinBudget'
    <3>1. asked[r] \in Paths
      BY <2>2 DEF Inv, FileType, GetCached, Reqs
    <3> QED
      BY <2>2, <3>1, GetBudget DEF Inv, GetCached
  <2>3. ASSUME NEW r \in Reqs, CacheFile(r)
        PROVE  WithinBudget'
    <3>1. asked[r] \in Paths /\ result[r].content \in Contents
      BY <2>3 DEF Inv, FileType, CacheFile
    <3> QED
      BY <2>3, <3>1, PutBudget DEF Inv, CacheFile
  <2>4. CASE ~UNCHANGED cvars
    <3>1. \E r \in Reqs : GetCached(r) \/ CacheFile(r)
      BY <2>4, WhileItRuns DEF Step, fvars, Edit, Delete, AddRouteFile, HandleStaticFile, HandlePublic,
                  ReadFile, ReadFails, AsyncEvent, Finish
    <3> QED
      BY <2>2, <2>3, <3>1
  <2> QED
    BY <2>1, <2>4
<1>2. Init => WithinBudget
  BY InitBudget DEF Init
<1> QED
  BY <1>1, <1>2, InitInv, NextInv, PTL DEF Spec

==============================================================================
