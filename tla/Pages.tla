-------------------------------- MODULE Pages ---------------------------------
(***************************************************************************)
(* Handlers on several workers render pages: the cache of parsed templates *)
(* and its time stamps (templating.cpp), and the file routes that          *)
(* {{ urlfor(...) }} adds while a page is rendered (server.hpp).  Neither  *)
(* takes a lock.  Other programs write and delete the files.               *)
(*                                                                         *)
(* The n-th write of a file has version n, and a text, of which only what  *)
(* it makes the engine call matters here (TemplateOf in TemplateBlocks).   *)
(* A worker has a stack of calls still to be made; a step is one call on   *)
(* the file system, the cache or routesFile.                               *)
(***************************************************************************)
EXTENDS Naturals, Sequences, Functions

CONSTANTS
    Workers,            \* threads that run handlers
    Text,               \* the texts of each file, written in turn
    MaxWrites,          \* bound on the writes of each file
    MaxTime,            \* bound on the clock of the file system
    MaxRenders          \* bound on the pages each worker renders

\* A page may include the part, which includes nothing.
Files == {"page", "part"}
Part == "part"

\* What parsing and rendering a text calls: generateCache for so many includes,
\* until the end or an error; then includes and links in this order, until the
\* end or an error.
Templates == [includes : Nat, parsed : BOOLEAN, effects : Seq({"include", "link"}), thrown : BOOLEAN]

\* A file that is included has been parsed before it is rendered.
ASSUME TextAssumption ==
    /\ Text \in [Files -> Seq(Templates) \ {<<>>}]
    /\ \A f \in Files : \A n \in DOMAIN Text[f] :
          /\ Text[f][n].includes = 0 => "include" \notin Range(Text[f][n].effects)
          /\ f = Part => Text[f][n].includes = 0

ASSUME BoundsAssumption == {MaxWrites, MaxTime, MaxRenders} \subseteq Nat \ {0}

VARIABLES
    disk,               \* each file: whether it is there, its version and time
    clock,              \* the time, in ticks of last_write_time
    cachedTemplating,   \* the cache: a map over some files
    routesFile,         \* the paths that may be fetched; a file links to its own
    calls,              \* the calls each worker has still to make
    page,               \* the page each worker renders, or rendered last
    renders,            \* how many pages each worker has begun
    raced,              \* history: files written between the read and the stamp
                        \* of generateCache, or twice in one tick of the clock
    overlapped,         \* history: files that two workers generated at once
    clashed             \* history: two workers appended to routesFile at once

vars == <<disk, clock, cachedTemplating, routesFile, calls, page, renders, raced,
          overlapped, clashed>>

Versions == 1 .. MaxWrites

TextOf(f, v) == Text[f][((v - 1) % Len(Text[f])) + 1]

\* `seen` is history: the version of the part when the file was opened.
Entries == [version : Versions, stamp : 1 .. MaxTime, seen : 0 .. MaxWrites]

NoPage == [file |-> Part, status |-> "none", asked |-> 0, root |-> 0, seen |-> 0,
           part |-> 0, links |-> {}]

Pages == [file : Files, status : {"none", "rendering", "served", "error"},
          asked : 0 .. MaxWrites, root : 0 .. MaxWrites, seen : 0 .. MaxWrites,
          part : 0 .. MaxWrites, links : SUBSET Files]

Call(name, f) == [call |-> name, file |-> f]
Check(f, stamp) == [call |-> "check", file |-> f, stamp |-> stamp]
Stamp(f, v, seen) == [call |-> "stamp", file |-> f, version |-> v, seen |-> seen]
Store(f, entry) == [call |-> "store", file |-> f, entry |-> entry]
Grow(f, before) == [call |-> "grow", file |-> f, before |-> before]

Calls == [call : {"lookup", "open", "root", "include", "link", "throw"}, file : Files]
            \cup [call : {"check"}, file : Files, stamp : 1 .. MaxTime]
            \cup [call : {"stamp"}, file : Files, version : Versions, seen : 0 .. MaxWrites]
            \cup [call : {"store"}, file : Files, entry : Entries]
            \cup [call : {"grow"}, file : Files, before : Seq(Files)]

Missing(f) == ~disk[f].there

Init ==
    /\ disk = [f \in Files |-> [there |-> TRUE, version |-> 1, time |-> 1]]
    /\ clock = 1
    /\ cachedTemplating = <<>>
    /\ routesFile = <<>>
    /\ calls = [w \in Workers |-> <<>>]
    /\ page = [w \in Workers |-> NoPage]
    /\ renders = [w \in Workers |-> 0]
    /\ raced = [f \in Files |-> FALSE]
    /\ overlapped = [f \in Files |-> FALSE]
    /\ clashed = FALSE

------------------------------------------------------------------------------
(***************************************************************************)
(* Other programs and the clock                                            *)
(***************************************************************************)

\* Worker w has read version v of f and not yet its time.
Reading(w, f) ==
    \E i \in DOMAIN calls[w] : calls[w][i].call = "stamp" /\ calls[w][i].file = f

\* A program writes f, in one step, and the time is that of the clock.
Write(f) ==
    /\ disk[f].version < MaxWrites
    /\ disk' = [disk EXCEPT ![f] = [there |-> TRUE, version |-> @.version + 1, time |-> clock]]
    /\ raced' = [raced EXCEPT ![f] = @ \/ disk[f].time = clock \/ \E w \in Workers : Reading(w, f)]
    /\ UNCHANGED <<clock, cachedTemplating, routesFile, calls, page, renders, overlapped, clashed>>

Delete(f) ==
    /\ disk[f].there
    /\ disk' = [disk EXCEPT ![f].there = FALSE]
    /\ UNCHANGED <<clock, cachedTemplating, routesFile, calls, page, renders, raced,
                   overlapped, clashed>>

Tick ==
    /\ clock < MaxTime
    /\ clock' = clock + 1
    /\ UNCHANGED <<disk, cachedTemplating, routesFile, calls, page, renders, raced,
                   overlapped, clashed>>

------------------------------------------------------------------------------
(***************************************************************************)
(* The calls of a worker                                                   *)
(***************************************************************************)
At(w, name) == calls[w] # <<>> /\ Head(calls[w]).call = name

Callee(w) == Head(calls[w]).file

\* The call on top of the stack of w goes on with `more`.
Goes(w, more) == calls' = [calls EXCEPT ![w] = more \o Tail(@)]

\* An exception leaves all calls; Render answers with an error page.
Fails(w) ==
    /\ calls' = [calls EXCEPT ![w] = <<>>]
    /\ page' = [page EXCEPT ![w].status = "error"]

\* A handler calls Render.
StartRender(w, f) ==
    /\ calls[w] = <<>>
    /\ renders[w] < MaxRenders
    /\ renders' = [renders EXCEPT ![w] = @ + 1]
    /\ calls' = [calls EXCEPT ![w] = <<Call("lookup", f)>>]
    /\ page' = [page EXCEPT ![w] = [NoPage EXCEPT !.file = f, !.status = "rendering",
                                                  !.asked = disk[f].version]]
    /\ UNCHANGED <<disk, clock, cachedTemplating, routesFile, raced, overlapped, clashed>>

\* Whether the file is in the cache.
Lookup(w) ==
    /\ At(w, "lookup")
    /\ LET f == Callee(w)
       IN  Goes(w, <<IF f \in DOMAIN cachedTemplating
                     THEN Check(f, cachedTemplating[f].stamp) ELSE Call("open", f),
                     Call("root", f)>>)
    /\ UNCHANGED <<disk, clock, cachedTemplating, routesFile, page, renders, raced,
                   overlapped, clashed>>

\* last_write_time of a file that is in the cache.
CheckTime(w) ==
    /\ At(w, "check")
    /\ LET f == Callee(w)
       IN  \/ /\ Missing(f)
              /\ Fails(w)
           \/ /\ ~Missing(f)
              /\ Goes(w, IF disk[f].time > Head(calls[w]).stamp THEN <<Call("open", f)>> ELSE <<>>)
              /\ UNCHANGED page
    /\ UNCHANGED <<disk, clock, cachedTemplating, routesFile, renders, raced, overlapped, clashed>>

\* Variant: a part that is in the cache is not read again.
ReadsIfNew(f, v) == IF Part \in DOMAIN cachedTemplating THEN 0 ELSE TextOf(f, v).includes

Reads(f, v) == TextOf(f, v).includes

\* What parsing version v of f calls: generateCache again for each include.
ParseCalls(f, v) ==
    [n \in 1 .. Reads(f, v) |-> Call("open", Part)]
        \o (IF TextOf(f, v).parsed THEN <<>> ELSE <<Call("throw", f)>>)

\* generateCache: open and read the file, parse it.
OpenFile(w) ==
    /\ At(w, "open")
    /\ LET f == Callee(w)
           v == disk[f].version
       IN  \/ /\ Missing(f)
              /\ Fails(w)
              /\ UNCHANGED overlapped
           \/ /\ ~Missing(f)
              /\ Goes(w, ParseCalls(f, v) \o <<Stamp(f, v, disk[Part].version)>>)
              /\ overlapped' = [overlapped EXCEPT ![f] = @ \/ \E u \in Workers \ {w} :
                                   \E i \in DOMAIN calls[u] :
                                      calls[u][i].call \in {"stamp", "store"} /\ calls[u][i].file = f]
              /\ UNCHANGED page
    /\ UNCHANGED <<disk, clock, cachedTemplating, routesFile, renders, raced, clashed>>

\* Variants: the time of the clock; the time is not set.
Now(f) == clock
Unset(f) == 0

TimeOf(f) == disk[f].time

\* The rest of generateCache: the time stamp, after the content.
StampFile(w) ==
    /\ At(w, "stamp")
    /\ LET f == Callee(w)
       IN  \/ /\ Missing(f)
              /\ Fails(w)
           \/ /\ ~Missing(f)
              /\ Goes(w, <<Store(f, [version |-> Head(calls[w]).version, stamp |-> TimeOf(f),
                                     seen |-> Head(calls[w]).seen])>>)
              /\ UNCHANGED page
    /\ UNCHANGED <<disk, clock, cachedTemplating, routesFile, renders, raced, overlapped, clashed>>

\* cachedTemplating[file] = ...
StoreFile(w) ==
    /\ At(w, "store")
    /\ cachedTemplating' = [f \in DOMAIN cachedTemplating \cup {Callee(w)} |->
            IF f = Callee(w) THEN Head(calls[w]).entry ELSE cachedTemplating[f]]
    /\ Goes(w, <<>>)
    /\ UNCHANGED <<disk, clock, routesFile, page, renders, raced, overlapped, clashed>>

\* What rendering version v of f calls, in the order of its lines.
RenderCalls(f, v) ==
    LET effects == TextOf(f, v).effects
    IN  [n \in DOMAIN effects |-> Call(effects[n], f)]
            \o (IF TextOf(f, v).thrown THEN <<Call("throw", f)>> ELSE <<>>)

\* root = cachedTemplating[file].content, whoever stored it last.
TakeRoot(w) ==
    /\ At(w, "root")
    /\ LET f == Callee(w)
           entry == cachedTemplating[f]
       IN  /\ Goes(w, RenderCalls(f, entry.version))
           /\ page' = [page EXCEPT ![w].root = entry.version, ![w].seen = entry.seen]
    /\ UNCHANGED <<disk, clock, cachedTemplating, routesFile, renders, raced, overlapped, clashed>>

\* The cached content of an included file, whatever its time.
RenderInclude(w) ==
    /\ At(w, "include")
    /\ LET v == cachedTemplating[Part].version
       IN  /\ Goes(w, RenderCalls(Part, v))
           /\ page' = [page EXCEPT ![w].part = v]
    /\ UNCHANGED <<disk, clock, cachedTemplating, routesFile, renders, raced, overlapped, clashed>>

\* Variant: the endpoint is compared before the "/" is put before it.
NeverFound(f) == FALSE

Found(f) == f \in Range(routesFile)

\* urlfor, addRouteFile: look for the path ...
FindRoute(w) ==
    /\ At(w, "link")
    /\ LET f == Callee(w)
       IN  /\ page' = [page EXCEPT ![w].links = @ \cup {f}]
           /\ Goes(w, IF Found(f) THEN <<>> ELSE <<Grow(f, routesFile)>>)
           /\ clashed' = (clashed \/ (~Found(f) /\ \E u \in Workers : At(u, "grow")))
    /\ UNCHANGED <<disk, clock, cachedTemplating, routesFile, renders, raced, overlapped>>

\* ... and append it to the vector as it was when push_back began: an append of
\* another thread in between is overwritten.
AppendRoute(w) ==
    /\ At(w, "grow")
    /\ routesFile' = Append(Head(calls[w]).before, Callee(w))
    /\ Goes(w, <<>>)
    /\ UNCHANGED <<disk, clock, cachedTemplating, page, renders, raced, overlapped, clashed>>

ThrowError(w) ==
    /\ At(w, "throw")
    /\ Fails(w)
    /\ UNCHANGED <<disk, clock, cachedTemplating, routesFile, renders, raced, overlapped, clashed>>

\* The page is complete and the handler returns it.
Serve(w) ==
    /\ calls[w] = <<>>
    /\ page[w].status = "rendering"
    /\ page' = [page EXCEPT ![w].status = "served"]
    /\ UNCHANGED <<disk, clock, cachedTemplating, routesFile, calls, renders, raced,
                   overlapped, clashed>>

------------------------------------------------------------------------------
WorkerStep(w) ==
    \/ Lookup(w)
    \/ CheckTime(w)
    \/ OpenFile(w)
    \/ StampFile(w)
    \/ StoreFile(w)
    \/ TakeRoot(w)
    \/ RenderInclude(w)
    \/ FindRoute(w)
    \/ AppendRoute(w)
    \/ ThrowError(w)
    \/ Serve(w)

Next ==
    \/ \E f \in Files : Write(f) \/ Delete(f)
    \/ Tick
    \/ \E w \in Workers :
          WorkerStep(w) \/ \E f \in Files : StartRender(w, f)

Spec == Init /\ [][Next]_vars

------------------------------------------------------------------------------
(***************************************************************************)
(* Properties                                                              *)
(***************************************************************************)
TypeOK ==
    /\ disk \in [Files -> [there : BOOLEAN, version : Versions, time : 1 .. MaxTime]]
    /\ clock \in 1 .. MaxTime
    /\ DOMAIN cachedTemplating \subseteq Files
    /\ \A f \in DOMAIN cachedTemplating : cachedTemplating[f] \in Entries
    /\ routesFile \in Seq(Files)
    /\ calls \in [Workers -> Seq(Calls)]
    /\ page \in [Workers -> Pages]
    /\ renders \in [Workers -> 0 .. MaxRenders]
    /\ raced \in [Files -> BOOLEAN]
    /\ overlapped \in [Files -> BOOLEAN]
    /\ clashed \in BOOLEAN

\* What Render takes to be up to date, by its time, is: a template that no
\* write will be noticed for has the content of the file, unless the file was
\* written while generateCache was between its content and its time, or twice
\* within the resolution of the clock.  Workers that overwrite what the other
\* has stored do not break this.
CacheHonest ==
    \A f \in DOMAIN cachedTemplating :
        disk[f].time <= cachedTemplating[f].stamp =>
            cachedTemplating[f].version = disk[f].version \/ raced[f]

\* A page is not older than its file was when Render was called, and the part
\* it includes not older than it was when the page was last read (which may be
\* long ago: a part that changes alone is not noticed), unless such a write was
\* missed or two workers read the file at once.
ServedFresh ==
    \A w \in Workers :
        LET p == page[w]
            exempt(f) == raced[f] \/ overlapped[f]
        IN  p.status = "served" =>
              /\ p.root >= p.asked \/ exempt(p.file)
              /\ p.part = 0 \/ p.part >= p.seen \/ exempt(Part)

\* The files a page links to may be fetched once the page is there, and none is
\* listed twice, unless two workers appended to the vector at once.
LinksServed ==
    ~clashed =>
        /\ \A w \in Workers : page[w].status = "served" => page[w].links \subseteq Range(routesFile)
        /\ \A i, j \in DOMAIN routesFile : routesFile[i] = routesFile[j] => i = j
==============================================================================
