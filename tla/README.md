# FramworkCpp in TLA+

A verification development of the C++ web framework in `src/src/`: modules that
state how the server behaves, TLC runs that check them on small instances, and
proofs, checked by TLAPS, that the main invariants hold for every size.

All line numbers are of this repository; paths below omit the leading `src/src/`.

## 1. Inventory

The server is one process. One thread runs the libuv event loop (through uvw);
four worker threads run route handlers and read files. They share plain
`std::unordered_map`s and sockets with hardly any lock: `TODO.YAML:9-11` and
`:29-30` say that concurrency control is still to be done.

```
   client ── TCP ──► ListenEvent / DataEvent / TimerEvent / CloseEvent / ErrorEvent
                        │  (event loop thread: server.cpp, server_handler.cpp)
                        │  find or make the session, match the route
          ┌─────────────┼──────────────────────┐
          ▼             ▼                      ▼
     write at once   taskQueue_.push(closure)  read from file_cache_
   (404, 405, stored     │                     (AsyncEvent, next turn)
    static reply)        ▼                          ▲
                  WorkerPool: 4 threads             │ async->send()
                  _handle_route ──► write           │
                  _send_file_worker ────────────────┘
```

| Component | State it keeps | Operations | Touches | Correct when |
|---|---|---|---|---|
| Worker pool (`server_workers.hpp`) | deque, mutex, condition variable, `stop` | `push`, `pop`, thread loop, destructor | every queued closure | no task lost, repeated or stranded; first in, first out; the destructor returns |
| HTTP server over TCP (`server.cpp`, `server.hpp`, `server_handler.cpp`, `httpConnection.hpp`) | `clients` (per socket: client, timer, `n_requests`, `keep_alive`), routes, `file_cache_`, the queue | the uvw event handlers, `_handle_request`, `HttpConnection` | pool, sessions, files | each request is answered once and by the right answer; `clients` agrees with the sockets; everything ends and closes |
| Route handler (`server_handler_route.cpp`) | none; runs on a worker | `_handle_route` | sessions, `clients`, `static_routes`, socket | one answer whatever the handler does; the session stored or erased |
| Sessions (`session.hpp`, `tools/idGenerator.hpp`) | map from ids to sessions, the signing key | find, create, validate, update, erase, sign | loop and workers | a client sees its own session and all of it; a logout ends it |
| Static files (`server_handler_file.cpp`) | none of its own | `_handle_static_file`, `_send_file_worker`, the `AsyncEvent` | `file_cache_`, pool, socket | the file's bytes, with the encoding the header names |
| File cache (`server.hpp`: `LRUCache`) | list, map, size | `put`, `get`, `isInCache` | loop and workers | the map agrees with the list; `get` gives the last `put`; the budget |
| TLS transport (`TLSserver.cpp`, `server.cpp:136-281`) | SSL object, pending writes, open/closed | read, write, flush, close | loop and workers | decrypted input once and in order; output not lost; closed once |
| Templates (`jinjaTemplating/`) | `cachedTemplating`: parsed templates with time stamps | `Render`, `generateCache`, `BlockParser`, `__Render` | workers, files, `routesFile` | a branch as written; a template that changed is read again; what a page links to can be fetched |
| Router (`tools/complementary_server_functions.hpp`, `_route_matcher`) | the route tables | `addRoute`, `_route_matcher`, `_match_path_with_route` | loop | first match with its own parameters |
| Request parser (`httpMethods.*`, `tools/url_encoding.hpp`) | none | construct from bytes | loop | a malformed request stays one request's problem |
| Request and response (`request.hpp`, `response.*`) | data holders | construct, format | workers | the handler gets what the client sent |
| Logging, curl, example app, vendored code | output, one curl handle | | workers | |

What is hard here, and hardly reachable by a test (each item at its line in
`PROJECT.json`, "hazards"):

* **Copies that travel.** A session is copied to a closure, changed on a worker
  and stored back whole (`session.hpp:155`); another copy is in the client's
  cookie. Logout, lost answers and restarts race these copies.
* **A map two threads edit.** `clients` is filled in and erased by the loop, and
  `_handle_route` runs `clients[...]` on a worker (`server_handler_route.cpp:48`),
  which inserts when the key is gone. A failed write runs the `ErrorEvent`
  handler on the worker as well.
* **Check, then act.** `isOpen()` and `write` are separate (`httpConnection.hpp:54`);
  `isInCache` and `get` too (`server_handler_file.cpp:197`).
* **Order.** Requests of one connection run on several workers and answer in the
  order they finish; a file is written in two pieces.
* **Exceptions.** One that leaves a loop callback ends the loop, one that leaves a
  task ends the process: nothing catches what `exists` and `resize` of a file task
  throw (`server_handler_file.cpp:25`, `:46`).
* **Recursion over sockets.** `close`, `flush` and `asyncWrite` of a TLS connection
  call each other, with OpenSSL failing or asking for a retry at any of them, on the
  loop and on workers (`TLSserver.cpp:86-306`).
* **Time stamps.** A template's content is read before its time
  (`templating.cpp:117-123`), by workers that overwrite each other's entries.
* **Leftovers.** Parameters of a route that matched in part (`url_params`), a body
  that comes in a second read, lines of a block that the parser puts elsewhere.
* **Shutdown.** The destructor sets `stop` and joins, and wakes nobody.
* **Limits and time.** 101 requests, five idle seconds, an LRU budget.
* **A static route's stored answer** carries the first client's cookie.

## 2. Plan

Order of importance, and of construction. All models exist; what is left is proof.

1. `TaskService`, `WorkerPool`: the service the loop relies on, and the threads
   that implement it. *(model, refinement, proofs)*
2. `HttpServer`: connections, the life of a request across loop and workers.
   *(model, invariants proved)*
3. `Sessions`: sessions, cookies, static replies. *(model; invariants and action
   properties proved)*
4. `LruCache` with an abstract `Cache` (a map that may forget), and `LruOrder`.
   *(model, refinement, proofs)*
5. `FileServer` over `LruCache`: the loop's `isInCache` then `get`, workers' `put`
   in between, the encoding of cached bytes. *(model, invariants proved)*
6. `TlsConnection`: pending writes, the BIO, `close`, and the SSL forms of the
   connection handlers. *(model; invariants proved)*
7. `TemplateBlocks` (parser and renderer of blocks against what a template means)
   and `Pages` (the shared cache with its times, `urlfor`). *(models; invariants of
   `Pages` proved)*
8. `Requests` over `TemplateBlocks`: one request from its bytes to its answer,
   through parser, session, files, router, `Request` and page. *(model)*

The safety properties of all of these but `Requests` are proved. `Requests` uses
`TemplateBlocks`, whose parser and renderer are recursive operators: it stays with
TLC, as does liveness.

## 3. The modules

### `TaskService`, `WorkerPool`

`WorkerPool` has one action for each critical section: `push` and `pop` hold the
mutex for their whole body and give it up only in `condition.wait`.

| Code | TLA+ |
|---|---|
| `TaskQueue::push` (22-27) | `Push(t)`: append, `NotifyOne` wakes one waiter of any |
| `TaskQueue::pop` (29-37) | `PopEmpty(w)` goes to wait, `PopTask(w)` takes the front; `SpuriousWake(w)` |
| thread loop (63-70) | `CheckStop(w)`: break with the popped task, or run it; `FinishTask(w)`; `TaskThrows(w)` |
| `~WorkerPool` (73-81) | `Destroy` sets `stop`, `Joined` returns from the joins |

`main` stands for the thread that owns the pool; `pushed`, `done` and `dropped`
are history. `stop` is a plain bool read without a lock: a racing read can only
return the value before or after the one write, which the order of `Destroy` and
`CheckStop` covers.

`TaskService` is the pool without threads: tasks are submitted, taken in order,
run, completed, or discarded after the service was closed. `WorkerPool!Service`
is the refinement mapping; `ImplementsTaskService` says the pool implements it.

### `HttpServer`

The loop is a state of its own (`loop`): it is idle, or inside a callback that
workers may interleave with (`counting`: between `_handle_request` and
`n_requests++`; `body`: between the two writes of a file), or gone (`Down`: an
exception left a callback). `terminated` says that a task left by an exception and
the process is gone; nothing happens after it (`Running`). `phase[r]` is how far
request `r` is; `wire[c]` is what was written on connection `c`. `together` is
history: the pairs of requests of a connection that were in flight at the same time,
the only ones whose answers may be swapped, put into each other or given the other's
`Connection` header (`MixedOnlyTogether`).

| Code | TLA+ |
|---|---|
| `ListenEvent` (`server.cpp:41-62`) | `ListenEvent(c)` |
| `DataEvent` (67-83) with `_handle_request` (`server_handler.cpp:39-168`) | `DataEvent(c, kind, ka)`, then `CountRequest` |
| `TimerEvent`, `CloseEvent`, `ErrorEvent` (56-60, 85-92, 94-111) | actions of the same names |
| the client closes its side; no handler is registered | `EndEvent(c)` (external) |
| closure of a route: `_handle_route` | `StartTask`, `HandleRoute`, `ReadKeepAlive`, `CheckOpen`, `Write` |
| closure of a file: `_send_file_worker` | `StartTask`, `ReadFile`, `AsyncEvent`, `SendBody` |
| a task leaves by an exception (`server_workers.hpp:68`, `server_handler_file.cpp:25`, `:46`) | `TaskThrows(r)` |

A worker's path is cut wherever the loop can come in between: after the handler,
at `clients[...]`, between `isOpen()` and the write. The queue is `TaskService`'s:
first in, first out, at most `NumWorkers` tasks at once.

What a request is for is its `kind` (`direct`, `route`, `file`, `cached`, `bad`):
which request is of which kind is in `Requests`. One `DataEvent` is one request, as
in the code, which does not assemble requests from several reads. The socket
states are those uvw distinguishes by `active()` and `closing()`: `open`,
`eof` (the peer closed; not read from), `broken` (eof, and a write failed),
`closing` (`close()` called), `closed` (`CloseEvent` delivered).

### `Sessions`

| Code | TLA+ |
|---|---|
| session part of `_handle_request` (`server_handler.cpp:52-127`) | `Arrive(r, o)` with `NewSession`, `ValidateCookie` |
| a cookie with no value | `ArriveWithEmptyCookie(r)` |
| the route's handler on its copy | `Handle(r)`: read, write, `destroySession()`, or throw |
| `erase` or `updateSession` (`server_handler_route.cpp:34-42`) | `Store(r)` |
| `generateJWT`, the cookie, the stored reply of a static route (44-86) | `Sign(r)` |
| the answer arrives, or its connection is gone | `Deliver(r)`, `Lose(r)` |
| a new process with a new key | `Restart` |

A session's values are the set of requests that wrote them, so a lost value and a
foreign value can both be told. A uuid is the next unused number; a JWT is a record
with the key it was signed with, and a signature of another key fails to verify.
`jar[c]` is the browser's cookie. `saved`, `ended`, `overlapped`, `replayed` and `run`
(the key of the server that got each request) are history. A signature of another run
is told by `SignedHere`, which `RestartForgets` rests on. `KeepsWhatWasSaved` and
`LogoutIsFinal` speak of the time before any stored static reply was sent: its
receiver holds the session of the client it was stored for, and what it writes or ends
there, that client finds. `generateJWT` of an id that is absent makes a new session
under the old id, as `operator[]` does: a *tombstone*.

### `Cache`, `LruCache`, `LruOrder`

`LruCache` is the class with its list, its map and its byte count; each call is
one step. `Bytes(list, n)` is the sum of the sizes of the first `n` entries.

| Code (`server.hpp`) | TLA+ |
|---|---|
| `put` (161-195) | `Put(key, content)`: `AdmittedSize`, `Touched` (find and splice), the eviction loop as the largest number of entries that may stay (`Keeps`), `RoomFirst` (the evicted paths leave the map, then the file enters it: `Erase`, `SetFile`) |
| `get` (196-210) | `Get(key)` for its effect, `Lookup(key)` for its result |
| `isInCache` (211-214) | `IsInCache(key)` |

`put` of a path that is there moves its entry to the front *and pushes a second
one*; an old entry that is evicted later erases the path from the map, and then
entries of a lost path stay in the list. `put` of a content that is
empty or has outgrown the budget returns at once and leaves an older content
where it is (`latest` counts admitted contents only; see `OnlyNewer`). `Cache` is what remains visible: a map
from paths to the contents put last, of which a put may forget any others.
`ImplementsCache` is the refinement. `LruOrder` adds the history of use (`older`: the
pairs of paths of which the first was last used before the second), to say in
which order files leave, and of the content put last, which `Cache` needs as its
`latest`.

`maxSizeCache`, the 128 MB the constructor is given, is not in the model because
nothing reads it: the budget is the static `maxSize`, 1 MB.

### `FileServer`

| Code | TLA+ |
|---|---|
| `_handle_static_file` up to `isInCache` (`server_handler_file.cpp:165-201`) | `HandleStaticFile(r, p, gzip)` |
| `get` and the capture of its result (203-207) | `GetCached(r)` |
| public folder (`server_handler.cpp:132-158`) | `HandlePublic(r, p)` |
| `_send_file_worker`: read and compress (22-76) | `ReadFile(r)`, `ReadFails(r)` (404 or 500), `TaskThrows(r)` |
| `file_cache_.put`, `async->send()` (109-121, 161) | `CacheFile(r)` |
| both `AsyncEvent`s (123-158, 206-254) | `AsyncEvent(r)` |
| `urlfor`, `addRouteFile` (`server.hpp:303-338`) | `AddRouteFile(p)` |
| the file is written or removed by somebody else | `Edit(p)`, `Delete(p)` (external) |

The loop is cut between `isInCache` and `get`, where a worker's `put` may come in;
the worker between reading and `put`. A content is a version of the file and
whether it is compressed. `compress[r]` is `canCompress` for a registered path and
TRUE for the public folder, which does not look at `Accept-Encoding`. What happens
to the connection in the meantime is in `HttpServer`; here every client waits for
its answer. After `TaskThrows` the process is gone (`terminated`). `beside` and
`uncompressed` are history.

### `TlsConnection`

One connection of the SSL server. OpenSSL is external: `SSL_write` takes a record,
asks for a retry or fails; `SSL_read` gives the next piece of a batch of requests; a
memory BIO holds the records not yet sent.

| Code | TLA+ |
|---|---|
| `asyncWrite` (`TLSserver.cpp:86-140`) | `AsyncWrite`: `Taken`, `Refused` or `Fails` |
| `flushSslBuffer` (244-282) | `FlushSslBuffer`, then `SocketWrite` |
| `flush` (284-306) | `FlushCalls`, `SwappedAway`, `Retry` |
| `close` (142-178) | `Close`, `Forgotten` (onClose), `CloseSocket` |
| `onSocketData` (180-235) | `DataEvent`, `SslRead` |
| `onRead` of `server.cpp` (194-219) | `OnRead`, `CountRequest` with `LeftAtLimit` |
| listen, timer, error and close events | actions of the same names |
| an answer from the loop, a worker or an `AsyncEvent` | `Route`, `AsyncEvent`, `Respond` |

Each thread has a stack of the calls it has still to make; a call pushes the calls
it makes, so that the mutual recursion of `close`, `flush` and `asyncWrite` is in the
model, and may be interleaved with the other thread's at each of them. The list of
connections that `TlsServer` would flush is empty, as nothing adds to it.

### `TemplateBlocks`, `Pages`

`TemplateBlocks` has no state: `BlockParser` reads the lines of a template into
blocks with sub-blocks and children, as the code does with its recursion;
`Render` puts the children where `indexToPlace` says and follows `__renderIfBlock`
and `__renderForBlock`. A line is text, a link, an include or one statement; what a
condition evaluates to and what kind of value a loop runs over is part of the
statement, since the evaluation is an external library's. `Meaning` reads off the
lines of a template what it shows, and `ShownAsWritten` compares the two. What it
has to exclude is what the engine does not do: an `elif` reads `subBlocks.back()` of
an empty vector (`templating.cpp:199`); an `if` or an include inside an `else` is
placed in the main branch (180, 186); a loop there is placed by the length of the
main branch (190); an empty range throws (417); a loop over an object throws if its
variable is set (446).

| Code (`templating.cpp`) | TLA+ (`Pages`) |
|---|---|
| `Render`: the lookup, the time, the store, the content (36-51) | `Lookup`, `CheckTime`, `StoreFile`, `TakeRoot` |
| `generateCache` (108-126) | `OpenFile` (read and parse), `StampFile` |
| an include while parsing (168-181) and rendering (328-333) | `Reads` in `ParseCalls`, `RenderInclude` |
| `urlfor`, `addRouteFile` (`server.hpp:303-338`) | `FindRoute`, `AppendRoute` |
| the catch clauses of `Render` (65-90) | `Fails`, `ThrowError` |
| files are written and deleted, time passes | `Write`, `Delete`, `Tick` (external) |

A worker has a stack of calls; a step is one call on the file system, the cache or
`routesFile`. The n-th write of a file has version n, so that an old page can be
told. Of a text `Pages` keeps what parsing and rendering it calls, as a constant
(`Text`, of any `Templates`; `TextAssumption` says that a part includes nothing and
that only what was parsed is included): `TemplateOf` of `TemplateBlocks` reads it off
the lines, and `MCPages` gives it three pages and two parts so read. `push_back` takes the vector as it is when it begins and stores the result in
a second step, so that two at once lose one. `raced`, `overlapped` and `clashed`
are history, and each property names the cases in which the code does not keep it.

### `Requests`

| Code | TLA+ |
|---|---|
| `loadParams`, `Content` (`httpMethods.cpp:20-172`) | `ReadRequest` with `HeadersOf`, `BodiesOf`, `ContentOf` |
| the session (`server_handler.cpp:52-82`) | `CheckSession` |
| `_handle_static_file` (`server_handler_file.cpp:165-257`) | `NoStaticFile`, `HandleStaticFile` |
| `_route_matcher` (15-34), one turn of its loop | `TryRoute` with `Shaped`, `Converted`, `ParamsAfter` |
| 405 or the closure (98-127) | `Dispatch` |
| the public folder with `check_dangerous_route` (132-158); 404 (160-168) | `PublicFolder`; `NotRouted` |
| the closure of `_send_file_worker` (22-121) | `SendFile` with `Readings` |
| its `AsyncEvent` (123-158) | `AsyncEvent` |
| `_handle_route` up to the handler's return, `Request` (`request.hpp:179-185`) | `HandleRoute`, `RequestOf` |

What is sent and to which routes is one input, chosen at the start from families
of inputs. Texts are what the code tells apart: a path is a sequence of segments, a
form the kinds of its values (the request is unescaped *before* it is parsed, so an
escaped `&` or line break in a value is one), JSON is right or not and has one line
or more. A `Content-Length` may be absent, wrong, or shorter than the body, which then
is cut (`LastLine`, `Truncations`). Of `httpHeaders` the model keeps what the handler
reads. What the disk has under the path is part of the input: a file, none, one that
cannot be read, one whose size `tellg` cannot tell (a directory may open; `resize`
then throws `length_error`), or a path at which `exists` throws (a name that is too
long, a directory without permission, a loop of links). The bytes of the answer "file"
are in `FileServer`. `at` is "down" after an exception on the loop, when the workers go
on, and "terminated" when the process is gone.

## 4. The runs

Each module has an MC module that gives the constants their values. Run them in
this directory with `tlc -config X.cfg M`.

| Run | Instance | States | Question and answer |
|---|---|---|---|
| `worker_pool` | 3 threads, 4 tasks | 140 404 | Is a task lost, repeated or stranded, may every thread sleep with work in the queue, when does the destructor return? No task is, they may not, and it returns when the queue still feeds every thread; each thread then destroys one request unanswered. The pool implements `TaskService`. |
| `http_server` | 1 connection, limit 2 (so 3 requests), 2 threads, all kinds | 937 523 | Do `clients`, the timer and the socket agree, and is every request answered at most once and, if the client is there, once? Yes. Which answers can be out of order, torn apart, or under another's `Connection` header? Only those of requests that were in flight together, as some really are. Does the work on each request end and each connection close? Yes, unless an exception ended the loop or the process. |
| `sessions` | 1 client, 4 requests that write or log out, 1 restart, empty cookies | 779 393 | Does a client that waits for its answers keep what it saved, and is its logout final, also when answers are lost? Yes. Does a server believe what an earlier run of it signed? No: nothing written under another key is found. |
| `sessions_pair` | 2 clients, 2 requests each, everything but a plain read, static replies | 2 783 837 | Do two clients stay apart? Yes, as long as no stored static reply is sent. |
| `sessions_exit` | 1 client, 4 requests | violation | finding 1 |
| `sessions_static` | 2 clients, 2 requests each | violation | finding 2 |
| `file_cache` | 3 paths, 4 contents of 1, 1, 2 and 4 bytes, budget 4, unbounded use | 14 401 | Do list, map and byte count agree, is what is found what was put last, and do files leave in the order of their use? Yes; the last as long as no path is put while an entry of it is in the list. |
| `file_server` | 2 paths, 1 that changes, 2 versions, 3 requests of which 2 in flight, budget 3 | 496 422 | Can a file that exists be answered with 404, does a file only get newer, is the encoding of an answer the one its header names? It can, but only beside a request for another path, whose put evicts it between `isInCache` and `get`; yes for requests of a file that do not overlap and whose answers fit into the cache; yes for requests that agree on compression. |
| `file_encoding` | the same | violation | finding 3 |
| `tls` | 1 connection, 3 requests of up to 3 in a batch, limit 1, 2 retries, 1 failure | 44 869 | Is an answer lost or repeated on its way through pending writes and the BIO, do records leave in order, does the mutual recursion end, and what does the limit leave behind? None is; in order while no two answers are written at once; it ends; an entry without a timer that a worker made, or that of a connection over its limit. |
| `pages` | 2 workers with 1 page each, 2 files of 3 and 2 texts, 3 writes each, 2 ticks | 2 933 693 | Is a cached template that looks up to date so, is a page older than its file was, can what it links to be fetched? It is, it is not, it can, except in the races the properties name. |
| `requests` | 60 857 inputs in four families: messages with up to two fields or JSON; files of every kind in every place; paths against two routes of up to two segments; templates two blocks deep | 415 084 | What brings the server down, what does a handler get, is each other request answered once with what it asked for? The causes listed below; its own request, with leftovers of routes that matched in part; yes. |

What brings the server down, of one request and what the disk and the templates hold
(`LoopSurvives`: these and no others).

On the loop, which nobody guards:

* a session cookie that is no token (`session.hpp:169-170`);
* a registered file asked for without `Accept-Encoding` (`server_handler_file.cpp:185`);
* a `Content-Length` that is no `int` (`httpMethods.cpp:129`);
* `Content-Type: application/json` with a length and with JSON that is wrong, has
  several lines, is not there (an empty body, or one that comes in the next read), or
  is cut by a length that is too short (`httpMethods.cpp:129`, `:158`).

On a worker, where it ends the process:

* a file to be read at whose path `exists` throws, or whose size `tellg` cannot tell,
  registered and not cached or in the public folder (`server_handler_file.cpp:25`, `:46`);
* a template with an `elif` (`templating.cpp:199`).

Why the bounds are enough to meet the interesting cases:

* `worker_pool`: with three threads one can sleep while another is between `pop`
  and its task and a third is joining; four tasks let a queue hold more than one
  and still leave fewer than the destructor needs.
* `http_server`: connections share only the loop, the queue and the threads. One
  connection with three requests that overlap on two threads already has every
  order of two workers and the loop at its entry, and passes the limit (100 in the
  code, 2 here). `NumWorkers` is 4 in the code.
* `sessions`: a write, a logout, a write and a later return need four requests,
  with one restart anywhere between them.
* `sessions_pair`: an id is exchanged, if at all, between two requests. Clients
  are symmetric; the symmetry is used for an invariant only.
* `file_cache`: four bytes hold up to four entries, so a path can be in the list
  three times beside another; a content of four bytes is not admitted (the test is
  `<`), one of two evicts two others. The state space is finite without a bound on
  the calls, as the budget bounds the list.
* `file_server`: a plain first version has two bytes, a plain second one three
  (not admitted), a compressed one has one, so that a put may evict or do nothing. An eviction between `isInCache` and `get` needs one request
  to fill the cache, one that looks and one that puts: three requests, two of them
  in flight together. One file that changes is enough, as files meet only in the
  cache.
* `tls`: the second request passes the limit and a third is behind it in the batch,
  the case in which records are handled after the close. Two retries and a failure
  can fall on any of the calls of one recursion. A limit of 2 with three requests
  was checked once (682 108 states).
* `pages`: each race needs two actors: two workers, or a worker and a write. Three
  writes let a page be wrong and right again; two ticks let two writes share one.
  Two pages for each worker with 2 writes (5 584 952 states), and three ticks
  (10 724 571 states), were checked once. The workers are symmetric and all properties are invariants.
* `requests`: the parts of the input meet only where the code combines them, so the
  four families vary one part each and keep the others plain. A parameter left by a
  route needs two parameters in it and a second route behind; a placement in the
  wrong branch needs two blocks in one another, or one behind the other.

Deadlock is not checked where the system really may stop: tasks, connections,
requests and versions are finite, clients owe no further request, and after a crash nothing is
left to do.

Each property is also checked to be breakable: next to a definition stands a
*Variant*, a plausible slip in the code it models, under which TLC finds the
property violated. No action uses the variants.

### Fairness

* `WorkerPool`: weak fairness of each thread's own loop. The operating system
  schedules threads, a mutex is held for a few instructions, and a handler is taken
  to return; a wake-up without notification and a throw are never required. `Joined`
  is fair, as `join()` returns once its threads ended. Nothing makes the owner
  push or destroy.
* `HttpServer`: the loop finishes a callback it is in (`CountRequest`, `SendBody`)
  and libuv delivers what is pending: a timer that runs out, the `CloseEvent` of a
  closing handle, an async signal (`LoopGoesOn`). A worker goes on with its task, which
  is `EveryTaskRuns` of `WorkerPool` (`WorkersGoOn`). Weak fairness of all of these
  together is enough, as what clients sent makes finitely many such steps: no actor and
  no event needs to be fair to another. No fairness of `ListenEvent`, `DataEvent`,
  `EndEvent`, `ErrorEvent` or `TaskThrows`: clients owe nothing. A client that sends
  forever would hold its connection open only up to the request limit.
* `TlsConnection`: the loop and the workers go on with the calls they have begun, and
  libuv delivers a timer that runs out and the `CloseEvent` of a closing handle. No
  fairness of clients, of `SSL_write` taking a record, or of errors.
* `Sessions`, `Pages` and `Requests` have no liveness: what ends there is a bounded
  sequence of steps.

## 5. What is proved

TLAPS checks these for every value of the constants allowed by their named
assumptions. Each theorem has its argument in the comments of its module.

`WorkerPoolProofs` (any finite set of threads, any set of tasks):

* `TypeCorrect`, `WakeupsNotLost`, `TasksConserved`, `DestructorNeedsTasks`.
  `NoLostWakeup` is inductive with the types: the only step that makes the queue
  longer wakes a thread, and the only one that puts a thread to sleep finds it
  empty. `TaskConservation` is inductive with the types. `ExitNeedsTask` needs, for
  a finished destructor, that every thread has exited.
* `PoolImplementsService`: the initial state maps to an initial state of
  `TaskService` and each step to a step or a stutter. It needs `TaskConservation`
  (so that a task has one status) and that the queue is the tail end of `pushed`
  (so that the task taken is the oldest).

`HttpServerProofs` (any finite set of connections, any number of threads and any
limit):

* `TypeCorrect`, `TimerThere` and `OnlyGhostsStay`, from one inductive invariant
  `IInv`. `OpenHasTimer` alone is not inductive: `CountRequest` closes only when
  `n_requests` passed the limit, so the invariant has to say that the entry counts
  exactly the requests that came, that these are numbered without a gap, and that
  while the loop runs a connection within the limit is the only one that delivers
  data. Then the three handlers that erase an entry do it only for a socket that
  stops being read in the same step or was not read before, and a worker can insert
  only where the loop will not look.
* `AnsweredAtMostOnce`. `AnswerInv` says what of a request is on the wire, by how far
  the request is: nothing before its answer is handed to the socket, the head of a
  file while the loop is between its two writes, and at the end a complete answer, or
  none and a connection that is gone.
* `OnlyTogetherIsMixed` (`MixedOnlyTogether`). `OrderInv` says that a request that is
  not done is in flight `together` with every request of its connection that came after
  it, and that, while the socket takes answers, the map holds the `keep_alive` of the
  newest request; so a worker that reads another value reads that of a request beside
  its own. `BetweenInv` says that between the head and the body of a file only workers
  write, and what they write there is out of order, so its request was in flight
  together with the file's. The lemmas are about a step of the running server (`WhileItRuns`): a task
  that throws changes `terminated` and nothing else.

`SessionsProofs` (any finite set of clients, any number of requests and restarts,
any set of request kinds):

* `TypeCorrect`, from an invariant that says every id in a cookie, a copy or a session
  was generated, so that a new one is new, and that the tombstones `generateJWT` leaves
  are empty.
* `NothingOfAnotherRun` (`RestartForgets`): `RunsApart` says where the values of a run
  can be: in the map those of the present run, in a cookie those of the run whose key
  signed it, in a copy or a new cookie those of the run that got the request. A cookie
  is taken for a session only under the present key, and the map is empty after a
  restart, so no step moves a value from one run to another.
* `ClientsStayApart`: there is, as long as no stored reply was sent, a function
  from the generated ids to clients under which every session, copy and cookie
  holds an id of its client and only values of its client. Each new id extends the
  function; with it two clients cannot hold one id.
* `SavedValuesAreKept` and `LogoutEndsTheSession`, two action properties. Neither
  is inductive: what the next request finds is in the map, or, after a restart or a
  logout, in the cookie. `Waits(c)` follows the one request a waiting client has
  outstanding (`Carries`: what its copy, then the map, then its new cookie hold) and
  says of the client's own cookie that the cookie and the session it leads to have
  all that was answered and nothing that is over. `WrittenOnly` (a value is nowhere
  before its request was handled) makes a new value differ from an ended one. The
  step of another client disturbs none of this because of `ClientsStayApart`; after
  a stored reply it may, which is why the properties stop there.

`LruCacheProofs` (any sets of paths and contents, any sizes, any budget):

* `Coherence`: a path the map knows is in the list, and its first entry there is
  what the map holds, so that `put` never throws "File not found in cache list".
  It is inductive with the types (`Shape`). What has to be shown is that an
  eviction that cuts the list's tail takes out of the map every path whose first
  entry was in the tail, repeated entries or not.
* `BudgetIsKept`: `currentSize` is the sum over the list, and within the budget.
  The lemmas about sums (they do not depend on order, so a splice leaves them, and
  they are monotonic) are by induction over the length, written as the least
  counterexample of a set of numbers, since the induction theorems of the library
  take an operator.
* `EvictionTerminates`: for every admitted file the loop of `put` has a place to stop,
  before the list is empty or when it is.

`LruOrderProofs`:

* `LruImplementsCache`, the refinement. Each step is a put of `Cache` or changes
  nothing that can be found; it rests on `Coherence`.
* `LeastRecentlyUsedGoesFirst`: until a path is put while it is in the list, the list
  holds each path of the map once and in the order of use (`OrderInv`), so its tail
  is what was not used for longest.

`FileServerProofs` (any number of files, versions and requests, any of them in
flight together):

* `TypeCorrect`, `CacheStaysCoherent` and `BudgetKeptByAll`: the cache's invariants
  under the interleaving of the loop and the workers.
* `UniformEncodingIsTrue`: an answer's encoding passes through a worker's buffer,
  the cache and a captured result, possibly of three requests. The invariant
  (`Provenance`) says that at each of these places the encoding is one that a
  request of the same path asked for; if all of them agree, it is this request's.
* `NotFoundTrue` (`NotFoundOnlyByEviction`): `FlightInv` says that `beside` names every
  request that was in flight together with another. What was in the cache at `isInCache`
  and is not at `get` was evicted by a put in between (`MissInv`), and by one of another
  path, as a put of the path itself leaves it in the map, repeated entries or not
  (`RoomFirst`); a read fails only for want of a file.
* `FilesOnlyGetNewer`: `DiskInv` (no copy is newer than the file on disk) and
  `NewerInv`, which orders the versions of what was served, cached and fetched for a
  path whose requests do not overlap.

`TlsConnectionProofs` (any number of requests, of which each may have a worker, any
limit, any number of retries and failures of `SSL_write`):

* `TypeCorrect`, `LiveConnectionHasTimer` and `LeftoversAreExplained`, from the
  inductive invariant `IInv`. A step replaces the call on top of a stack by the calls
  it makes, so the invariant first says what a stack looks like (`ShapeInv`: the loop
  has at most one `SSL_read` loop, at the bottom, and one request above it). `CountInv`
  bounds `n_requests` by the requests read; `HandshakeInv` keeps answers out of a
  connection before its handshake ended; `ClosingInv` says who may be closing in
  which state of OpenSSL, and `EntryInv` that a socket that is closing has forgotten
  its entry unless it passed the limit. `LiveInv` is the property for a connection on
  whose workers no `SSL_write` failed.
* `NoAnswerLost` (`WritesConserved`), from `IInv` and `KeptInv`. `UniqueInv`: an answer
  is in one place only, a stack, the pending writes or what OpenSSL made, so that no
  interleaving of `flush`, its retries and the swap of the pending writes repeats it.
  `DueInv`: a request that is being read, worked on or fetched has no answer yet, so
  that handing one over makes none twice. `ReadInv`: requests known so far precede those
  still unread. `ControlInv`: each record of TLS's own is made once. `HeldInv`: what
  OpenSSL made is on the wire, in the BIO or in the hands of a thread between the two.
  `ConserveInv` puts these together: on a live connection each request that was sent
  is unread, due, or its answer is in one of those places.
* `RecordsStayInOrder` (`StreamIntact`), from `IInv`, `KeptInv` and `StreamInv`. Nothing
  in the code keeps two threads that took a chunk out of the BIO from handing their
  chunks to the socket in the other order; while requests do not overlap, the reason
  that they do not is where the records are. `LastInv`: only the newest request is
  read, worked on or answered. `FlowInv`: what was made is the wire, then the chunk in
  the hands of at most one thread, then the BIO. `PieceInv`: while a worker is busy
  there is one record, which is still to be written, in the BIO, or in the hands of a
  thread. `FlushedInv`: a request is read only when the BIO is empty, and for whatever
  is in it there is a call that will flush it. `HeadInv`: a body has its head before
  it. `GeneralInv` holds with overlap as well: no answer before the end of the
  handshake, a chunk that was taken is handed over next, an answer is whole or a head
  and a body, and writes are pending only after a retry. `FlowInv`, `PieceInv` and
  `FlushedInv` are what make the step of a worker harmless while the loop is between
  `BIO_read` and `write`.

`PagesProofs` (any number of workers, pages, writes and ticks; any texts of a page and
of a part that includes nothing):

* `TypeCorrect`, `CacheIsHonest`, `PagesServedFresh` and `LinkedFilesServed`, from one
  inductive invariant `IInv`. What a worker will find in the cache depends on calls
  that are still on its stack, and on entries that other workers overwrite in the
  meantime. `StackInv` therefore follows the stack: whatever a call takes from the
  cache (`Wants`) is there already, new enough, or is brought by a call above it
  (`Brings`). A step of the worker itself replaces the head by calls that bring at
  least what the head did; a step of another worker makes the entries newer or, if
  that one stores an older version, was recorded in `overlapped` (`AloneInv`).
  `CacheInv` says that an entry that is not older than its file by their times is the
  file's last version, with `TimeInv`: no file's time is ahead of the clock; `CallInv` says the same of the versions and times that are
  still in the hands of a worker, with the exemption `raced` for a write that comes in
  between. `PageInv` carries over to the page what was found.
* `LinkedFilesServed` rests on `RouteInv`: until two workers append at once, at most
  one has the copy of the vector it will store, and that copy is the vector.

Only model-checked: liveness under fairness (`EveryTaskRuns`,
`JoinEndsWithEnoughTasks`, `EveryRequestEnds`, `EveryConnectionCloses`,
`ConnectionEnds`), which is out of the prover's reach, as is ENABLED; everything
about `Requests`, which uses the parser and the renderer of `TemplateBlocks`, recursive
operators both (`Pages` takes what they compute as a constant).

## 6. Findings

1. `sessions_exit`: `README.md:168` offers `destroySession()` "for managing things
   like exit the session". A request in flight when the client logs out holds a
   copy taken before; its `updateSession` (`server_handler_route.cpp:41`) runs after
   the `erase`, and the session is back, in the map and in the client's cookie. A
   client that waits for each answer is safe (`LogoutIsFinal`).
2. `sessions_static`: `README.md:165` says of the session "This is a reference to
   the client session". `_handle_route` stores the whole response of a static route
   (`server_handler_route.cpp:85`), `Set-Cookie` header included, and
   `server_handler.cpp:113-121` replays it to everyone.
3. `file_encoding`: `server_handler_file.cpp:234` says "Indicate compression if
   used". The header follows this request's `Accept-Encoding` (188-191), the bytes
   are those of the request that filled the cache (112), and the path alone is the
   key: a client can be sent gzip bytes that are not called so, or plain bytes that
   are called gzip.

## 7. Abstractions and limits

* A call on a shared `unordered_map` or a write on a socket is one step. The code
  takes no lock, so two such calls at once are undefined behaviour; the models say
  what holds, and what goes wrong, even when each call is atomic. (`Pages` has two
  steps for an append to `routesFile`; the pointer that `_handle_static_file` keeps
  into that vector while a worker's append moves it is not modelled.)
* libuv and uvw are external: which events a handle in which state can deliver is
  taken from how `server.cpp` uses them. A failed `try_write` on a closed socket
  reports through `ErrorEvent` on the calling thread.
* Races that the code really loses have no property that says otherwise, only one that
  says nothing else does it: the values of two requests of a session in flight together
  (`session.hpp:157`), two appends to `routesFile` at once (`server.hpp:310`), two
  threads between `BIO_read` and `write` (`TLSserver.cpp:263`).
* `TaskThrows` of `HttpServer` and `FileServer` may happen in any task of that kind;
  for which files it does is in `Requests`. In `TlsConnection` and `Pages` a task is
  taken to return.
* In `FileServer` a file that cannot be opened counts as absent, reading a file is
  one step, an empty file is one whose compression failed (neither is compressed),
  `enable_cache` is TRUE (its default), and there are as many threads as requests.
* Formatting, compression, logging and the text of answers are left out; an answer
  is the request it answers, its part and the `Connection` value it carries.
* uuids are fresh and JWTs cannot be signed without the key: assumptions about
  the generator and the library, not results.
* In `HttpServer` and `Sessions` a request is already parsed; `Requests` has one
  client request in one or two reads, and one server, whose tables do not change.
* In `Pages` templates include no template that includes (a cycle would not end), a
  file is written in one step and never gets an older time, and pages that two workers
  render do not share the data of a page.
* In `Requests` a route's literal parts hold no character that is special in a
  regular expression (a dot is one: it accepts any), a path has no doubled slash, JSON
  of several lines ends with a line that is no JSON by itself, and a form value that
  holds an `&` has a `=` behind it.

### Not modelled

* The evaluation of expressions between `{{` and `}}` and of conditions: an external
  library (`expr`) does it; the models take its result as an input. The HTML of the
  error page (`errors.h`) has no effect but its text.
* The text of responses (`response.cpp`), compression, logging: output with no state
  that anything reads.
* `curl.h`, the example application (`app.cpp`, `main.cpp`) and its database wrapper
  (`db.hpp`): code that uses the framework or is used by the example only, and is
  sequential I/O.
* Vendored code: `tools/json.hpp`, `HTTPRequest.hpp`, `tools/base64.cpp`. The first
  alone has three quarters of the lines of the repository's sources.
