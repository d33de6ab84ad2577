----------------------------- MODULE HttpServer ------------------------------
(***************************************************************************)
(* HttpServer over plain TCP: the event loop of server.cpp, the request    *)
(* handler it calls, the worker threads that finish its requests, and the  *)
(* connection state they share (`clients`, the socket, the timer).         *)
(*                                                                         *)
(* One DataEvent is one request, as in the code.  What a request is for is *)
(* abstracted to how it is answered (Kinds); sessions, routes and files    *)
(* have modules of their own.  The queue and the threads are those of      *)
(* WorkerPool, seen as TaskService: tasks are taken in order, by at most   *)
(* NumWorkers threads.  A call on a shared map, or a write on a socket, is *)
(* one step; the code takes no lock for either.                            *)
(*                                                                         *)
(* An exception on the loop ends the loop, and the workers go on; one that *)
(* leaves a task ends the process, and nothing happens any more.           *)
(***************************************************************************)
EXTENDS Naturals, Sequences, FiniteSets, Functions

CONSTANTS
    Conns,              \* connections a client may open
    NumWorkers,         \* threads of workerPool_ (4 in the code)
    MaxKeepAlive,       \* the request limit of a connection (100 in the code)
    Kinds               \* how requests are answered, a subset of AllKinds

AllKinds == {"direct",  \* by the loop itself: 404, 405, a stored static route
             "route",   \* by a handler on a worker
             "file",    \* by a worker that reads the file, then the loop
             "cached",  \* from file_cache_, by the loop in a later callback
             "bad"}     \* an exception leaves _handle_request

ASSUME ConnsAssumption == IsFiniteSet(Conns)
ASSUME NumWorkersAssumption == NumWorkers \in Nat \ {0}
ASSUME MaxKeepAliveAssumption == MaxKeepAlive \in Nat \ {0}
ASSUME KindsAssumption == Kinds \subseteq AllKinds

\* The i-th request of connection c; the code closes after one too many.
Reqs == Conns \X (1 .. MaxKeepAlive + 1)

VARIABLES
    loop,               \* what the event loop is doing
    sock,               \* the state of each uvw::TCPHandle
    timer,              \* the timer captured by the handlers of a connection
    clients,            \* HttpServer::clients, a map over some connections
    queue,              \* taskQueue_, the requests of the pushed closures
    phase,              \* how far each request is
    req,                \* what the client asked for
    echo,               \* the keep_alive a worker read for its answer
    wire,               \* what was written to each connection
    together,           \* history: <<q, r>> when r came while q was being answered
    terminated          \* std::terminate was called

\* What changes while the process runs.
svars == <<loop, sock, timer, clients, queue, phase, req, echo, wire, together>>
vars == <<svars, terminated>>

Idle == [at |-> "idle"]
Down == [at |-> "down"]

LoopStates ==
    {Idle, Down}
        \cup [at : {"counting", "body"}, req : Reqs]

Phases == {"none",      \* not sent yet
           "queued",    \* its closure is in taskQueue_
           "running",   \* its closure runs on a worker
           "handled",   \* the handler returned, the session is stored
           "failed",    \* the handler threw
           "rendered",  \* the answer is complete
           "sending",   \* _send_response found the connection open ...
           "reporting", \* ... and writes the 500 of a handler that threw
           "fetched",   \* file contents wait for their AsyncEvent
           "done"}

Entry == [keep_alive : BOOLEAN, n_requests : 0 .. MaxKeepAlive + 1, timeout : BOOLEAN]

\* Variant: n_requests has no initializer.
Uninitialized == [keep_alive |-> FALSE, n_requests |-> MaxKeepAlive + 2, timeout |-> FALSE]

\* What operator[] of the map inserts: no client, no timer.
Ghost == [keep_alive |-> FALSE, n_requests |-> 0, timeout |-> FALSE]

Parts == {"whole", "error", "head", "body"}

Answers == [req : Reqs, part : Parts, keep_alive : BOOLEAN]

Remove(f, c) == Restrict(f, DOMAIN f \ {c})
Put(f, c, e) == [x \in DOMAIN f \cup {c} |-> IF x = c THEN e ELSE f[x]]

\* HttpConnection::isOpen: not closing.
IsOpen(c) == sock[c] \in {"open", "eof", "broken"}

\* HttpConnection::active: libuv still reads from the socket.
Active(c) == sock[c] = "open"

Answer(r, part) == [req |-> r, part |-> part, keep_alive |-> echo[r]]

\* HttpConnection::asyncWrite on a socket that is open.
Send(r, part) == wire' = [wire EXCEPT ![r[1]] = Append(@, Answer(r, part))]

Init ==
    /\ loop = Idle
    /\ sock = [c \in Conns |-> "new"]
    /\ timer = [c \in Conns |-> "none"]
    /\ clients = <<>>
    /\ queue = <<>>
    /\ phase = [r \in Reqs |-> "none"]
    /\ req = [r \in Reqs |-> [kind |-> "none", keep_alive |-> FALSE]]
    /\ echo = [r \in Reqs |-> FALSE]
    /\ wire = [c \in Conns |-> <<>>]
    /\ together = {}
    /\ terminated = FALSE

------------------------------------------------------------------------------
(***************************************************************************)
(* Connection events, all on the loop thread                               *)
(***************************************************************************)

\* ListenEvent: accept, start the five second timer, fill in the map.
ListenEvent(c) ==
    /\ loop = Idle
    /\ sock[c] = "new"
    /\ sock' = [sock EXCEPT ![c] = "open"]
    /\ timer' = [timer EXCEPT ![c] = "armed"]
    /\ clients' = Put(clients, c, [keep_alive |-> TRUE, n_requests |-> 0, timeout |-> TRUE])
    /\ UNCHANGED <<loop, queue, phase, req, echo, wire, together>>

\* The requests of c that are being answered.
Outstanding(c) ==
    {r \in Reqs : r[1] = c /\ phase[r] \notin {"none", "done"}}

Sent(c) == {r \in Reqs : r[1] = c /\ phase[r] # "none"}

NextRequest(c) == <<c, Cardinality(Sent(c)) + 1>>

\* Variant: keep_alive stays what the first request made it.
KeepAliveSticks(c, ka) == clients[c].keep_alive /\ ka

KeepAliveOf(c, ka) == ka

\* DataEvent up to the return of _handle_request: restart the timer, note
\* keep_alive, then answer, or push the closure, or leave by an exception.
DataEvent(c, kind, ka) ==
    LET r == NextRequest(c)
    IN  /\ loop = Idle
        /\ sock[c] = "open"
        /\ timer' = [timer EXCEPT ![c] = "armed"]
        /\ clients' = [clients EXCEPT ![c].keep_alive = KeepAliveOf(c, ka)]
        /\ req' = [req EXCEPT ![r] = [kind |-> kind, keep_alive |-> ka]]
        /\ together' = together \cup (Outstanding(c) \X {r})
        /\ \/ /\ kind = "direct"
              /\ Send(r, "whole")
              /\ phase' = [phase EXCEPT ![r] = "done"]
              /\ loop' = [at |-> "counting", req |-> r]
              /\ UNCHANGED queue
           \/ /\ kind \in {"route", "file"}
              /\ queue' = Append(queue, r)
              /\ phase' = [phase EXCEPT ![r] = "queued"]
              /\ loop' = [at |-> "counting", req |-> r]
              /\ UNCHANGED wire
           \/ /\ kind = "cached"
              /\ phase' = [phase EXCEPT ![r] = "fetched"]
              /\ loop' = [at |-> "counting", req |-> r]
              /\ UNCHANGED <<queue, wire>>
           \/ /\ kind = "bad"
              /\ phase' = [phase EXCEPT ![r] = "done"]
              /\ loop' = Down
              /\ UNCHANGED <<queue, wire>>
    /\ UNCHANGED <<sock, echo>>

\* uvw::Handle::close: nothing happens to a handle that is closing already.
Closing(c) == [sock EXCEPT ![c] = IF IsOpen(c) THEN "closing" ELSE @]

OverLimit(n) == n > MaxKeepAlive

\* The rest of DataEvent: count the request and close after one too many.
CountRequest ==
    /\ loop.at = "counting"
    /\ LET c == loop.req[1]
       IN  /\ clients' = [clients EXCEPT ![c].n_requests = @ + 1]
           /\ sock' = IF OverLimit(clients'[c].n_requests) THEN Closing(c) ELSE sock
    /\ loop' = Idle
    /\ UNCHANGED <<timer, queue, phase, req, echo, wire, together>>

\* The client closes its side: no EndEvent handler, libuv stops reading.
EndEvent(c) ==
    /\ loop = Idle
    /\ sock[c] = "open"
    /\ sock' = [sock EXCEPT ![c] = "eof"]
    /\ UNCHANGED <<loop, timer, clients, queue, phase, req, echo, wire, together>>

\* Variant: the socket of a failed connection is left open.
LeaveOpen(c) == sock

CloseIfActive(c) ==
    IF Active(c) THEN Closing(c)
    ELSE IF sock[c] = "eof" THEN [sock EXCEPT ![c] = "broken"] ELSE sock

\* Variant: the entry stays in the map.
Remember(c) == clients

Forget(c) == Remove(clients, c)

\* ErrorEvent of a read, or of a write that fails after it was accepted; the
\* map forgets the connection, and an active handle is closed.  One that has
\* seen the end of its input stays as it is, with a peer that is gone.  (An
\* EPIPE is ignored: that event changes nothing.)
ErrorEvent(c) ==
    /\ loop = Idle
    /\ sock[c] = "open" \/ (sock[c] \in {"eof", "broken", "closing"} /\ wire[c] # <<>>)
    /\ clients' = Forget(c)
    /\ sock' = CloseIfActive(c)
    /\ UNCHANGED <<loop, timer, queue, phase, req, echo, wire, together>>

\* Variant: the timer of a connection does nothing.
TimerIdles(c) == sock

TimerCloses(c) == Closing(c)

\* TimerEvent: five seconds without data.
TimerEvent(c) ==
    /\ loop = Idle
    /\ timer[c] = "armed"
    /\ timer' = [timer EXCEPT ![c] = "fired"]
    /\ sock' = TimerCloses(c)
    /\ UNCHANGED <<loop, clients, queue, phase, req, echo, wire, together>>

\* CloseEvent, one turn of the loop after close(): forget the connection.
\* Nobody stops or closes its timer.
CloseEvent(c) ==
    /\ loop = Idle
    /\ sock[c] = "closing"
    /\ sock' = [sock EXCEPT ![c] = "closed"]
    /\ clients' = Forget(c)
    /\ UNCHANGED <<loop, timer, queue, phase, req, echo, wire, together>>

------------------------------------------------------------------------------
(***************************************************************************)
(* Worker threads                                                          *)
(***************************************************************************)
Busy ==
    {r \in Reqs : phase[r] \in {"running", "handled", "failed", "rendered",
                               "sending", "reporting"}}

MoveTo(r, from, to) ==
    /\ phase[r] \in from
    /\ phase' = [phase EXCEPT ![r] = to]

\* A worker takes the oldest closure.
StartTask ==
    /\ queue # <<>>
    /\ Cardinality(Busy) < NumWorkers
    /\ MoveTo(Head(queue), {"queued"}, "running")
    /\ queue' = Tail(queue)
    /\ UNCHANGED <<loop, sock, timer, clients, req, echo, wire, together>>

\* Variant: an exception of the handler is only logged.
ForgetFailed == "done"

FailedPhase == "failed"

\* _handle_route: the handler returns, and the session is stored, or throws.
HandleRoute(r) ==
    /\ req[r].kind = "route"
    /\ \/ MoveTo(r, {"running"}, "handled")
       \/ MoveTo(r, {"running"}, FailedPhase)
    /\ UNCHANGED <<loop, sock, timer, clients, queue, req, echo, wire, together>>

\* this->clients[conn->getClient()] on the worker: reads keep_alive, and
\* inserts an entry when the loop has forgotten the connection.
ReadKeepAlive(r) ==
    LET c == r[1]
        entry == IF c \in DOMAIN clients THEN clients[c] ELSE Ghost
    IN  /\ MoveTo(r, {"handled"}, "rendered")
        /\ clients' = Put(clients, c, entry)
        /\ echo' = [echo EXCEPT ![r] = entry.keep_alive]
        /\ UNCHANGED <<loop, sock, timer, queue, req, wire, together>>

\* _send_response: test isOpen ...
CheckOpen(r) ==
    /\ \/ MoveTo(r, {"rendered"}, IF IsOpen(r[1]) THEN "sending" ELSE "done")
       \/ MoveTo(r, {"failed"}, IF IsOpen(r[1]) THEN "reporting" ELSE "done")
    /\ UNCHANGED <<loop, sock, timer, clients, queue, req, echo, wire, together>>

\* ... then write.  On a socket closed in between the write fails at once with
\* EBADF, and the worker itself runs the ErrorEvent handler.
Write(r) ==
    LET c == r[1]
    IN  /\ MoveTo(r, {"sending", "reporting"}, "done")
        /\ \/ /\ sock[c] = "broken"
              /\ UNCHANGED <<clients, wire>>
           \/ /\ sock[c] \in {"open", "eof"}
              /\ Send(r, IF phase[r] = "sending" THEN "whole" ELSE "error")
              /\ UNCHANGED clients
           \/ /\ ~IsOpen(c)
              /\ clients' = Forget(c)
              /\ UNCHANGED wire
        /\ UNCHANGED <<loop, sock, timer, queue, req, echo, together>>

\* Variant: async->send() is forgotten.
NotSent == "running"

AsyncSent == "fetched"

\* _send_file_worker: what was read or the error code, then async->send().
ReadFile(r) ==
    /\ req[r].kind = "file"
    /\ MoveTo(r, {"running"}, AsyncSent)
    /\ UNCHANGED <<loop, sock, timer, clients, queue, req, echo, wire, together>>

\* The AsyncEvent of a file: nothing for a connection no longer read from,
\* otherwise an error, or the head and then the body.
AsyncEvent(r) ==
    /\ loop = Idle
    /\ phase[r] = "fetched"
    /\ \/ /\ ~Active(r[1])
          /\ phase' = [phase EXCEPT ![r] = "done"]
          /\ UNCHANGED <<loop, wire>>
       \/ /\ Active(r[1])
          /\ Send(r, "error")
          /\ phase' = [phase EXCEPT ![r] = "done"]
          /\ UNCHANGED loop
       \/ /\ Active(r[1])
          /\ Send(r, "head")
          /\ loop' = [at |-> "body", req |-> r]
          /\ UNCHANGED phase
    /\ UNCHANGED <<sock, timer, clients, queue, req, echo, together>>

SendBody ==
    /\ loop.at = "body"
    /\ Send(loop.req, "body")
    /\ phase' = [phase EXCEPT ![loop.req] = "done"]
    /\ loop' = Idle
    /\ UNCHANGED <<sock, timer, clients, queue, req, echo, together>>

------------------------------------------------------------------------------
ConnEvent(c) ==
    \/ ListenEvent(c)
    \/ \E kind \in Kinds, ka \in BOOLEAN : DataEvent(c, kind, ka)
    \/ EndEvent(c)
    \/ ErrorEvent(c)
    \/ TimerEvent(c)
    \/ CloseEvent(c)

WorkerStep(r) == HandleRoute(r) \/ ReadKeepAlive(r) \/ CheckOpen(r) \/ Write(r) \/ ReadFile(r)

Step ==
    \/ \E c \in Conns : ConnEvent(c)
    \/ CountRequest
    \/ StartTask
    \/ \E r \in Reqs : WorkerStep(r) \/ AsyncEvent(r)
    \/ SendBody

Running == ~terminated /\ terminated' = FALSE

\* Neither the task nor the thread catches it: `exists` and resize throw in a file
\* task, or a handler throws what is no std::exception.
TaskThrows(r) ==
    /\ ~terminated
    /\ phase[r] = "running"
    /\ terminated' = TRUE
    /\ UNCHANGED svars

Next ==
    \/ Running /\ Step
    \/ \E r \in Reqs : TaskThrows(r)

(***************************************************************************)
(* The loop finishes a callback it is in and delivers what libuv has       *)
(* pending: timers that run out, closed handles, async signals.  A worker  *)
(* that has a task goes on with it (WorkerPool: EveryTaskRuns).  Clients   *)
(* owe nothing.  What they sent makes finitely many of these steps, so it  *)
(* is enough that some step is taken as long as there is one: neither the  *)
(* loop, nor a worker, nor one kind of event needs to be fair to another.  *)
(***************************************************************************)
LoopGoesOn ==
    \/ CountRequest
    \/ SendBody
    \/ \E c \in Conns : TimerEvent(c) \/ CloseEvent(c)
    \/ \E r \in Reqs : AsyncEvent(r)

WorkersGoOn == StartTask \/ \E r \in Reqs : WorkerStep(r)

Fairness == WF_vars(Running /\ (LoopGoesOn \/ WorkersGoOn))

Spec == Init /\ [][Next]_vars

FairSpec == Spec /\ Fairness

------------------------------------------------------------------------------
(***************************************************************************)
(* Properties                                                              *)
(***************************************************************************)
TypeOK ==
    /\ loop \in LoopStates
    /\ sock \in [Conns -> {"new", "open", "eof", "broken", "closing", "closed"}]
    /\ timer \in [Conns -> {"none", "armed", "fired"}]
    /\ DOMAIN clients \subseteq Conns
    /\ \A c \in DOMAIN clients : clients[c] \in Entry
    /\ queue \in Seq(Reqs)
    /\ phase \in [Reqs -> Phases]
    /\ req \in [Reqs -> [kind : Kinds \cup {"none"}, keep_alive : BOOLEAN]]
    /\ echo \in [Reqs -> BOOLEAN]
    /\ wire \in [Conns -> Seq(Answers)]
    /\ together \subseteq Reqs \X Reqs
    /\ terminated \in BOOLEAN

\* DataEvent goes through clients[c].timeout with no test.  Workers insert
\* entries without a timer and three handlers, one of them on the workers,
\* erase entries, yet a connection that may still deliver data, or whose
\* request is being counted, has the entry ListenEvent made.
OpenHasTimer ==
    /\ \A c \in Conns :
          Active(c) => c \in DOMAIN clients /\ clients[c].timeout /\ timer[c] = "armed"
    /\ loop.at = "counting" => Active(loop.req[1])

\* Where the answers to r are on the wire of its connection, and their parts.
Places(r) == {i \in DOMAIN wire[r[1]] : wire[r[1]][i].req = r}
PartAt(r, i) == wire[r[1]][i].part

HeadOnly(r) == \E i \in Places(r) : Places(r) = {i} /\ PartAt(r, i) = "head"

\* In one piece, or the head and behind it the body; nothing else, no repetition.
Complete(r) ==
    \/ \E i \in Places(r) : Places(r) = {i} /\ PartAt(r, i) \in {"whole", "error"}
    \/ \E i, j \in Places(r) :
          Places(r) = {i, j} /\ i < j /\ PartAt(r, i) = "head" /\ PartAt(r, j) = "body"

\* A request gets at most one answer, and once nothing works on it any more
\* it got one, unless the client was gone or the loop was brought down: the
\* paths over threads, exceptions and callbacks lose none and repeat none.
AnsweredOnce ==
    \A r \in Reqs :
        /\ Places(r) = {} \/ Complete(r) \/ (HeadOnly(r) /\ loop = [at |-> "body", req |-> r])
        /\ phase[r] = "done" /\ Active(r[1]) /\ req[r].kind # "bad" => Complete(r)

\* A later request is answered first only if it came while the earlier one was
\* being answered.
InOrder(c) ==
    \A i, j \in DOMAIN wire[c] : i < j =>
        \/ wire[c][i].req[2] <= wire[c][j].req[2]
        \/ <<wire[c][j].req, wire[c][i].req>> \in together

\* The Connection header is for the request itself or one that came meanwhile.
HeaderFor(c, r, ka) ==
    \E s \in Sent(c) : (s = r \/ <<r, s>> \in together) /\ ka = req[s].keep_alive

TrueHeader(c, a) ==
    a.part = "whole" /\ req[a.req].kind = "route" => HeaderFor(c, a.req, a.keep_alive)

\* Only workers write between the head and the body of a file.
WorkersBetween(c) ==
    \A i, j, k \in DOMAIN wire[c] :
        i < j /\ j < k /\ wire[c][i].req = wire[c][k].req
          /\ wire[c][i].part = "head" /\ wire[c][k].part = "body"
        => req[wire[c][j].req].kind = "route"

\* What the requests of a connection mix up, the order of their answers, the
\* Connection headers and the parts of a file, they mix up only when they are in
\* flight together: a client that waits reads its answers in order, each whole,
\* with its own header.
MixedOnlyTogether ==
    \A c \in Conns :
        /\ InOrder(c)
        /\ \A i \in DOMAIN wire[c] : TrueHeader(c, wire[c][i])
        /\ WorkersBetween(c)

\* The entries that outlive their connection were inserted by a worker: the
\* loop has forgotten the connection and will not touch them again.
LeftoversAreGhosts ==
    \A c \in DOMAIN clients : sock[c] = "closed" => clients[c] = Ghost

\* An exception has ended the loop or the process.
Fallen == loop = Down \/ terminated

\* Work on every request ends, whatever happens to its connection, unless an
\* exception has ended the loop or the process.  (A request that is done stays
\* done, and there are finitely many: that each leads to its end, and that there
\* is always a time when none is under way, are the same.)
EveryRequestEnds ==
    []<>(Fallen \/ \A r \in Reqs : phase[r] \in {"none", "done"})

\* An accepted connection is closed in the end: by the client, an error, the
\* request limit or five idle seconds, unless an exception has ended the loop or
\* the process.
EveryConnectionCloses ==
    []<>(Fallen \/ \A c \in Conns : sock[c] \in {"new", "closed"})
==============================================================================
