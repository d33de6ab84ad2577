---------------------------- MODULE TlsConnection ----------------------------
(***************************************************************************)
(* One connection of the TLS server: the TlsConnection of TLSserver.cpp    *)
(* and the handlers that server.cpp hangs on it.  The loop reads from the  *)
(* SSL object; the loop and the workers that answer its requests write to  *)
(* it, and either may close it, with no lock.                              *)
(*                                                                         *)
(* The methods call each other (close -> flush -> asyncWrite -> close), so *)
(* each thread has a stack of calls still to be made.  One step is one     *)
(* call into OpenSSL, the socket or `clients`, with the test before it.    *)
(* OpenSSL is external: SSL_write takes a whole buffer, asks for a retry   *)
(* or fails; over memory BIOs SSL_read never wants to write.               *)
(***************************************************************************)
EXTENDS Naturals, Sequences, FiniteSets, SequencesExt

CONSTANTS
    MaxKeepAlive,       \* the request limit of a connection (100 in the code)
    MaxRequests,        \* bound on the requests the client sends
    MaxBatch,           \* bound on the TLS records in one read of the socket
    MaxRetries,         \* bound on the times SSL_write asks for a retry
    MaxFailures         \* bound on the times SSL_write fails by itself

ASSUME MaxKeepAliveAssumption == MaxKeepAlive \in Nat \ {0}
ASSUME MaxRequestsAssumption == MaxRequests \in Nat
ASSUME MaxBatchAssumption == MaxBatch \in Nat \ {0}
ASSUME FaultsAssumption == MaxRetries \in Nat /\ MaxFailures \in Nat

VARIABLES
    sock,               \* the state of the uvw::TCPHandle
    timer,              \* the timer captured by the handlers
    entry,              \* HttpServer::clients[client]
    ssl,                \* what the SSL object may still do
    readBio, writeBio,  \* records received and not read, made and not sent
    pending,            \* pendingWrites_
    stack,              \* the calls each thread has still to make
    fetched,            \* requests whose file waits for its AsyncEvent
    sent,               \* requests the client has sent
    made,               \* history: the records made by OpenSSL, in order
    wire,               \* the records written to the socket, in order
    retries,            \* times SSL_write asked for a retry
    failed,             \* history: threads on which SSL_write failed by itself
    overlapped,         \* history: a request came before the handshake ended, or
                        \* before the one before it was answered and its worker done
    crashed             \* a null timer was dereferenced

vars == <<sock, timer, entry, ssl, readBio, writeBio, pending, stack, fetched,
          sent, made, wire, retries, failed, overlapped, crashed>>

Reqs == 1 .. MaxRequests
Loop == 0
Threads == Reqs \cup {Loop}     \* a worker is named by the request it answers

Answers == [req : Reqs, part : {"whole", "head", "body"}]

\* What TLS says for itself: [req |-> 0] is nobody's answer.
Control(part) == [req |-> 0, part |-> part]

OutRecords == Answers \cup {Control("hello"), Control("alert"), Control("notify")}
InRecords == [kind : {"app"}, req : Reqs] \cup [kind : {"hello", "notify", "bad"}, req : {0}]

Entries == [present : BOOLEAN, timeout : BOOLEAN, n_requests : 0 .. MaxRequests]

\* Variant: n_requests has no initializer.
Uninitialized == [present |-> FALSE, timeout |-> FALSE, n_requests |-> MaxRequests + 1]

NoEntry == [present |-> FALSE, timeout |-> FALSE, n_requests |-> 0]

\* operator[] of `clients`: an entry with no timer when there is none.
EntryAt == [entry EXCEPT !.present = TRUE]

\* The calls on a stack.
Call(name) == [call |-> name]
AsyncWriteOf(a) == [call |-> "asyncWrite", answer |-> a]
SocketWriteOf(chunk) == [call |-> "socketWrite", chunk |-> chunk]
OnReadOf(r) == [call |-> "onRead", req |-> r]

Calls == [call : {"flushSslBuffer", "retry", "close", "closeSocket", "read", "count",
                  "route", "respond"}]
            \cup [call : {"asyncWrite"}, answer : Answers]
            \cup [call : {"socketWrite"}, chunk : Seq(OutRecords)]
            \cup [call : {"onRead"}, req : Reqs]

\* flush: the SSL buffer first, then the pending writes.
FlushCalls == <<Call("flushSslBuffer"), Call("retry")>>

LoopIdle == stack[Loop] = <<>> /\ ~crashed

At(t, name) == ~crashed /\ stack[t] # <<>> /\ Head(stack[t]).call = name

\* The call on top of the stack of t goes on with `calls`.
Goes(t, calls) == stack' = [stack EXCEPT ![t] = calls \o Tail(@)]

Closing == sock \in {"closing", "closed"}
Active == sock = "open"
Writable == ssl \in {"ready", "notified"}
Readable == ssl \in {"handshake", "ready", "shutdown"}

\* OpenSSL makes a record and leaves it in writeBio_.
Make(record) ==
    /\ made' = Append(made, record)
    /\ writeBio' = Append(writeBio, record)

Init ==
    /\ sock = "new"
    /\ timer = "none"
    /\ entry = NoEntry
    /\ ssl = "handshake"
    /\ readBio = <<>> /\ writeBio = <<>> /\ pending = <<>>
    /\ stack = [t \in Threads |-> <<>>]
    /\ fetched = {}
    /\ sent = 0
    /\ made = <<>> /\ wire = <<>>
    /\ retries = 0
    /\ failed = <<>>
    /\ overlapped = FALSE
    /\ crashed = FALSE

------------------------------------------------------------------------------
(***************************************************************************)
(* TlsConnection, on the loop or on a worker                               *)
(***************************************************************************)

\* asyncWrite when the socket is open, by what SSL_write returns: all of it,
\* WANT_READ or WANT_WRITE, or an error.  (The flush after the write and the
\* final one are one: flushing ends when nothing is left, whoever made it.)
Taken(t, a) ==
    /\ Writable
    /\ Make(a)
    /\ Goes(t, <<Call("flushSslBuffer")>>)
    /\ UNCHANGED <<ssl, pending, retries, failed>>

Refused(t, a) ==
    /\ Writable
    /\ retries < MaxRetries
    /\ retries' = retries + 1
    /\ pending' = Append(pending, a)
    /\ Goes(t, <<>>)
    /\ UNCHANGED <<ssl, made, writeBio, failed>>

Fails(t) ==
    /\ \/ /\ ~Writable
          /\ UNCHANGED <<ssl, failed>>
       \/ /\ Writable
          /\ Len(failed) < MaxFailures
          /\ ssl' = "failed"
          /\ failed' = Append(failed, t)
    /\ Goes(t, <<Call("close")>>)
    /\ UNCHANGED <<made, writeBio, pending, retries>>

AsyncWrite(t) ==
    /\ At(t, "asyncWrite")
    /\ \/ /\ Closing
          /\ Goes(t, <<>>)
          /\ UNCHANGED <<ssl, made, writeBio, pending, retries, failed>>
       \/ /\ ~Closing
          /\ LET a == Head(stack[t]).answer
             IN  Taken(t, a) \/ Refused(t, a) \/ Fails(t)
    /\ UNCHANGED <<sock, timer, entry, readBio, fetched, sent, wire, overlapped, crashed>>

\* flushSslBuffer: take what is in writeBio_, write it, look again.
FlushSslBuffer(t) ==
    /\ At(t, "flushSslBuffer")
    /\ IF Closing \/ writeBio = <<>>
       THEN Goes(t, <<>>) /\ UNCHANGED writeBio
       ELSE /\ writeBio' = <<>>
            /\ Goes(t, <<SocketWriteOf(writeBio), Call("flushSslBuffer")>>)
    /\ UNCHANGED <<sock, timer, entry, ssl, readBio, pending, fetched, sent, made,
                   wire, retries, failed, overlapped, crashed>>

\* The write after BIO_read.  On a socket closed in between it fails at once;
\* the ErrorEvent calls close(), which returns.
SocketWrite(t) ==
    /\ At(t, "socketWrite")
    /\ wire' = IF Closing THEN wire ELSE wire \o Head(stack[t]).chunk
    /\ Goes(t, <<>>)
    /\ UNCHANGED <<sock, timer, entry, ssl, readBio, writeBio, pending, fetched, sent,
                   made, retries, failed, overlapped, crashed>>

\* Variant: the pending writes are copied, not swapped away.
Copied == pending

SwappedAway == <<>>

\* The second half of flush: swap pendingWrites_ away and write each again.
\* (Once the socket is closing asyncWrite returns, as the loop there does.)
Retry(t) ==
    /\ At(t, "retry")
    /\ pending' = SwappedAway
    /\ Goes(t, [i \in DOMAIN pending |-> AsyncWriteOf(pending[i])])
    /\ UNCHANGED <<sock, timer, entry, ssl, readBio, writeBio, fetched, sent, made,
                   wire, retries, failed, overlapped, crashed>>

\* close up to socket_->close().  SSL_shutdown sends close_notify and returns
\* 0, and at the second call 1 if the peer has sent its own, or WANT_READ,
\* which flushes; it fails during the handshake and after a fatal error.
Close(t) ==
    /\ At(t, "close")
    /\ \/ /\ Closing
          /\ Goes(t, <<>>)
          /\ UNCHANGED <<ssl, made, writeBio>>
       \/ /\ ~Closing
          /\ ssl \in {"handshake", "failed", "over"}
          /\ Goes(t, <<Call("closeSocket")>>)
          /\ UNCHANGED <<ssl, made, writeBio>>
       \/ /\ ~Closing
          /\ ssl = "notified"
          /\ ssl' = "over"
          /\ Make(Control("notify"))
          /\ Goes(t, <<Call("closeSocket")>>)
       \/ /\ ~Closing
          /\ ssl = "ready"
          /\ ssl' = "shutdown"
          /\ Make(Control("notify"))
          /\ Goes(t, FlushCalls \o <<Call("closeSocket")>>)
       \/ /\ ~Closing
          /\ ssl = "shutdown"
          /\ Goes(t, FlushCalls \o <<Call("closeSocket")>>)
          /\ UNCHANGED <<ssl, made, writeBio>>
    /\ UNCHANGED <<sock, timer, entry, readBio, pending, fetched, sent, wire, retries,
                   failed, overlapped, crashed>>

\* Variant: onClose_ does not find the entry.
Remembered == entry

Forgotten == NoEntry

\* The rest of close: socket_->close(), and onClose_, which forgets the entry.
CloseSocket(t) ==
    /\ At(t, "closeSocket")
    /\ sock' = IF Closing THEN sock ELSE "closing"
    /\ entry' = Forgotten
    /\ Goes(t, <<>>)
    /\ UNCHANGED <<timer, ssl, readBio, writeBio, pending, fetched, sent, made, wire,
                   retries, failed, overlapped, crashed>>

------------------------------------------------------------------------------
(***************************************************************************)
(* Events, on the loop                                                     *)
(***************************************************************************)
ListenEvent ==
    /\ LoopIdle
    /\ sock = "new"
    /\ sock' = "open"
    /\ timer' = "armed"
    /\ entry' = [present |-> TRUE, timeout |-> TRUE, n_requests |-> 0]
    /\ UNCHANGED <<ssl, readBio, writeBio, pending, stack, fetched, sent, made, wire,
                   retries, failed, overlapped, crashed>>

\* The answer to r has reached the client.
Answered(r) ==
    LET parts == {a.part : a \in {b \in Range(wire) : b.req = r}}
    IN  "whole" \in parts \/ {"head", "body"} \subseteq parts

\* What one read of the socket may bring: the end of the handshake first, at
\* least one record, and nothing after the client's close or a bad record.
Batches ==
    LET hello == IF ssl = "handshake" THEN <<[kind |-> "hello", req |-> 0]>> ELSE <<>>
        apps(n) == [i \in 1 .. n |-> [kind |-> "app", req |-> sent + i]]
        ends == {<<>>} \cup {<<[kind |-> k, req |-> 0]>> : k \in {"notify", "bad"}}
        batch(n, end) == hello \o apps(n) \o end
    IN  {b \in {batch(n, end) : n \in 0 .. MaxRequests - sent, end \in ends} :
            Len(b) \in 1 .. MaxBatch}

\* DataEvent: the bytes go to readBio_, then SSL_read until it wants more.
DataEvent(batch) ==
    LET apps == {i \in DOMAIN batch : batch[i].kind = "app"}
    IN  /\ LoopIdle
        /\ sock = "open"
        /\ readBio' = readBio \o batch
        /\ sent' = sent + Cardinality(apps)
        /\ overlapped' = (overlapped \/ Cardinality(apps) > 1
                             \/ (apps # {} /\ (ssl = "handshake"
                                                  \/ \E r \in 1 .. sent :
                                                        ~Answered(r) \/ stack[r] # <<>>)))
        /\ stack' = [stack EXCEPT ![Loop] = <<Call("read")>>]
        /\ UNCHANGED <<sock, timer, entry, ssl, writeBio, pending, fetched, made, wire,
                       retries, failed, crashed>>

\* The client closes its side: no handler, libuv stops reading.
EndEvent ==
    /\ LoopIdle
    /\ sock = "open"
    /\ sock' = "eof"
    /\ UNCHANGED <<timer, entry, ssl, readBio, writeBio, pending, stack, fetched, sent,
                   made, wire, retries, failed, overlapped, crashed>>

\* ErrorEvent of a read or of an earlier write: the handler of postCreate
\* closes, the one of server.cpp only logs.
ErrorEvent ==
    /\ LoopIdle
    /\ sock = "open" \/ (sock = "eof" /\ wire # <<>>)
    /\ stack' = [stack EXCEPT ![Loop] = <<Call("close")>>]
    /\ UNCHANGED <<sock, timer, entry, ssl, readBio, writeBio, pending, fetched, sent,
                   made, wire, retries, failed, overlapped, crashed>>

\* Variant: the handler of the timer calls nothing.
TimerIdles == <<>>

TimerCalls == <<Call("close")>>

\* Five seconds without a request.  Nobody stops the timer of a connection
\* that closed otherwise: close() then returns.
TimerEvent ==
    /\ LoopIdle
    /\ timer = "armed"
    /\ timer' = "fired"
    /\ stack' = [stack EXCEPT ![Loop] = TimerCalls]
    /\ UNCHANGED <<sock, entry, ssl, readBio, writeBio, pending, fetched, sent, made,
                   wire, retries, failed, overlapped, crashed>>

\* CloseEvent: its handler does nothing.
CloseEvent ==
    /\ LoopIdle
    /\ sock = "closing"
    /\ sock' = "closed"
    /\ UNCHANGED <<timer, entry, ssl, readBio, writeBio, pending, stack, fetched, sent,
                   made, wire, retries, failed, overlapped, crashed>>

\* Variant: the head is written after the body.
BodyFirst == {<<"whole">>, <<"body", "head">>}

\* An error in one piece, or the head and then the body.
FileAnswers == {<<"whole">>, <<"head", "body">>}

\* The AsyncEvent of a file: nothing for a connection no longer read from.
AsyncEvent(r) ==
    /\ LoopIdle
    /\ r \in fetched
    /\ fetched' = fetched \ {r}
    /\ \E parts \in FileAnswers :
          stack' = IF Active
                   THEN [stack EXCEPT ![Loop] =
                            [i \in DOMAIN parts |-> AsyncWriteOf([req |-> r, part |-> parts[i]])]]
                   ELSE stack
    /\ UNCHANGED <<sock, timer, entry, ssl, readBio, writeBio, pending, sent, made, wire,
                   retries, failed, overlapped, crashed>>

------------------------------------------------------------------------------
(***************************************************************************)
(* onSocketData and onRead, on the loop                                    *)
(***************************************************************************)

\* One SSL_read.  An error closes and leaves the loop; WANT_READ flushes.
SslRead ==
    /\ At(Loop, "read")
    /\ \/ /\ ~Readable
          /\ Goes(Loop, <<Call("close")>>)
          /\ UNCHANGED <<ssl, readBio, made, writeBio>>
       \/ /\ Readable
          /\ readBio = <<>>
          /\ Goes(Loop, FlushCalls)
          /\ UNCHANGED <<ssl, readBio, made, writeBio>>
       \/ /\ Readable
          /\ readBio # <<>>
          /\ readBio' = Tail(readBio)
          /\ LET record == Head(readBio)
             IN  \/ /\ record.kind = "hello"
                    /\ ssl' = "ready"
                    /\ Make(Control("hello"))
                    /\ UNCHANGED stack
                 \/ /\ record.kind = "app"
                    /\ Goes(Loop, <<OnReadOf(record.req), Call("read")>>)
                    /\ UNCHANGED <<ssl, made, writeBio>>
                 \/ /\ record.kind = "notify"
                    /\ ssl' = IF ssl = "shutdown" THEN "over" ELSE "notified"
                    /\ Goes(Loop, <<Call("close")>>)
                    /\ UNCHANGED <<made, writeBio>>
                 \/ /\ record.kind = "bad"
                    /\ ssl' = "failed"
                    /\ Make(Control("alert"))
                    /\ Goes(Loop, <<Call("close")>>)
    /\ UNCHANGED <<sock, timer, entry, pending, fetched, sent, wire, retries, failed,
                   overlapped, crashed>>

\* onRead up to the return of _handle_request: restart the timer of the entry,
\* which is taken to be there; answer at once, or leave it to a worker, or to
\* an AsyncEvent (a file, once read); a socket that is not active is not answered.
OnRead ==
    /\ At(Loop, "onRead")
    /\ LET r == Head(stack[Loop]).req
       IN  \/ /\ ~entry.timeout
              /\ crashed' = TRUE
              /\ UNCHANGED <<timer, stack, fetched>>
           \/ /\ entry.timeout
              /\ timer' = "armed"
              /\ UNCHANGED crashed
              /\ \/ /\ ~Active
                    /\ Goes(Loop, <<Call("count")>>)
                    /\ UNCHANGED fetched
                 \/ /\ Active
                    /\ Goes(Loop, <<AsyncWriteOf([req |-> r, part |-> "whole"]), Call("count")>>)
                    /\ UNCHANGED fetched
                 \/ /\ Active
                    /\ stack' = [stack EXCEPT ![Loop] = <<Call("count")>> \o Tail(@),
                                              ![r] = <<Call("route"), Call("respond")>>]
                    /\ UNCHANGED fetched
                 \/ /\ Active
                    /\ fetched' = fetched \cup {r}
                    /\ Goes(Loop, <<Call("count")>>)
    /\ UNCHANGED <<sock, entry, ssl, readBio, writeBio, pending, sent, made, wire,
                   retries, failed, overlapped>>

\* Variant: what onClose does is done at the limit as well.
ForgetAtLimit(e) == NoEntry

LeftAtLimit(e) == e

OverLimit(e) == e.n_requests > MaxKeepAlive

\* The rest of onRead: count the request, close the socket after one too many
\* (the socket only: no SSL_shutdown, no onClose).
CountRequest ==
    /\ At(Loop, "count")
    /\ LET counted == [EntryAt EXCEPT !.n_requests = @ + 1]
       IN  /\ entry' = IF OverLimit(counted) THEN LeftAtLimit(counted) ELSE counted
           /\ sock' = IF OverLimit(counted) /\ ~Closing THEN "closing" ELSE sock
    /\ Goes(Loop, <<>>)
    /\ UNCHANGED <<timer, ssl, readBio, writeBio, pending, fetched, sent, made, wire,
                   retries, failed, overlapped, crashed>>

------------------------------------------------------------------------------
(***************************************************************************)
(* _handle_route, on a worker                                              *)
(***************************************************************************)

\* clients[conn->getClient()] inserts an entry when there is none.
Route(r) ==
    /\ At(r, "route")
    /\ entry' = EntryAt
    /\ Goes(r, <<>>)
    /\ UNCHANGED <<sock, timer, ssl, readBio, writeBio, pending, fetched, sent, made,
                   wire, retries, failed, overlapped, crashed>>

\* _send_response: test isOpen, then asyncWrite.
Respond(r) ==
    /\ At(r, "respond")
    /\ Goes(r, IF Closing THEN <<>> ELSE <<AsyncWriteOf([req |-> r, part |-> "whole"])>>)
    /\ UNCHANGED <<sock, timer, entry, ssl, readBio, writeBio, pending, fetched, sent,
                   made, wire, retries, failed, overlapped, crashed>>

------------------------------------------------------------------------------
Event ==
    \/ ListenEvent
    \/ \E batch \in Batches : DataEvent(batch)
    \/ EndEvent
    \/ ErrorEvent
    \/ TimerEvent
    \/ CloseEvent
    \/ \E r \in Reqs : AsyncEvent(r)

Step(t) ==
    \/ AsyncWrite(t)
    \/ FlushSslBuffer(t)
    \/ SocketWrite(t)
    \/ Retry(t)
    \/ Close(t)
    \/ CloseSocket(t)

LoopStep == Step(Loop) \/ SslRead \/ OnRead \/ CountRequest

WorkerStep(r) == Step(r) \/ Route(r) \/ Respond(r)

Next ==
    \/ Event
    \/ LoopStep
    \/ \E r \in Reqs : WorkerStep(r)

\* The loop and the workers go on with their calls, and libuv delivers what
\* is pending.  Clients owe nothing.
Fairness ==
    /\ WF_vars(LoopStep)
    /\ \A r \in Reqs : WF_vars(WorkerStep(r)) /\ WF_vars(AsyncEvent(r))
    /\ WF_vars(TimerEvent)
    /\ WF_vars(CloseEvent)

Spec == Init /\ [][Next]_vars

FairSpec == Spec /\ Fairness

------------------------------------------------------------------------------
(***************************************************************************)
(* Properties                                                              *)
(***************************************************************************)
TypeOK ==
    /\ sock \in {"new", "open", "eof", "closing", "closed"}
    /\ timer \in {"none", "armed", "fired"}
    /\ entry \in Entries
    /\ ssl \in {"handshake", "ready", "notified", "shutdown", "over", "failed"}
    /\ readBio \in Seq(InRecords)
    /\ writeBio \in Seq(OutRecords)
    /\ pending \in Seq(Answers)
    /\ stack \in [Threads -> Seq(Calls)]
    /\ fetched \subseteq Reqs
    /\ sent \in 0 .. MaxRequests
    /\ made \in Seq(OutRecords)
    /\ wire \in Seq(OutRecords)
    /\ retries \in 0 .. MaxRetries
    /\ failed \in Seq(Threads)
    /\ overlapped \in BOOLEAN
    /\ crashed \in BOOLEAN

\* onRead goes through clients[client].timeout with no test, once for each
\* record of a read, also after an answer or a worker closed the connection.
\* The entry is there, and the process survives, unless SSL_write failed on a
\* worker, whose close() then runs between SSL_read and onRead of the loop.
LiveHasTimer ==
    (\A i \in DOMAIN failed : failed[i] = Loop)
        => ~crashed /\ (Active => entry.timeout)

\* What stays in `clients` once a connection is closed was inserted with no
\* timer by a thread that came late, or is left by the request limit, which
\* closes the socket and not the TlsConnection.
LeftoversExplained ==
    sock = "closed" /\ entry.present => ~entry.timeout \/ OverLimit(entry)

\* The answers a thread has still to hand to asyncWrite.
Unwritten(t) == {c.answer : c \in {d \in Range(stack[t]) : d.call = "asyncWrite"}}

\* Request r is still to be read, handled or fetched.
Awaited(r) ==
    \/ r \in fetched
    \/ \E i \in DOMAIN readBio : readBio[i].req = r
    \/ \E i \in DOMAIN stack[Loop] : stack[Loop][i] = OnReadOf(r)
    \/ \E i \in DOMAIN stack[r] : stack[r][i].call = "respond"

\* The chunks between BIO_read and the socket.
Held == UNION {{c.chunk : c \in {d \in Range(stack[t]) : d.call = "socketWrite"}} : t \in Threads}

\* While OpenSSL works and the socket is read from, no answer is lost or repeated
\* on its way through pendingWrites_, the SSL object, the BIO and the local
\* buffers of the threads that flush.
WritesConserved ==
    LET waiting == Range(pending) \cup UNION {Unwritten(t) : t \in Threads}
        parts(r) == {a.part : a \in {b \in waiting \cup Range(made) : b.req = r}}
    IN  /\ \A i, j \in DOMAIN made : made[i] = made[j] => i = j
        /\ Range(pending) \cap Range(made) = {}
        /\ \A i, j \in DOMAIN pending : pending[i] = pending[j] => i = j
        /\ ssl = "ready" /\ Active /\ ~crashed =>
              /\ \A r \in 1 .. sent :
                    Awaited(r) \/ "whole" \in parts(r) \/ {"head", "body"} \subseteq parts(r)
              /\ Range(made) = Range(wire) \cup Range(writeBio)
                                  \cup UNION {Range(chunk) : chunk \in Held}

\* BIO_read and the write to the socket are two steps, on any thread.  As long
\* as requests do not overlap, the client gets the records as OpenSSL made them,
\* so that it can decrypt them, until the connection is being closed, the answers
\* in the order of the requests and, if no write had to be retried, heads before
\* bodies.  (It is not enough that the client waits for its answers: the worker
\* of the last one may still be in flushSslBuffer, take the head of a file out
\* of the BIO, and write it after the loop has written the body.)
StreamIntact ==
    ~overlapped /\ ssl = "ready" =>
        /\ IsPrefix(wire, made)
        /\ \A i, j \in DOMAIN made : i < j /\ made[j].req # 0 => made[i].req <= made[j].req
        /\ retries = 0 =>
              \A j \in DOMAIN made : made[j].part = "body" =>
                  \E i \in 1 .. j - 1 : made[i] = [made[j] EXCEPT !.part = "head"]

\* The calls return, although close, flush and asyncWrite call each other, and
\* the connection is closed in the end: by its client, an error, the request
\* limit or five idle seconds.
ConnectionEnds ==
    []<>(crashed \/ (sock \in {"new", "closed"} /\ \A t \in Threads : stack[t] = <<>>))
==============================================================================
