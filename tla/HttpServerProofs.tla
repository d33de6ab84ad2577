-------------------------- MODULE HttpServerProofs ---------------------------
(***************************************************************************)
(* Proofs about HttpServer, for every finite set of connections, every     *)
(* number of threads and every request limit.                              *)
(***************************************************************************)
EXTENDS HttpServer, FiniteSetTheorems, SequenceTheorems, TLAPS

Counting(c) == loop.at = "counting" /\ loop.req[1] = c

(***************************************************************************)
(* The invariant of one connection.  Its requests are numbered without a   *)
(* gap; as long as the socket is read from, the entry of the map is the    *)
(* one ListenEvent made, and while the loop runs it counts these requests  *)
(* and is within the limit whenever another request may come.              *)
(***************************************************************************)
ConnInv(c) ==
    /\ IsFiniteSet(Sent(c))
    /\ Sent(c) = {<<c, i>> : i \in 1 .. Cardinality(Sent(c))}
    /\ sock[c] = "new" => Sent(c) = {}
    /\ Counting(c) => Active(c)
    /\ Active(c) =>
          /\ c \in DOMAIN clients
          /\ clients[c].timeout
          /\ timer[c] = "armed"
          /\ Counting(c) => clients[c].n_requests + 1 = Cardinality(Sent(c))
          /\ ~Counting(c) /\ loop # Down =>
                /\ clients[c].n_requests = Cardinality(Sent(c))
                /\ clients[c].n_requests <= MaxKeepAlive
    /\ c \in DOMAIN clients /\ sock[c] = "closed" => clients[c] = Ghost

\* The request whose head was just written is still in the hands of the loop.
BodyInv == loop.at = "body" => phase[loop.req] = "fetched"

IInv == TypeOK /\ (\A c \in Conns : ConnInv(c)) /\ BodyInv

\* A task that ends the process changes nothing else.
LEMMA WhileItRuns ==
    ASSUME TypeOK, [Next]_vars
    PROVE  [Step]_svars /\ terminated' \in BOOLEAN
BY DEF TypeOK, Next, Running, TaskThrows, vars

------------------------------------------------------------------------------
(* The requests of a connection                                             *)

LEMMA ReqParts ==
    ASSUME NEW r \in Reqs
    PROVE  r = <<r[1], r[2]>> /\ r[1] \in Conns /\ r[2] \in 1 .. MaxKeepAlive + 1
BY DEF Reqs

\* The numbers of the requests that came are bounded by the limit.
LEMMA SentBounded ==
    ASSUME NEW c \in Conns, ConnInv(c)
    PROVE  Cardinality(Sent(c)) \in 0 .. MaxKeepAlive + 1
<1>1. Cardinality(Sent(c)) \in Nat
  BY FS_CardinalityType DEF ConnInv
<1>2. CASE Cardinality(Sent(c)) = 0
  BY <1>2, MaxKeepAliveAssumption
<1>3. CASE Cardinality(Sent(c)) # 0
  <2>1. <<c, Cardinality(Sent(c))>> \in Sent(c)
    BY <1>1, <1>3 DEF ConnInv
  <2>2. Cardinality(Sent(c)) \in 1 .. MaxKeepAlive + 1
    BY <2>1 DEF Sent, Reqs
  <2> QED
    BY <2>2, MaxKeepAliveAssumption
<1> QED
  BY <1>2, <1>3

\* While a connection may send, its next request is within the model.
LEMMA NextRequestType ==
    ASSUME TypeOK, NEW c \in Conns, ConnInv(c), Active(c), ~Counting(c), loop # Down
    PROVE  /\ NextRequest(c) \in Reqs
           /\ NextRequest(c)[1] = c
           /\ phase[NextRequest(c)] = "none"
<1>1. Cardinality(Sent(c)) \in 0 .. MaxKeepAlive
  BY SentBounded, MaxKeepAliveAssumption DEF ConnInv, TypeOK, Entry
<1>2. NextRequest(c) \in Reqs /\ NextRequest(c)[1] = c
  BY <1>1, MaxKeepAliveAssumption DEF NextRequest, Reqs
<1>3. NextRequest(c) \notin Sent(c)
  BY <1>1 DEF NextRequest, ConnInv
<1> QED
  BY <1>2, <1>3 DEF Sent

\* A step that brings no new request.
LEMMA SentKept ==
    ASSUME NEW c \in Conns,
           \A r \in Reqs : phase'[r] = "none" <=> phase[r] = "none"
    PROVE  Sent(c)' = Sent(c)
BY DEF Sent

\* A step that leaves connection c alone.
LEMMA Untouched ==
    ASSUME NEW c \in Conns, ConnInv(c),
           Sent(c)' = Sent(c), sock'[c] = sock[c], timer'[c] = timer[c],
           c \in DOMAIN clients' <=> c \in DOMAIN clients,
           c \in DOMAIN clients => clients'[c] = clients[c],
           Counting(c)' <=> Counting(c),
           loop' # Down => loop # Down
    PROVE  ConnInv(c)'
BY DEF ConnInv, Active

\* A step that may only add a ghost for c.
LEMMA GhostAdded ==
    ASSUME NEW c \in Conns, ConnInv(c),
           Sent(c)' = Sent(c), sock'[c] = sock[c], timer'[c] = timer[c],
           c \in DOMAIN clients => c \in DOMAIN clients' /\ clients'[c] = clients[c],
           c \in DOMAIN clients' /\ c \notin DOMAIN clients => clients'[c] = Ghost,
           Counting(c)' <=> Counting(c),
           loop' # Down => loop # Down
    PROVE  ConnInv(c)'
BY DEF ConnInv, Active

\* A step after which c is not read from, and not yet or no more known as
\* closed with an entry of its own.
LEMMA Inactive ==
    ASSUME NEW c \in Conns, ConnInv(c),
           Sent(c)' = Sent(c), ~Active(c)', ~Counting(c)',
           sock'[c] = "new" => sock[c] = "new",
           c \in DOMAIN clients' /\ sock'[c] = "closed" => clients'[c] = Ghost
    PROVE  ConnInv(c)'
BY DEF ConnInv

------------------------------------------------------------------------------
(* Types                                                                    *)

LEMMA InitType == Init => TypeOK
<1> SUFFICES ASSUME Init
             PROVE  TypeOK
  OBVIOUS
<1>1. together \subseteq Reqs \X Reqs
  BY DEF Init
<1>2. /\ DOMAIN clients \subseteq Conns
      /\ \A c \in DOMAIN clients : clients[c] \in Entry
      /\ queue \in Seq(Reqs)
  BY EmptySeq DEF Init
<1>3. /\ loop \in LoopStates
      /\ sock \in [Conns -> {"new", "open", "eof", "broken", "closing", "closed"}]
      /\ timer \in [Conns -> {"none", "armed", "fired"}]
      /\ phase \in [Reqs -> Phases]
      /\ req \in [Reqs -> [kind : Kinds \cup {"none"}, keep_alive : BOOLEAN]]
      /\ echo \in [Reqs -> BOOLEAN]
  BY DEF Init, LoopStates, Idle, Phases
<1>4. wire \in [Conns -> Seq(Answers)]
  BY EmptySeq DEF Init
<1>5. terminated \in BOOLEAN
  BY Zenon DEF Init
<1> QED
  BY <1>1, <1>2, <1>3, <1>4, <1>5 DEF TypeOK

LEMMA PutType ==
    ASSUME TypeOK, NEW c \in Conns, NEW e \in Entry, clients' = Put(clients, c, e)
    PROVE  /\ DOMAIN clients' \subseteq Conns
           /\ \A x \in DOMAIN clients' : clients'[x] \in Entry
BY DEF Put, TypeOK

LEMMA ForgetType ==
    ASSUME TypeOK, NEW c \in Conns, clients' = Forget(c)
    PROVE  /\ DOMAIN clients' \subseteq Conns
           /\ \A x \in DOMAIN clients' : clients'[x] \in Entry
BY DEF Forget, Remove, Restrict, TypeOK

LEMMA GhostType == Ghost \in Entry
BY MaxKeepAliveAssumption DEF Ghost, Entry

LEMMA AppendAt ==
    ASSUME NEW S, NEW A, NEW f \in [S -> Seq(A)], NEW x \in S, NEW a \in A
    PROVE  [f EXCEPT ![x] = Append(@, a)] \in [S -> Seq(A)]
OBVIOUS

LEMMA SendType ==
    ASSUME TypeOK, NEW r \in Reqs, NEW part \in Parts, Send(r, part)
    PROVE  wire' \in [Conns -> Seq(Answers)]
<1>1. r[1] \in Conns
  BY ReqParts
<1>2. Answer(r, part) \in Answers
  BY DEF Answer, Answers, TypeOK
<1> QED
  BY <1>1, <1>2, AppendAt DEF Send, TypeOK

LEMMA NextType ==
    ASSUME IInv, [Step]_svars, terminated' \in BOOLEAN
    PROVE  TypeOK'
<1> USE DEF TypeOK, Phases
<1>0. TypeOK /\ \A c \in Conns : ConnInv(c)
  BY DEF IInv
<1>1. ASSUME NEW c \in Conns, ListenEvent(c)
      PROVE  TypeOK'
  <2>1. [keep_alive |-> TRUE, n_requests |-> 0, timeout |-> TRUE] \in Entry
    BY MaxKeepAliveAssumption DEF Entry
  <2>2. /\ DOMAIN clients' \subseteq Conns
        /\ \A x \in DOMAIN clients' : clients'[x] \in Entry
    BY <1>0, <1>1, <2>1, PutType DEF ListenEvent
  <2> QED
    BY <1>0, <1>1, <2>2 DEF ListenEvent
<1>2. ASSUME NEW c \in Conns, NEW kind \in Kinds, NEW ka \in BOOLEAN, DataEvent(c, kind, ka)
      PROVE  TypeOK'
  <2>1. PICK r : r = NextRequest(c)
    OBVIOUS
  <2>2. Active(c) /\ ~Counting(c) /\ loop # Down /\ c \in DOMAIN clients
    BY <1>0, <1>2 DEF DataEvent, Active, Counting, Idle, Down, ConnInv
  <2>3. r \in Reqs
    BY <1>0, <2>1, <2>2, NextRequestType
  <2>4. /\ DOMAIN clients' \subseteq Conns
        /\ \A x \in DOMAIN clients' : clients'[x] \in Entry
    BY <1>0, <1>2, ZenonT(60) DEF DataEvent, KeepAliveOf, Entry
  <2>5. /\ loop' \in LoopStates
        /\ queue' \in Seq(Reqs)
        /\ phase' \in [Reqs -> Phases]
    <3>1. [at |-> "counting", req |-> r] \in LoopStates /\ Down \in LoopStates
      BY <2>3 DEF LoopStates
    <3>2. loop' \in {[at |-> "counting", req |-> r], Down}
      BY <1>2, <2>1 DEF DataEvent
    <3>3. queue' \in {queue, Append(queue, r)}
      BY <1>2, <2>1 DEF DataEvent
    <3>4. \E x \in Phases : phase' = [phase EXCEPT ![r] = x]
      BY <1>2, <2>1 DEF DataEvent
    <3>5. phase' \in [Reqs -> Phases]
      BY <1>0, <2>3, <3>4
    <3>6. queue' \in Seq(Reqs)
      <4>1. queue \in Seq(Reqs)
        BY <1>0
      <4>2. Append(queue, r) \in Seq(Reqs)
        BY <2>3, <4>1, AppendProperties
      <4> QED
        BY <3>3, <4>1, <4>2
    <3> QED
      BY <3>1, <3>2, <3>5, <3>6
  <2>6. wire' \in [Conns -> Seq(Answers)]
    <3>1. CASE Send(r, "whole")
      BY <1>0, <2>3, <3>1, SendType DEF Parts
    <3>2. CASE wire' = wire
      BY <1>0, <3>2
    <3> QED
      BY <1>2, <2>1, <3>1, <3>2 DEF DataEvent
  <2>7. /\ req' \in [Reqs -> [kind : Kinds \cup {"none"}, keep_alive : BOOLEAN]]
        /\ timer' \in [Conns -> {"none", "armed", "fired"}]
        /\ sock' = sock /\ echo' = echo
    BY <1>0, <1>2, <2>1, <2>3 DEF DataEvent
  <2>8. together' \subseteq Reqs \X Reqs
    BY <1>0, <1>2, <2>1, <2>3 DEF DataEvent, Outstanding
  <2> QED
    BY <1>0, <2>4, <2>5, <2>6, <2>7, <2>8
<1>3. CASE CountRequest
  <2>1. PICK c \in Conns : c = loop.req[1] /\ loop.at = "counting"
    BY <1>0, <1>3, ReqParts DEF CountRequest, LoopStates, Idle, Down
  <2>2. Active(c) /\ Counting(c)
    BY <1>0, <2>1 DEF Counting, ConnInv
  <2>3. clients[c].n_requests + 1 \in 0 .. MaxKeepAlive + 1
    BY <1>0, <2>2, SentBounded, MaxKeepAliveAssumption, ZenonT(60) DEF ConnInv, Entry
  <2>4. /\ DOMAIN clients' \subseteq Conns
        /\ \A x \in DOMAIN clients' : clients'[x] \in Entry
    BY <1>0, <1>3, <2>1, <2>3 DEF CountRequest, Entry
  <2>5. sock' \in [Conns -> {"new", "open", "eof", "broken", "closing", "closed"}]
    BY <1>0, <1>3 DEF CountRequest, Closing
  <2> QED
    BY <1>0, <1>3, <2>4, <2>5 DEF CountRequest, LoopStates
<1>4. ASSUME NEW c \in Conns, EndEvent(c)
      PROVE  TypeOK'
  BY <1>0, <1>4 DEF EndEvent
<1>5. ASSUME NEW c \in Conns, ErrorEvent(c)
      PROVE  TypeOK'
  BY <1>0, <1>5, ForgetType DEF ErrorEvent, CloseIfActive, Closing
<1>6. ASSUME NEW c \in Conns, TimerEvent(c)
      PROVE  TypeOK'
  BY <1>0, <1>6 DEF TimerEvent, TimerCloses, Closing
<1>7. ASSUME NEW c \in Conns, CloseEvent(c)
      PROVE  TypeOK'
  BY <1>0, <1>7, ForgetType DEF CloseEvent
<1>8. CASE StartTask
  <2>1. queue' \in Seq(Reqs)
    BY <1>0, <1>8 DEF StartTask
  <2>2. phase' \in [Reqs -> Phases]
    BY <1>0, <1>8 DEF StartTask, MoveTo
  <2> QED
    BY <1>0, <1>8, <2>1, <2>2 DEF StartTask
<1>9. ASSUME NEW r \in Reqs, HandleRoute(r)
      PROVE  TypeOK'
  BY <1>0, <1>9 DEF HandleRoute, MoveTo, FailedPhase
<1>10. ASSUME NEW r \in Reqs, ReadKeepAlive(r)
       PROVE  TypeOK'
  <2>1. PICK e : e = IF r[1] \in DOMAIN clients THEN clients[r[1]] ELSE Ghost
    OBVIOUS
  <2>2. e \in Entry /\ r[1] \in Conns
    BY <1>0, <2>1, GhostType, ReqParts
  <2>3. /\ DOMAIN clients' \subseteq Conns
        /\ \A x \in DOMAIN clients' : clients'[x] \in Entry
    BY <1>0, <1>10, <2>1, <2>2, PutType DEF ReadKeepAlive
  <2>4. e.keep_alive \in BOOLEAN
    BY <2>2 DEF Entry
  <2> QED
    BY <1>0, <1>10, <2>1, <2>3, <2>4 DEF ReadKeepAlive, MoveTo
<1>11. ASSUME NEW r \in Reqs, CheckOpen(r)
       PROVE  TypeOK'
  BY <1>0, <1>11 DEF CheckOpen, MoveTo
<1>12. ASSUME NEW r \in Reqs, Write(r)
       PROVE  TypeOK'
  <2>1. phase' \in [Reqs -> Phases]
    BY <1>0, <1>12 DEF Write, MoveTo
  <2>2. /\ DOMAIN clients' \subseteq Conns
        /\ \A x \in DOMAIN clients' : clients'[x] \in Entry
    BY <1>0, <1>12, ReqParts, ForgetType DEF Write
  <2>3. wire' \in [Conns -> Seq(Answers)]
    BY <1>0, <1>12, SendType DEF Write, Parts
  <2> QED
    BY <1>0, <1>12, <2>1, <2>2, <2>3 DEF Write
<1>13. ASSUME NEW r \in Reqs, ReadFile(r)
       PROVE  TypeOK'
  BY <1>0, <1>13 DEF ReadFile, MoveTo, AsyncSent
<1>14. ASSUME NEW r \in Reqs, AsyncEvent(r)
       PROVE  TypeOK'
  <2>1. wire' \in [Conns -> Seq(Answers)]
    BY <1>0, <1>14, SendType DEF AsyncEvent, Parts
  <2>2. loop' \in LoopStates
    BY <1>0, <1>14 DEF AsyncEvent, LoopStates
  <2>3. phase' \in [Reqs -> Phases]
    BY <1>0, <1>14, SMTT(30) DEF AsyncEvent
  <2> QED
    BY <1>0, <1>14, <2>1, <2>2, <2>3 DEF AsyncEvent
<1>15. CASE SendBody
  <2>1. loop.req \in Reqs
    BY <1>0, <1>15 DEF SendBody, LoopStates, Idle, Down
  <2>2. wire' \in [Conns -> Seq(Answers)]
    BY <1>0, <1>15, <2>1, SendType DEF SendBody, Parts
  <2> QED
    BY <1>0, <1>15, <2>1, <2>2 DEF SendBody, LoopStates
<1>16. CASE UNCHANGED svars
  BY <1>0, <1>16 DEF svars
<1> QED
  BY <1>1, <1>2, <1>3, <1>4, <1>5, <1>6, <1>7, <1>8, <1>9, <1>10, <1>11, <1>12,
     <1>13, <1>14, <1>15, <1>16 DEF Step, ConnEvent, WorkerStep

------------------------------------------------------------------------------
(* The map of connections                                                   *)

LEMMA InitConn == Init => \A c \in Conns : ConnInv(c)
<1> SUFFICES ASSUME Init, NEW c \in Conns
             PROVE  ConnInv(c)
  OBVIOUS
<1>1. Sent(c) = {}
  BY DEF Sent, Init
<1>2. IsFiniteSet(Sent(c)) /\ Cardinality(Sent(c)) = 0
  BY <1>1, FS_EmptySet
<1>3. Sent(c) = {<<c, i>> : i \in 1 .. Cardinality(Sent(c))}
  BY <1>1, <1>2
<1> QED
  BY <1>1, <1>2, <1>3 DEF ConnInv, Init, Active, Counting, Idle

\* What no connection notices: a step of a worker or of the loop that leaves
\* sockets, timers and the map as they are.
LEMMA QuietStep ==
    ASSUME \A c \in Conns : ConnInv(c),
           \A r \in Reqs : phase'[r] = "none" <=> phase[r] = "none",
           UNCHANGED <<sock, timer, clients>>,
           loop' = loop \/ (loop.at \notin {"counting", "down"} /\ loop'.at # "counting")
    PROVE  \A c \in Conns : ConnInv(c)'
<1> SUFFICES ASSUME NEW c \in Conns
             PROVE  ConnInv(c)'
  OBVIOUS
<1>1. Sent(c)' = Sent(c)
  BY SentKept
<1>2. (Counting(c)' <=> Counting(c)) /\ (loop' # Down => loop # Down)
  BY DEF Counting, Down
<1> QED
  BY <1>1, <1>2, Untouched

LEMMA ForgetOthers ==
    ASSUME NEW c \in Conns, NEW d \in Conns, d # c, clients' = Forget(c)
    PROVE  /\ d \in DOMAIN clients' <=> d \in DOMAIN clients
           /\ d \in DOMAIN clients => clients'[d] = clients[d]
           /\ c \notin DOMAIN clients'
BY DEF Forget, Remove, Restrict

LEMMA ForgetIt ==
    ASSUME NEW c \in Conns, clients' = Forget(c)
    PROVE  c \notin DOMAIN clients'
BY DEF Forget, Remove, Restrict

LEMMA PutOthers ==
    ASSUME NEW c \in Conns, NEW e, clients' = Put(clients, c, e)
    PROVE  /\ c \in DOMAIN clients' /\ clients'[c] = e
           /\ \A d \in Conns \ {c} : d \in DOMAIN clients' <=> d \in DOMAIN clients
           /\ \A d \in Conns \ {c} : d \in DOMAIN clients => clients'[d] = clients[d]
BY DEF Put

LEMMA ClosingIt ==
    ASSUME TypeOK, NEW c \in Conns, sock' = Closing(c)
    PROVE  /\ sock'[c] # "open"
           /\ sock'[c] = "new" <=> sock[c] = "new"
           /\ sock'[c] = "closed" <=> sock[c] = "closed"
           /\ \A d \in Conns \ {c} : sock'[d] = sock[d]
BY DEF TypeOK, Closing, IsOpen

\* Data on connection c: one more request, and c is being counted, or the
\* loop is down.
LEMMA DataStep ==
    ASSUME IInv, NEW c \in Conns, NEW kind \in Kinds, NEW ka \in BOOLEAN,
           DataEvent(c, kind, ka)
    PROVE  \A d \in Conns : ConnInv(d)'
<1>0. TypeOK /\ \A d \in Conns : ConnInv(d)
  BY DEF IInv
<1>1. PICK r : r = NextRequest(c)
  OBVIOUS
<1>2. Active(c) /\ loop = Idle /\ loop # Down /\ \A d \in Conns : ~Counting(d)
  BY DEF DataEvent, Active, Counting, Idle, Down
<1>3. r \in Reqs /\ r[1] = c /\ phase[r] = "none"
  BY <1>0, <1>1, <1>2, NextRequestType
<1>4. /\ phase'[r] # "none"
      /\ \A q \in Reqs \ {r} : phase'[q] = phase[q]
  BY <1>0, <1>1, <1>3 DEF DataEvent, TypeOK
<1>5. loop' = [at |-> "counting", req |-> r] \/ loop' = Down
  BY <1>1 DEF DataEvent
<1>6. /\ DOMAIN clients' = DOMAIN clients
      /\ \A d \in DOMAIN clients : d # c => clients'[d] = clients[d]
      /\ c \in DOMAIN clients => /\ clients'[c].n_requests = clients[c].n_requests
                                  /\ clients'[c].timeout = clients[c].timeout
  BY <1>0 DEF DataEvent, TypeOK, Entry
<1>7. /\ sock' = sock
      /\ timer'[c] = "armed"
      /\ \A d \in Conns \ {c} : timer'[d] = timer[d]
  BY <1>0 DEF DataEvent, TypeOK
<1>8. ASSUME NEW d \in Conns, d # c
      PROVE  ConnInv(d)'
  <2>1. Sent(d)' = Sent(d)
    BY <1>3, <1>4, <1>8 DEF Sent
  <2>2. ~Counting(d)'
    BY <1>3, <1>5, <1>8 DEF Counting, Down
  <2> QED
    BY <1>0, <1>2, <1>6, <1>7, <1>8, <2>1, <2>2, Untouched
<1>9. ConnInv(c)'
  <2>1. PICK n : n = Cardinality(Sent(c))
    OBVIOUS
  <2>2. n \in 0 .. MaxKeepAlive + 1 /\ IsFiniteSet(Sent(c))
    BY <1>0, <2>1, SentBounded DEF ConnInv
  <2>3. n \in Nat /\ n + 1 \in Nat
    BY <2>2, MaxKeepAliveAssumption
  <2>4. r = <<c, n + 1>>
    BY <1>1, <2>1 DEF NextRequest
  <2>5. Sent(c)' = Sent(c) \cup {r}
    BY <1>3, <1>4 DEF Sent
  <2>6. r \notin Sent(c)
    BY <1>3 DEF Sent
  <2>7. IsFiniteSet(Sent(c)') /\ Cardinality(Sent(c)') = n + 1
    BY <2>1, <2>2, <2>5, <2>6, FS_AddElement
  <2>8. Sent(c) = {<<c, i>> : i \in 1 .. n}
    BY <1>0, <2>1 DEF ConnInv
  <2>9. Sent(c)' = {<<c, i>> : i \in 1 .. n + 1}
    BY <2>3, <2>4, <2>5, <2>8
  <2>10. /\ c \in DOMAIN clients'
         /\ clients'[c].timeout
         /\ clients'[c].n_requests = n
         /\ n <= MaxKeepAlive
    BY <1>0, <1>2, <1>6, <2>1, <2>3 DEF ConnInv, TypeOK, Entry
  <2>11. sock'[c] = "open" /\ Active(c)'
    BY <1>2, <1>7 DEF Active
  <2>12. Counting(c)' \/ loop' = Down
    BY <1>3, <1>5 DEF Counting
  <2> QED
    BY <1>7, <2>7, <2>9, <2>10, <2>11, <2>12 DEF ConnInv
<1> QED
  BY <1>8, <1>9

\* The count that follows, and the close after one request too many.
LEMMA CountStep ==
    ASSUME IInv, CountRequest
    PROVE  \A d \in Conns : ConnInv(d)'
<1>0. TypeOK /\ \A d \in Conns : ConnInv(d)
  BY DEF IInv
<1>1. PICK c \in Conns : c = loop.req[1] /\ loop.at = "counting"
  BY <1>0, ReqParts DEF CountRequest, TypeOK, LoopStates, Idle, Down
<1>2. Active(c) /\ Counting(c) /\ \A d \in Conns \ {c} : ~Counting(d)
  BY <1>0, <1>1 DEF Counting, ConnInv
<1>3. /\ loop # Down /\ loop' # Down
      /\ \A d \in Conns : ~Counting(d)'
  BY <1>1 DEF CountRequest, Counting, Idle, Down
<1>4. \A d \in Conns : Sent(d)' = Sent(d)
  BY SentKept DEF CountRequest
<1>5. /\ DOMAIN clients' = DOMAIN clients
      /\ \A d \in DOMAIN clients : d # c => clients'[d] = clients[d]
  BY <1>1 DEF CountRequest
<1>6. /\ c \in DOMAIN clients
      /\ clients[c].timeout
      /\ clients[c].n_requests + 1 = Cardinality(Sent(c))
      /\ timer[c] = "armed"
  BY <1>0, <1>2 DEF ConnInv
<1>7. /\ clients'[c].n_requests = clients[c].n_requests + 1
      /\ clients'[c].timeout
  BY <1>0, <1>1, <1>6 DEF CountRequest, TypeOK, Entry
<1>8. sock' = sock \/ sock' = Closing(c)
  BY <1>1 DEF CountRequest
<1>9. sock' = sock => clients'[c].n_requests <= MaxKeepAlive
  <2> SUFFICES ASSUME sock' = sock, ~(clients'[c].n_requests <= MaxKeepAlive)
               PROVE  FALSE
    OBVIOUS
  <2>1. clients[c].n_requests + 1 \in Nat
    BY <1>0, <1>6 DEF TypeOK, Entry
  <2>2. OverLimit(clients'[c].n_requests)
    BY <1>7, <2>1, MaxKeepAliveAssumption DEF OverLimit
  <2>3. sock' = Closing(c)
    BY <1>1, <2>2 DEF CountRequest
  <2>4. sock'[c] # "open"
    BY <1>0, <2>3, ClosingIt
  <2> QED
    BY <1>2, <2>4 DEF Active
<1>10. /\ \A d \in Conns \ {c} : sock'[d] = sock[d]
       /\ sock'[c] # "new" /\ sock'[c] # "closed"
       /\ timer' = timer
  BY <1>0, <1>2, <1>8, ClosingIt DEF Active, CountRequest
<1>11. ASSUME NEW d \in Conns, d # c
       PROVE  ConnInv(d)'
  BY <1>0, <1>2, <1>3, <1>4, <1>5, <1>10, <1>11, Untouched
<1>12. ConnInv(c)'
  <2>1. CASE sock' = Closing(c)
    <3>1. ~Active(c)'
      BY <1>0, <2>1, ClosingIt DEF Active
    <3> QED
      BY <1>0, <1>3, <1>4, <1>10, <3>1, Inactive
  <2>2. CASE sock' = sock
    BY <1>0, <1>3, <1>4, <1>5, <1>6, <1>7, <1>9, <1>10, <2>2 DEF ConnInv, Active
  <2> QED
    BY <1>8, <2>1, <2>2
<1> QED
  BY <1>11, <1>12

LEMMA ListenStep ==
    ASSUME IInv, NEW c \in Conns, ListenEvent(c)
    PROVE  \A d \in Conns : ConnInv(d)'
<1>0. TypeOK /\ \A d \in Conns : ConnInv(d)
  BY DEF IInv
<1>1. PICK e : e = [keep_alive |-> TRUE, n_requests |-> 0, timeout |-> TRUE]
  OBVIOUS
<1>2. /\ c \in DOMAIN clients' /\ clients'[c] = e
      /\ \A d \in Conns \ {c} : d \in DOMAIN clients' <=> d \in DOMAIN clients
      /\ \A d \in Conns \ {c} : d \in DOMAIN clients => clients'[d] = clients[d]
  <2>1. clients' = Put(clients, c, e)
    BY <1>1 DEF ListenEvent
  <2> QED
    BY <2>1, PutOthers
<1>3. /\ loop' = loop /\ loop # Down
      /\ \A d \in Conns : ~Counting(d) /\ ~Counting(d)'
  BY DEF ListenEvent, Counting, Idle, Down
<1>4. \A d \in Conns : Sent(d)' = Sent(d)
  BY SentKept DEF ListenEvent
<1>5. /\ sock[c] = "new" /\ sock'[c] = "open" /\ timer'[c] = "armed"
      /\ \A d \in Conns \ {c} : sock'[d] = sock[d] /\ timer'[d] = timer[d]
  BY <1>0 DEF ListenEvent, TypeOK
<1>6. ASSUME NEW d \in Conns, d # c
      PROVE  ConnInv(d)'
  BY <1>0, <1>2, <1>3, <1>4, <1>5, <1>6, Untouched
<1>7. ConnInv(c)'
  <2>1. Sent(c)' = {} /\ Cardinality(Sent(c)') = 0 /\ IsFiniteSet(Sent(c)')
    BY <1>0, <1>4, <1>5, FS_EmptySet DEF ConnInv
  <2>2. Sent(c)' = {<<c, i>> : i \in 1 .. Cardinality(Sent(c)')}
    BY <2>1
  <2>3. clients'[c].timeout /\ clients'[c].n_requests = 0 /\ 0 <= MaxKeepAlive
    BY <1>1, <1>2, MaxKeepAliveAssumption
  <2> QED
    BY <1>2, <1>3, <1>5, <2>1, <2>2, <2>3 DEF ConnInv
<1> QED
  BY <1>6, <1>7

LEMMA EndStep ==
    ASSUME IInv, NEW c \in Conns, EndEvent(c)
    PROVE  \A d \in Conns : ConnInv(d)'
<1>0. TypeOK /\ \A d \in Conns : ConnInv(d)
  BY DEF IInv
<1>1. /\ loop' = loop
      /\ \A d \in Conns : ~Counting(d) /\ ~Counting(d)'
  BY DEF EndEvent, Counting, Idle
<1>2. \A d \in Conns : Sent(d)' = Sent(d)
  BY SentKept DEF EndEvent
<1>3. /\ sock'[c] = "eof" /\ timer' = timer /\ clients' = clients
      /\ \A d \in Conns \ {c} : sock'[d] = sock[d]
  BY <1>0 DEF EndEvent, TypeOK
<1>4. ConnInv(c)'
  BY <1>0, <1>1, <1>2, <1>3, Inactive DEF Active
<1>5. \A d \in Conns \ {c} : ConnInv(d)'
  BY <1>0, <1>1, <1>2, <1>3, Untouched
<1> QED
  BY <1>4, <1>5

LEMMA ErrorStep ==
    ASSUME IInv, NEW c \in Conns, ErrorEvent(c)
    PROVE  \A d \in Conns : ConnInv(d)'
<1>0. TypeOK /\ \A d \in Conns : ConnInv(d)
  BY DEF IInv
<1>1. /\ loop' = loop
      /\ \A d \in Conns : ~Counting(d) /\ ~Counting(d)'
  BY DEF ErrorEvent, Counting, Idle
<1>2. \A d \in Conns : Sent(d)' = Sent(d)
  BY SentKept DEF ErrorEvent
<1>3. /\ sock'[c] # "open"
      /\ sock'[c] # "new"
      /\ timer' = timer
      /\ \A d \in Conns \ {c} : sock'[d] = sock[d]
  BY <1>0, ClosingIt DEF ErrorEvent, CloseIfActive, Active, TypeOK
<1>4. /\ c \notin DOMAIN clients'
      /\ \A d \in Conns \ {c} : d \in DOMAIN clients' <=> d \in DOMAIN clients
      /\ \A d \in Conns \ {c} : d \in DOMAIN clients => clients'[d] = clients[d]
  BY ForgetOthers, ForgetIt DEF ErrorEvent
<1>5. ConnInv(c)'
  BY <1>0, <1>1, <1>2, <1>3, <1>4, Inactive DEF Active
<1>6. \A d \in Conns \ {c} : ConnInv(d)'
  BY <1>0, <1>1, <1>2, <1>3, <1>4, Untouched
<1> QED
  BY <1>5, <1>6

LEMMA TimerStep ==
    ASSUME IInv, NEW c \in Conns, TimerEvent(c)
    PROVE  \A d \in Conns : ConnInv(d)'
<1>0. TypeOK /\ \A d \in Conns : ConnInv(d)
  BY DEF IInv
<1>1. /\ loop' = loop
      /\ \A d \in Conns : ~Counting(d) /\ ~Counting(d)'
  BY DEF TimerEvent, Counting, Idle
<1>2. \A d \in Conns : Sent(d)' = Sent(d)
  BY SentKept DEF TimerEvent
<1>3. /\ sock'[c] # "open"
      /\ sock'[c] = "new" => sock[c] = "new"
      /\ sock'[c] = "closed" => sock[c] = "closed"
      /\ clients' = clients
      /\ \A d \in Conns \ {c} : sock'[d] = sock[d]
      /\ \A d \in Conns \ {c} : timer'[d] = timer[d]
  BY <1>0, ClosingIt DEF TimerEvent, TimerCloses, TypeOK
<1>4. ConnInv(c)'
  <2>1. c \in DOMAIN clients' /\ sock'[c] = "closed" => clients'[c] = Ghost
    BY <1>0, <1>3 DEF ConnInv
  <2> QED
    BY <1>0, <1>1, <1>2, <1>3, <2>1, Inactive DEF Active
<1>5. \A d \in Conns \ {c} : ConnInv(d)'
  BY <1>0, <1>1, <1>2, <1>3, Untouched
<1> QED
  BY <1>4, <1>5

LEMMA CloseStep ==
    ASSUME IInv, NEW c \in Conns, CloseEvent(c)
    PROVE  \A d \in Conns : ConnInv(d)'
<1>0. TypeOK /\ \A d \in Conns : ConnInv(d)
  BY DEF IInv
<1>1. /\ loop' = loop
      /\ \A d \in Conns : ~Counting(d) /\ ~Counting(d)'
  BY DEF CloseEvent, Counting, Idle
<1>2. \A d \in Conns : Sent(d)' = Sent(d)
  BY SentKept DEF CloseEvent
<1>3. /\ sock'[c] = "closed"
      /\ timer' = timer
      /\ \A d \in Conns \ {c} : sock'[d] = sock[d]
  BY <1>0 DEF CloseEvent, TypeOK
<1>4. /\ c \notin DOMAIN clients'
      /\ \A d \in Conns \ {c} : d \in DOMAIN clients' <=> d \in DOMAIN clients
      /\ \A d \in Conns \ {c} : d \in DOMAIN clients => clients'[d] = clients[d]
  BY ForgetOthers, ForgetIt DEF CloseEvent
<1>5. ConnInv(c)'
  BY <1>0, <1>1, <1>2, <1>3, <1>4, Inactive DEF Active
<1>6. \A d \in Conns \ {c} : ConnInv(d)'
  BY <1>0, <1>1, <1>2, <1>3, <1>4, Untouched
<1> QED
  BY <1>5, <1>6

LEMMA ReadKeepAliveStep ==
    ASSUME IInv, NEW r \in Reqs, ReadKeepAlive(r)
    PROVE  \A d \in Conns : ConnInv(d)'
<1>0. TypeOK /\ \A d \in Conns : ConnInv(d)
  BY DEF IInv
<1>1. PICK c \in Conns : c = r[1]
  BY ReqParts
<1>2. PICK e : e = IF c \in DOMAIN clients THEN clients[c] ELSE Ghost
  OBVIOUS
<1>3. clients' = Put(clients, c, e)
  BY <1>1, <1>2 DEF ReadKeepAlive
<1>4. \A d \in Conns : Sent(d)' = Sent(d)
  BY <1>0, SentKept DEF ReadKeepAlive, MoveTo, TypeOK
<1>5. /\ loop' = loop /\ sock' = sock /\ timer' = timer
      /\ \A d \in Conns : Counting(d)' <=> Counting(d)
  BY DEF ReadKeepAlive, Counting
<1>6. ConnInv(c)'
  BY <1>0, <1>2, <1>3, <1>4, <1>5, PutOthers, GhostAdded
<1>7. \A d \in Conns \ {c} : ConnInv(d)'
  BY <1>0, <1>3, <1>4, <1>5, PutOthers, Untouched
<1> QED
  BY <1>6, <1>7

LEMMA WriteStep ==
    ASSUME IInv, NEW r \in Reqs, Write(r)
    PROVE  \A d \in Conns : ConnInv(d)'
<1>0. TypeOK /\ \A d \in Conns : ConnInv(d)
  BY DEF IInv
<1>1. PICK c \in Conns : c = r[1]
  BY ReqParts
<1>2. \A q \in Reqs : phase'[q] = "none" <=> phase[q] = "none"
  BY <1>0 DEF Write, MoveTo, TypeOK
<1>3. /\ loop' = loop /\ sock' = sock /\ timer' = timer
      /\ \A d \in Conns : Counting(d)' <=> Counting(d)
  BY DEF Write, Counting
<1>4. CASE clients' = clients
  BY <1>0, <1>2, <1>3, <1>4, QuietStep
<1>5. CASE ~IsOpen(c) /\ clients' = Forget(c)
  <2>1. \A d \in Conns : Sent(d)' = Sent(d)
    BY <1>2, SentKept
  <2>2. ~Active(c)' /\ ~Counting(c)'
    BY <1>0, <1>3, <1>5 DEF IsOpen, Active, ConnInv
  <2>3. ConnInv(c)'
    BY <1>0, <1>3, <1>5, <2>1, <2>2, ForgetIt, Inactive
  <2>4. \A d \in Conns \ {c} : ConnInv(d)'
    BY <1>0, <1>3, <1>5, <2>1, ForgetOthers, Untouched
  <2> QED
    BY <2>3, <2>4
<1> QED
  BY <1>1, <1>4, <1>5 DEF Write

LEMMA NextConn ==
    ASSUME IInv, [Step]_svars
    PROVE  \A d \in Conns : ConnInv(d)'
<1>0. TypeOK /\ \A d \in Conns : ConnInv(d)
  BY DEF IInv
<1>1. ASSUME NEW c \in Conns, ConnEvent(c)
      PROVE  \A d \in Conns : ConnInv(d)'
  BY <1>1, ListenStep, DataStep, EndStep, ErrorStep, TimerStep, CloseStep DEF ConnEvent
<1>2. CASE CountRequest
  BY <1>2, CountStep
<1>3. CASE StartTask
  BY <1>0, <1>3, QuietStep DEF StartTask, MoveTo, TypeOK
<1>4. ASSUME NEW r \in Reqs, HandleRoute(r)
      PROVE  \A d \in Conns : ConnInv(d)'
  BY <1>0, <1>4, QuietStep DEF HandleRoute, MoveTo, FailedPhase, TypeOK
<1>5. ASSUME NEW r \in Reqs, CheckOpen(r)
      PROVE  \A d \in Conns : ConnInv(d)'
  BY <1>0, <1>5, QuietStep DEF CheckOpen, MoveTo, TypeOK
<1>6. ASSUME NEW r \in Reqs, ReadFile(r)
      PROVE  \A d \in Conns : ConnInv(d)'
  BY <1>0, <1>6, QuietStep DEF ReadFile, MoveTo, AsyncSent, TypeOK
<1>7. ASSUME NEW r \in Reqs, AsyncEvent(r)
      PROVE  \A d \in Conns : ConnInv(d)'
  <2>1. \A q \in Reqs : phase'[q] = "none" <=> phase[q] = "none"
    BY <1>0, <1>7 DEF AsyncEvent, TypeOK
  <2>2. loop' = loop \/ (loop.at \notin {"counting", "down"} /\ loop'.at # "counting")
    BY <1>7 DEF AsyncEvent, Idle
  <2> QED
    BY <1>0, <1>7, <2>1, <2>2, QuietStep DEF AsyncEvent
<1>8. CASE SendBody
  <2>1. loop.req \in Reqs /\ phase[loop.req] \in Phases
    BY <1>0, <1>8 DEF SendBody, LoopStates, Idle, Down, TypeOK
  <2>2. loop.at \notin {"counting", "down"} /\ loop'.at # "counting"
    BY <1>8 DEF SendBody, Idle
  <2>3. \A q \in Reqs : phase'[q] = "none" <=> phase[q] = "none"
    BY <1>0, <1>8, <2>1 DEF SendBody, BodyInv, IInv, TypeOK
  <2> QED
    BY <1>0, <1>8, <2>2, <2>3, QuietStep DEF SendBody
<1>9. CASE UNCHANGED svars
  BY <1>0, <1>9, QuietStep DEF svars
<1>10. ASSUME NEW r \in Reqs, WorkerStep(r)
       PROVE  \A d \in Conns : ConnInv(d)'
  BY <1>4, <1>5, <1>6, <1>10, ReadKeepAliveStep, WriteStep DEF WorkerStep
<1> QED
  BY <1>1, <1>2, <1>3, <1>7, <1>8, <1>9, <1>10 DEF Step

LEMMA NextBody ==
    ASSUME IInv, [Step]_svars
    PROVE  BodyInv'
<1> USE DEF BodyInv
<1>0. TypeOK /\ BodyInv
  BY DEF IInv
<1>1. ASSUME NEW c \in Conns, ConnEvent(c)
      PROVE  BodyInv'
  BY <1>1 DEF ConnEvent, ListenEvent, DataEvent, EndEvent, ErrorEvent, TimerEvent,
              CloseEvent, Idle, Down
<1>2. CASE CountRequest
  BY <1>2 DEF CountRequest, Idle
<1>3. ASSUME loop' = loop, NEW r \in Reqs, NEW x, phase[r] # "fetched",
             phase' = [phase EXCEPT ![r] = x]
      PROVE  BodyInv'
  BY <1>0, <1>3 DEF TypeOK
<1>4. CASE StartTask
  <2>1. Head(queue) \in Reqs
    BY <1>0, <1>4 DEF StartTask, TypeOK
  <2> QED
    BY <1>3, <1>4, <2>1 DEF StartTask, MoveTo
<1>5. ASSUME NEW r \in Reqs, WorkerStep(r)
      PROVE  BodyInv'
  BY <1>3, <1>5 DEF WorkerStep, HandleRoute, ReadKeepAlive, CheckOpen, Write, ReadFile, MoveTo
<1>6. ASSUME NEW r \in Reqs, AsyncEvent(r)
      PROVE  BodyInv'
  BY <1>6 DEF AsyncEvent, Idle
<1>7. CASE SendBody
  BY <1>7 DEF SendBody, Idle
<1>8. CASE UNCHANGED svars
  BY <1>0, <1>8 DEF svars
<1> QED
  BY <1>1, <1>2, <1>4, <1>5, <1>6, <1>7, <1>8 DEF Step

------------------------------------------------------------------------------
(***************************************************************************)
(* Answers: what is on the wire of a connection, by how far the request    *)
(* is.  Until its answer is handed to the socket nothing is there; a file  *)
(* in the hands of the loop has its head there; and what is done has a     *)
(* complete answer, or none and a connection that is gone.                 *)
(***************************************************************************)
AnswerInv(r) ==
    /\ phase[r] \notin {"fetched", "done"} => Places(r) = {}
    /\ phase[r] = "fetched" =>
          IF loop = [at |-> "body", req |-> r] THEN HeadOnly(r) ELSE Places(r) = {}
    /\ phase[r] = "done" => Places(r) = {} \/ Complete(r)
    /\ phase[r] = "done" /\ Active(r[1]) /\ req[r].kind # "bad" => Complete(r)

\* Appending to a connection adds one place to the request that is answered,
\* behind its others, and none to another request.
LEMMA SendPlaces ==
    ASSUME TypeOK, NEW r \in Reqs, NEW part \in Parts, Send(r, part)
    PROVE  \E n \in Nat :
             /\ Places(r)' = Places(r) \cup {n}
             /\ n \notin Places(r) /\ \A i \in Places(r) : i < n
             /\ PartAt(r, n)' = part
             /\ \A i \in Places(r) : PartAt(r, i)' = PartAt(r, i)
<1>1. r[1] \in Conns /\ Answer(r, part) \in Answers
  BY ReqParts DEF Answer, Answers, TypeOK
<1>2. PICK s \in Seq(Answers) : s = wire[r[1]]
  BY <1>1 DEF TypeOK
<1>3. wire'[r[1]] = Append(s, Answer(r, part))
  BY <1>1, <1>2 DEF Send, TypeOK
<1>4. /\ Len(s) \in Nat
      /\ DOMAIN s = 1 .. Len(s)
      /\ DOMAIN wire'[r[1]] = 1 .. Len(s) + 1
      /\ \A i \in 1 .. Len(s) : wire'[r[1]][i] = s[i]
      /\ wire'[r[1]][Len(s) + 1] = Answer(r, part)
  BY <1>1, <1>2, <1>3, AppendProperties, LenProperties
<1>5. Places(r)' = Places(r) \cup {Len(s) + 1}
  BY <1>2, <1>4 DEF Places, Answer
<1>6. /\ Len(s) + 1 \notin Places(r)
      /\ \A i \in Places(r) : i < Len(s) + 1
      /\ \A i \in Places(r) : PartAt(r, i)' = PartAt(r, i)
      /\ PartAt(r, Len(s) + 1)' = part
  BY <1>2, <1>4 DEF Places, PartAt, Answer
<1> QED
  BY <1>4, <1>5, <1>6

LEMMA SendOthers ==
    ASSUME TypeOK, NEW r \in Reqs, NEW part \in Parts, Send(r, part),
           NEW q \in Reqs, q # r
    PROVE  /\ Places(q)' = Places(q)
           /\ \A i \in Places(q) : PartAt(q, i)' = PartAt(q, i)
<1>1. r[1] \in Conns /\ q[1] \in Conns /\ Answer(r, part) \in Answers
  BY ReqParts DEF Answer, Answers, TypeOK
<1>2. CASE q[1] # r[1]
  BY <1>1, <1>2 DEF Send, TypeOK, Places, PartAt
<1>3. CASE q[1] = r[1]
  <2>1. PICK s \in Seq(Answers) : s = wire[q[1]]
    BY <1>1 DEF TypeOK
  <2>2. wire'[q[1]] = Append(s, Answer(r, part))
    BY <1>1, <1>3, <2>1 DEF Send, TypeOK
  <2>3. /\ Len(s) \in Nat
        /\ DOMAIN s = 1 .. Len(s)
        /\ DOMAIN wire'[q[1]] = 1 .. Len(s) + 1
        /\ \A i \in 1 .. Len(s) : wire'[q[1]][i] = s[i]
        /\ wire'[q[1]][Len(s) + 1] = Answer(r, part)
    BY <1>1, <2>1, <2>2, AppendProperties, LenProperties
  <2> QED
    BY <2>1, <2>3, SMTT(30) DEF Places, PartAt, Answer
<1> QED
  BY <1>2, <1>3

\* An answer is as complete as its places and parts.
LEMMA SameAnswer ==
    ASSUME NEW q \in Reqs, Places(q)' = Places(q),
           \A i \in Places(q) : PartAt(q, i)' = PartAt(q, i)
    PROVE  /\ Complete(q)' <=> Complete(q)
           /\ HeadOnly(q)' <=> HeadOnly(q)
BY DEF Complete, HeadOnly

LEMMA FirstPart ==
    ASSUME TypeOK, NEW r \in Reqs, NEW part \in Parts, Send(r, part), Places(r) = {}
    PROVE  /\ part \in {"whole", "error"} => Complete(r)'
           /\ part = "head" => HeadOnly(r)'
<1>1. PICK n \in Nat : Places(r)' = {n} /\ PartAt(r, n)' = part
  BY SendPlaces
<1> QED
  BY <1>1 DEF Complete, HeadOnly

LEMMA SecondPart ==
    ASSUME TypeOK, NEW r \in Reqs, Send(r, "body"), HeadOnly(r)
    PROVE  Complete(r)'
<1>1. PICK i \in Places(r) : Places(r) = {i} /\ PartAt(r, i) = "head"
  BY DEF HeadOnly
<1>2. "body" \in Parts
  BY DEF Parts
<1>3. PICK n \in Nat : /\ Places(r)' = {i, n} /\ i < n
                       /\ PartAt(r, n)' = "body"
                       /\ PartAt(r, i)' = "head"
  BY <1>1, <1>2, SendPlaces
<1> QED
  BY <1>3 DEF Complete

\* A request the step does not work on.
LEMMA AnswerKept ==
    ASSUME NEW q \in Reqs, AnswerInv(q),
           phase'[q] = phase[q], req'[q] = req[q],
           Places(q)' = Places(q), \A i \in Places(q) : PartAt(q, i)' = PartAt(q, i),
           Active(q[1])' => Active(q[1]),
           loop' = [at |-> "body", req |-> q] <=> loop = [at |-> "body", req |-> q]
    PROVE  AnswerInv(q)'
BY SameAnswer DEF AnswerInv

LEMMA SameWire ==
    ASSUME wire' = wire, NEW q \in Reqs
    PROVE  Places(q)' = Places(q) /\ \A i \in Places(q) : PartAt(q, i)' = PartAt(q, i)
BY DEF Places, PartAt

\* A step that moves request r on and writes nothing.
LEMMA MovedOn ==
    ASSUME IInv, \A q \in Reqs : AnswerInv(q),
           NEW r \in Reqs, phase[r] \notin {"fetched", "done"},
           NEW x \in Phases, phase' = [phase EXCEPT ![r] = x],
           x = "done" => ~Active(r[1]),
           UNCHANGED <<loop, sock, req, wire>>
    PROVE  \A q \in Reqs : AnswerInv(q)'
<1>1. \A q \in Reqs \ {r} : AnswerInv(q)'
  BY AnswerKept, SameWire DEF IInv, TypeOK, Active
<1>2. phase'[r] = x
  BY DEF IInv, TypeOK
<1>3. Places(r)' = {}
  BY SameWire DEF AnswerInv
<1>4. loop' # [at |-> "body", req |-> r]
  BY DEF IInv, BodyInv
<1>5. AnswerInv(r)'
  BY <1>2, <1>3, <1>4 DEF AnswerInv, Active
<1> QED
  BY <1>1, <1>5

\* A step that gives r its answer in one piece.
LEMMA Finished ==
    ASSUME IInv, \A q \in Reqs : AnswerInv(q),
           NEW r \in Reqs, Places(r) = {}, NEW part \in {"whole", "error"}, Send(r, part),
           phase' = [phase EXCEPT ![r] = "done"],
           \A q \in Reqs \ {r} : req'[q] = req[q],
           UNCHANGED sock, loop' = loop \/ (loop.at # "body" /\ loop'.at # "body")
    PROVE  \A q \in Reqs : AnswerInv(q)'
<1>0. TypeOK /\ part \in Parts
  BY DEF IInv, Parts
<1>1. ASSUME NEW q \in Reqs \ {r}
      PROVE  AnswerInv(q)'
  <2>1. Places(q)' = Places(q) /\ \A i \in Places(q) : PartAt(q, i)' = PartAt(q, i)
    BY <1>0, SendOthers
  <2>2. loop' = [at |-> "body", req |-> q] <=> loop = [at |-> "body", req |-> q]
    OBVIOUS
  <2>3. phase'[q] = phase[q]
    BY <1>0 DEF TypeOK
  <2> QED
    BY <2>1, <2>2, <2>3, AnswerKept DEF Active
<1>2. phase'[r] = "done" /\ Complete(r)'
  BY <1>0, FirstPart DEF TypeOK
<1> QED
  BY <1>1, <1>2 DEF AnswerInv

LEMMA DataAnswers ==
    ASSUME IInv, \A q \in Reqs : AnswerInv(q),
           NEW c \in Conns, NEW kind \in Kinds, NEW ka \in BOOLEAN, DataEvent(c, kind, ka)
    PROVE  \A q \in Reqs : AnswerInv(q)'
<1>0. TypeOK /\ ConnInv(c)
  BY DEF IInv
<1>1. PICK r : r = NextRequest(c)
  OBVIOUS
<1>2. Active(c) /\ ~Counting(c) /\ loop = Idle /\ loop # Down
  BY DEF DataEvent, Active, Counting, Idle, Down
<1>3. r \in Reqs /\ r[1] = c /\ phase[r] = "none" /\ Places(r) = {}
  BY <1>0, <1>1, <1>2, NextRequestType DEF AnswerInv
<1>4. loop.at # "body" /\ loop'.at # "body" /\ sock' = sock
  BY <1>2 DEF DataEvent, Idle, Down
<1>5. \A q \in Reqs \ {r} : req'[q] = req[q]
  BY <1>0, <1>1, <1>3 DEF DataEvent, TypeOK
<1>6. req'[r].kind = kind
  BY <1>0, <1>1, <1>3 DEF DataEvent, TypeOK
<1>7. CASE kind = "direct"
  <2>1. Send(r, "whole") /\ phase' = [phase EXCEPT ![r] = "done"]
    BY <1>1, <1>7 DEF DataEvent
  <2> QED
    BY <1>3, <1>4, <1>5, <2>1, Finished
<1>8. CASE kind # "direct"
  <2>1. wire' = wire
    BY <1>8 DEF DataEvent
  <2>2. PICK x \in {"queued", "fetched", "done"} :
           phase' = [phase EXCEPT ![r] = x] /\ (x = "done" => kind = "bad")
    BY <1>1, <1>8 DEF DataEvent
  <2>3. \A q \in Reqs \ {r} : AnswerInv(q)'
    BY <1>0, <1>4, <1>5, <2>1, <2>2, AnswerKept, SameWire DEF TypeOK, Active
  <2>4. Places(r)' = {} /\ phase'[r] = x /\ loop' # [at |-> "body", req |-> r]
    BY <1>0, <1>3, <1>4, <2>1, <2>2, SameWire DEF TypeOK
  <2>5. AnswerInv(r)'
    BY <1>6, <2>2, <2>4 DEF AnswerInv
  <2> QED
    BY <2>3, <2>5
<1> QED
  BY <1>7, <1>8

LEMMA NextAnswers ==
    ASSUME IInv, \A q \in Reqs : AnswerInv(q), [Step]_svars
    PROVE  \A q \in Reqs : AnswerInv(q)'
<1>0. TypeOK /\ BodyInv /\ \A c \in Conns : ConnInv(c)
  BY DEF IInv
<1>1. ASSUME NEW c \in Conns, ListenEvent(c)
      PROVE  \A q \in Reqs : AnswerInv(q)'
  <2> SUFFICES ASSUME NEW q \in Reqs
               PROVE  AnswerInv(q)'
    OBVIOUS
  <2>1. wire' = wire /\ phase' = phase /\ req' = req /\ loop' = loop
    BY <1>1 DEF ListenEvent
  <2>2. CASE q[1] = c
    <3>1. q \notin Sent(c)
      BY <1>0, <1>1 DEF ListenEvent, ConnInv
    <3>2. phase[q] = "none" /\ phase'[q] = "none"
      BY <2>1, <2>2, <3>1 DEF Sent
    <3> QED
      BY <2>1, <3>2, SameWire DEF AnswerInv
  <2>3. CASE q[1] # c
    <3>1. Active(q[1])' => Active(q[1])
      BY <1>0, <1>1, <2>3, ReqParts DEF ListenEvent, Active, TypeOK
    <3> QED
      BY <2>1, <3>1, AnswerKept, SameWire
  <2> QED
    BY <2>2, <2>3
<1>2. ASSUME wire' = wire, phase' = phase, req' = req,
             \A d \in Conns : sock'[d] = "open" => sock[d] = "open",
             \A q \in Reqs : loop' = [at |-> "body", req |-> q]
                                <=> loop = [at |-> "body", req |-> q]
      PROVE  \A q \in Reqs : AnswerInv(q)'
  BY <1>2, AnswerKept, SameWire, ReqParts DEF Active
<1>3. CASE CountRequest
  <2>1. wire' = wire /\ phase' = phase /\ req' = req
    BY <1>3 DEF CountRequest
  <2>2. loop.at # "body" /\ loop'.at # "body"
    BY <1>3 DEF CountRequest, Idle
  <2>3. \A d \in Conns : sock'[d] = "open" => sock[d] = "open"
    BY <1>0, <1>3 DEF CountRequest, Closing, TypeOK
  <2> QED
    BY <1>2, <2>1, <2>2, <2>3
<1>4. ASSUME NEW c \in Conns, EndEvent(c) \/ ErrorEvent(c) \/ TimerEvent(c) \/ CloseEvent(c)
      PROVE  \A q \in Reqs : AnswerInv(q)'
  <2>1. \A d \in Conns : sock'[d] = "open" => sock[d] = "open"
    BY <1>0, <1>4 DEF EndEvent, ErrorEvent, TimerEvent, CloseEvent, CloseIfActive, TimerCloses,
                      Closing, TypeOK
  <2>2. wire' = wire /\ phase' = phase /\ req' = req /\ loop' = loop
    BY <1>4 DEF EndEvent, ErrorEvent, TimerEvent, CloseEvent
  <2> QED
    BY <1>2, <2>1, <2>2
<1>5. CASE StartTask
  <2>1. Head(queue) \in Reqs
    BY <1>0, <1>5 DEF StartTask, TypeOK
  <2> QED
    BY <1>5, <2>1, MovedOn DEF StartTask, MoveTo, Phases
<1>6. ASSUME NEW r \in Reqs, HandleRoute(r) \/ ReadKeepAlive(r) \/ ReadFile(r)
      PROVE  \A q \in Reqs : AnswerInv(q)'
  <2>1. PICK x \in Phases \ {"done"} : phase' = [phase EXCEPT ![r] = x]
    BY <1>6 DEF HandleRoute, ReadKeepAlive, ReadFile, MoveTo, Phases, FailedPhase, AsyncSent
  <2>2. phase[r] \notin {"fetched", "done"} /\ UNCHANGED <<loop, sock, req, wire>>
    BY <1>6 DEF HandleRoute, ReadKeepAlive, ReadFile, MoveTo
  <2> QED
    BY <2>1, <2>2, MovedOn
<1>7. ASSUME NEW r \in Reqs, CheckOpen(r)
      PROVE  \A q \in Reqs : AnswerInv(q)'
  <2>1. PICK x \in Phases : phase' = [phase EXCEPT ![r] = x] /\ (x = "done" => ~IsOpen(r[1]))
    BY <1>7 DEF CheckOpen, MoveTo, Phases
  <2>2. phase[r] \notin {"fetched", "done"} /\ UNCHANGED <<loop, sock, req, wire>>
    BY <1>7 DEF CheckOpen, MoveTo
  <2> QED
    BY <2>1, <2>2, MovedOn DEF IsOpen, Active
<1>8. ASSUME NEW r \in Reqs, Write(r)
      PROVE  \A q \in Reqs : AnswerInv(q)'
  <2>1. /\ phase[r] \notin {"fetched", "done"} /\ UNCHANGED <<loop, sock, req>>
        /\ phase' = [phase EXCEPT ![r] = "done"]
    BY <1>8 DEF Write, MoveTo
  <2>2. CASE wire' = wire /\ ~Active(r[1])
    BY <2>1, <2>2, MovedOn DEF Phases
  <2>3. Places(r) = {}
    BY <2>1 DEF AnswerInv
  <2>4. loop' = loop /\ sock' = sock /\ \A q \in Reqs \ {r} : req'[q] = req[q]
    BY <2>1
  <2>5. CASE Send(r, "whole")
    BY <2>1, <2>3, <2>4, <2>5, Finished
  <2>6. CASE Send(r, "error")
    BY <2>1, <2>3, <2>4, <2>6, Finished
  <2> QED
    BY <1>8, <2>2, <2>5, <2>6 DEF Write, Active, IsOpen
<1>9. ASSUME NEW r \in Reqs, AsyncEvent(r)
      PROVE  \A q \in Reqs : AnswerInv(q)'
  <2>1. loop = Idle /\ loop.at # "body" /\ phase[r] = "fetched" /\ Places(r) = {} /\ UNCHANGED <<sock, req>>
    BY <1>9 DEF AsyncEvent, AnswerInv, Idle
  <2>2. CASE ~Active(r[1]) /\ phase' = [phase EXCEPT ![r] = "done"] /\ UNCHANGED <<loop, wire>>
    <3>1. \A q \in Reqs \ {r} : AnswerInv(q)'
      BY <1>0, <2>1, <2>2, AnswerKept, SameWire DEF TypeOK, Active
    <3>2. phase'[r] = "done" /\ Places(r)' = {} /\ ~Active(r[1])'
      BY <1>0, <2>1, <2>2, SameWire DEF TypeOK, Active
    <3> QED
      BY <3>1, <3>2 DEF AnswerInv
  <2>3. CASE Send(r, "error") /\ phase' = [phase EXCEPT ![r] = "done"] /\ UNCHANGED loop
    BY <2>1, <2>3, Finished
  <2>4. CASE Send(r, "head") /\ loop' = [at |-> "body", req |-> r] /\ UNCHANGED phase
    <3>1. "head" \in Parts
      BY DEF Parts
    <3>2. ASSUME NEW q \in Reqs \ {r}
          PROVE  AnswerInv(q)'
      <4>1. Places(q)' = Places(q) /\ \A i \in Places(q) : PartAt(q, i)' = PartAt(q, i)
        BY <1>0, <2>4, <3>1, SendOthers
      <4>2. loop' # [at |-> "body", req |-> q] /\ loop # [at |-> "body", req |-> q]
        BY <2>1, <2>4
      <4> QED
        BY <2>1, <2>4, <4>1, <4>2, AnswerKept DEF Active
    <3>3. HeadOnly(r)' /\ phase'[r] = "fetched"
      BY <1>0, <2>1, <2>4, <3>1, FirstPart
    <3> QED
      BY <2>4, <3>2, <3>3 DEF AnswerInv
  <2> QED
    BY <1>9, <2>2, <2>3, <2>4 DEF AsyncEvent
<1>10. CASE SendBody
  <2>1. PICK r \in Reqs : loop = [at |-> "body", req |-> r]
    BY <1>0, <1>10 DEF SendBody, TypeOK, LoopStates, Idle, Down
  <2>2. /\ Send(r, "body") /\ phase' = [phase EXCEPT ![r] = "done"] /\ loop'.at # "body"
        /\ UNCHANGED <<sock, req>>
    BY <1>10, <2>1 DEF SendBody, Idle
  <2>3. HeadOnly(r)
    BY <1>0, <2>1 DEF AnswerInv, BodyInv
  <2>4. ASSUME NEW q \in Reqs \ {r}
        PROVE  AnswerInv(q)'
    <3>1. "body" \in Parts
      BY DEF Parts
    <3>2. Places(q)' = Places(q) /\ \A i \in Places(q) : PartAt(q, i)' = PartAt(q, i)
      BY <1>0, <2>2, <3>1, SendOthers
    <3>3. loop' # [at |-> "body", req |-> q] /\ loop # [at |-> "body", req |-> q]
      BY <2>1, <2>2
    <3>4. phase'[q] = phase[q]
      BY <1>0, <2>2 DEF TypeOK
    <3> QED
      BY <2>2, <3>2, <3>3, <3>4, AnswerKept DEF Active
  <2>5. phase'[r] = "done" /\ Complete(r)'
    BY <1>0, <2>2, <2>3, SecondPart DEF TypeOK
  <2> QED
    BY <2>4, <2>5 DEF AnswerInv
<1>11. CASE UNCHANGED svars
  <2>1. wire' = wire /\ phase' = phase /\ req' = req /\ loop' = loop /\ sock' = sock
    BY <1>11 DEF svars
  <2> QED
    BY <1>2, <2>1
<1> QED
  BY <1>1, <1>3, <1>4, <1>5, <1>6, <1>7, <1>8, <1>9, <1>10, <1>11, DataAnswers
     DEF Step, ConnEvent, WorkerStep

------------------------------------------------------------------------------
(***************************************************************************)
(* Order: what is on the wire answers requests that came; while the socket *)
(* takes answers, the map holds the keep_alive of the newest request; and  *)
(* whatever came after a request that is not done came while it was being  *)
(* answered, so that its worker has read the keep_alive of one of these.   *)
(***************************************************************************)
Newest(c, r) == \A q \in Sent(c) : q[2] <= r[2]

Takes(c) == sock[c] \in {"open", "eof"}

RoutePhases == {"handled", "failed", "rendered", "sending", "reporting"}

OrderInv(c) ==
    /\ \A i \in DOMAIN wire[c] : wire[c][i].req \in Sent(c)
    /\ Takes(c) => /\ c \in DOMAIN clients
                   /\ \A r \in Sent(c) : Newest(c, r) => clients[c].keep_alive = req[r].keep_alive
    /\ \A r \in Sent(c) : phase[r] \in RoutePhases => req[r].kind = "route"
    /\ \A r, s \in Sent(c) : phase[r] # "done" /\ r[2] < s[2] => <<r, s>> \in together
    /\ \A r \in Sent(c) : phase[r] \in {"rendered", "sending"} /\ Takes(c) => HeaderFor(c, r, echo[r])
    /\ InOrder(c)
    /\ \A i \in DOMAIN wire[c] : TrueHeader(c, wire[c][i])

LEMMA HeaderStays ==
    ASSUME NEW c \in Conns, NEW r, NEW ka, HeaderFor(c, r, ka),
           Sent(c) \subseteq Sent(c)', together \subseteq together',
           \A s \in Sent(c) : req'[s] = req[s]
    PROVE  HeaderFor(c, r, ka)'
<1>1. PICK s \in Sent(c) : (s = r \/ <<r, s>> \in together) /\ ka = req[s].keep_alive
  BY DEF HeaderFor
<1>2. s \in Sent(c)' /\ (s = r \/ <<r, s>> \in together') /\ ka = req'[s].keep_alive
  BY <1>1
<1> QED
  BY <1>2 DEF HeaderFor

\* A step that writes nothing on c, and in which no answer is begun anew.
LEMMA OrderKept ==
    ASSUME NEW c \in Conns, OrderInv(c),
           Sent(c)' = Sent(c), wire'[c] = wire[c], together \subseteq together',
           \A r \in Sent(c) : req'[r] = req[r] /\ echo'[r] = echo[r],
           Takes(c)' => Takes(c) /\ (c \in DOMAIN clients =>
                c \in DOMAIN clients' /\ clients'[c].keep_alive = clients[c].keep_alive),
           \A r \in Sent(c) :
              /\ phase[r] = "done" => phase'[r] = "done"
              /\ phase'[r] \in RoutePhases => phase[r] \in RoutePhases \/ req[r].kind = "route"
              /\ phase'[r] \in {"rendered", "sending"} => phase[r] \in {"rendered", "sending"}
    PROVE  OrderInv(c)'
<1>1. \A r : Newest(c, r)' <=> Newest(c, r)
  BY DEF Newest
<1>2. \A i \in DOMAIN wire[c] : wire[c][i].req \in Sent(c) /\ req'[wire[c][i].req] = req[wire[c][i].req]
  BY DEF OrderInv
<1>3. \A r, ka : HeaderFor(c, r, ka) => HeaderFor(c, r, ka)'
  BY HeaderStays
<1>4. InOrder(c)'
  BY DEF OrderInv, InOrder
<1>5. \A i \in DOMAIN wire'[c] : TrueHeader(c, wire[c][i])'
  BY <1>2, <1>3 DEF OrderInv, TrueHeader
<1>6. \A r \in Sent(c)' : phase'[r] \in {"rendered", "sending"} /\ Takes(c)' => HeaderFor(c, r, echo[r])'
  BY <1>3 DEF OrderInv
<1>7. /\ \A i \in DOMAIN wire'[c] : wire'[c][i].req \in Sent(c)'
      /\ Takes(c)' => /\ c \in DOMAIN clients'
                      /\ \A r \in Sent(c)' : Newest(c, r)' => clients'[c].keep_alive = req'[r].keep_alive
      /\ \A r \in Sent(c)' : phase'[r] \in RoutePhases => req'[r].kind = "route"
      /\ \A r, s \in Sent(c)' : phase'[r] # "done" /\ r[2] < s[2] => <<r, s>> \in together'
  BY <1>1 DEF OrderInv
<1> QED
  BY <1>4, <1>5, <1>6, <1>7 DEF OrderInv

\* A step that writes a part of the answer to r.
LEMMA OrderSent ==
    ASSUME TypeOK, \A c \in Conns : OrderInv(c),
           NEW r \in Reqs, NEW part \in Parts, Send(r, part),
           phase[r] \notin {"none", "done"},
           part = "whole" => phase[r] = "sending" /\ Takes(r[1]),
           phase' = phase \/ phase' = [phase EXCEPT ![r] = "done"],
           sock' = sock, clients' = clients, req' = req, echo' = echo, together' = together
    PROVE  \A c \in Conns : OrderInv(c)'
<1>1. \A q \in Reqs : phase'[q] = phase[q] \/ (q = r /\ phase'[q] = "done")
  BY DEF TypeOK
<1>2. \A c \in Conns : Sent(c)' = Sent(c)
  BY <1>1, SentKept
<1>3. \A c \in Conns : \A q \in Sent(c) : q \in Reqs
  BY DEF Sent
<1>4. PICK d \in Conns : d = r[1]
  BY ReqParts
<1>5. ASSUME NEW c \in Conns, c # d
      PROVE  OrderInv(c)'
  <2>1. wire'[c] = wire[c]
    BY <1>4, <1>5 DEF Send, TypeOK
  <2>2. Takes(c)' => Takes(c)
    BY DEF Takes
  <2>3. \A q \in Sent(c) : phase'[q] = phase[q] \/ phase'[q] = "done"
    BY <1>1, <1>3
  <2> QED
    BY <1>2, <2>1, <2>2, <2>3, OrderKept DEF RoutePhases
<1>6. OrderInv(d)'
  <2>1. PICK s \in Seq(Answers) : s = wire[d]
    BY DEF TypeOK
  <2>2. PICK a \in Answers : a = Answer(r, part)
    BY DEF Answer, Answers, TypeOK
  <2>3. wire'[d] = Append(s, a)
    BY <1>4, <2>1, <2>2 DEF Send, TypeOK
  <2>4. /\ Len(s) \in Nat
        /\ DOMAIN s = 1 .. Len(s)
        /\ DOMAIN wire'[d] = 1 .. Len(s) + 1
        /\ \A i \in 1 .. Len(s) : wire'[d][i] = s[i]
        /\ wire'[d][Len(s) + 1] = a
    BY <2>3, AppendProperties, LenProperties
  <2>5. a.req = r /\ a.part = part /\ a.keep_alive = echo[r]
    BY <2>2 DEF Answer
  <2>6. r \in Sent(d)
    BY <1>4 DEF Sent
  <2>7. \A i \in DOMAIN wire'[d] : wire'[d][i].req \in Sent(d)
    BY <2>1, <2>4, <2>5, <2>6 DEF OrderInv
  <2>8. \A q \in Sent(d) : q[2] <= r[2] \/ <<r, q>> \in together
    <3>1. \A q \in Sent(d) : q[2] \in Nat /\ r[2] \in Nat
      BY <1>3, ReqParts, MaxKeepAliveAssumption
    <3>2. \A q \in Sent(d) : r[2] < q[2] => <<r, q>> \in together
      BY <2>6 DEF OrderInv
    <3> QED
      BY <3>1, <3>2
  <2>9. InOrder(d)'
    <3> SUFFICES ASSUME NEW i \in 1 .. Len(s) + 1, NEW j \in 1 .. Len(s) + 1, i < j
                 PROVE  \/ wire'[d][i].req[2] <= wire'[d][j].req[2]
                        \/ <<wire'[d][j].req, wire'[d][i].req>> \in together
      BY <2>4 DEF InOrder
    <3>1. i \in 1 .. Len(s) /\ wire'[d][i] = s[i] /\ s[i].req \in Sent(d)
      BY <2>1, <2>4 DEF OrderInv
    <3>2. CASE j = Len(s) + 1
      BY <2>4, <2>5, <2>8, <3>1, <3>2
    <3>3. CASE j \in 1 .. Len(s)
      BY <2>1, <2>4, <3>1, <3>3 DEF OrderInv, InOrder
    <3> QED
      BY <2>4, <3>2, <3>3
  <2>10. \A q, ka : HeaderFor(d, q, ka)' <=> HeaderFor(d, q, ka)
    BY <1>2 DEF HeaderFor
  <2>11. TrueHeader(d, a)
    BY <1>4, <2>5, <2>6 DEF TrueHeader, OrderInv
  <2>12. \A i \in DOMAIN wire'[d] : TrueHeader(d, wire[d][i])'
    <3>1. \A i \in 1 .. Len(s) : TrueHeader(d, s[i])
      BY <2>1, <2>4 DEF OrderInv
    <3> QED
      BY <2>4, <2>10, <2>11, <3>1 DEF TrueHeader
  <2>13. /\ \A q \in Sent(d)' : phase'[q] \in RoutePhases => req'[q].kind = "route"
         /\ \A q, t \in Sent(d)' : phase'[q] # "done" /\ q[2] < t[2] => <<q, t>> \in together'
    BY <1>1, <1>2, <1>3 DEF OrderInv, RoutePhases
  <2>14. \A q \in Sent(d)' : phase'[q] \in {"rendered", "sending"} /\ Takes(d)' => HeaderFor(d, q, echo[q])'
    <3>1. Takes(d)' <=> Takes(d)
      BY DEF Takes
    <3> QED
      BY <1>1, <1>2, <1>3, <2>10, <3>1 DEF OrderInv
  <2>15. Takes(d)' => /\ d \in DOMAIN clients'
                      /\ \A q \in Sent(d)' : Newest(d, q)' => clients'[d].keep_alive = req'[q].keep_alive
    BY <1>2 DEF OrderInv, Takes, Newest
  <2> QED
    BY <1>2, <2>7, <2>9, <2>12, <2>13, <2>14, <2>15 DEF OrderInv
<1> QED
  BY <1>5, <1>6

LEMMA DataOrder ==
    ASSUME IInv, \A d \in Conns : OrderInv(d),
           NEW c \in Conns, NEW kind \in Kinds, NEW ka \in BOOLEAN, DataEvent(c, kind, ka)
    PROVE  \A d \in Conns : OrderInv(d)'
<1>0. TypeOK /\ \A d \in Conns : ConnInv(d)
  BY DEF IInv
<1>1. PICK r : r = NextRequest(c)
  OBVIOUS
<1>2. Active(c) /\ ~Counting(c) /\ loop # Down
  BY DEF DataEvent, Active, Counting, Idle, Down
<1>3. r \in Reqs /\ r[1] = c /\ phase[r] = "none"
  BY <1>0, <1>1, <1>2, NextRequestType
<1>4. /\ \A q \in Reqs \ {r} : phase'[q] = phase[q] /\ req'[q] = req[q]
      /\ phase'[r] \in {"queued", "fetched", "done"}
      /\ req'[r] = [kind |-> kind, keep_alive |-> ka]
      /\ echo' = echo /\ sock' = sock
  BY <1>0, <1>1, <1>3 DEF DataEvent, TypeOK
<1>5. /\ DOMAIN clients' = DOMAIN clients
      /\ \A d \in DOMAIN clients : d # c => clients'[d] = clients[d]
      /\ c \in DOMAIN clients => clients'[c].keep_alive = ka
  BY <1>0 DEF DataEvent, TypeOK, Entry, KeepAliveOf
<1>6. \A d \in Conns : \A q \in Sent(d) : q \in Reqs /\ q[1] = d /\ phase[q] # "none"
  BY DEF Sent
<1>7. /\ together \subseteq together'
      /\ \A q \in Sent(c) : phase[q] # "done" => <<q, r>> \in together'
  <2>1. together' = together \cup (Outstanding(c) \X {r})
    BY <1>1 DEF DataEvent
  <2>2. \A q \in Sent(c) : phase[q] # "done" => q \in Outstanding(c)
    BY <1>6 DEF Outstanding
  <2> QED
    BY <2>1, <2>2
<1>8. ASSUME NEW d \in Conns, d # c
      PROVE  OrderInv(d)'
  <2>1. Sent(d)' = Sent(d)
    BY <1>3, <1>4, <1>8 DEF Sent
  <2>2. wire'[d] = wire[d]
    BY <1>0, <1>1, <1>3, <1>8 DEF DataEvent, Send, TypeOK
  <2>3. \A q \in Sent(d) : q \in Reqs \ {r}
    BY <1>3, <1>6, <1>8
  <2>4. Takes(d)' => Takes(d)
    BY <1>4 DEF Takes
  <2>5. \A q \in Sent(d) : phase'[q] = phase[q] /\ req'[q] = req[q] /\ echo'[q] = echo[q]
    BY <1>4, <2>3
  <2> QED
    BY <1>5, <1>7, <1>8, <2>1, <2>2, <2>4, <2>5, OrderKept
<1>9. OrderInv(c)'
  <2>1. PICK n \in 0 .. MaxKeepAlive + 1 : n = Cardinality(Sent(c))
    BY <1>0, SentBounded
  <2>2. n \in Nat /\ r = <<c, n + 1>> /\ Sent(c) = {<<c, i>> : i \in 1 .. n}
    BY <1>0, <1>1, <2>1, MaxKeepAliveAssumption DEF NextRequest, ConnInv
  <2>3. Sent(c)' = Sent(c) \cup {r}
    BY <1>3, <1>4 DEF Sent
  <2>4. r[2] = n + 1 /\ \A q \in Sent(c) : q[2] \in Nat /\ q[2] < r[2] /\ q # r
    BY <2>2
  <2>5. Newest(c, r)' /\ \A q \in Sent(c) : ~Newest(c, q)'
    BY <2>2, <2>3, <2>4 DEF Newest
  <2>6. c \in DOMAIN clients'
    BY <1>0, <1>2, <1>5 DEF ConnInv
  <2>7. \A q \in Sent(c) : phase'[q] = phase[q] /\ req'[q] = req[q]
    BY <1>4, <1>6, <2>4
  <2>8. PICK s \in Seq(Answers) : s = wire[c]
    BY <1>0 DEF TypeOK
  <2>9. wire'[c] = s \/ (kind = "direct" /\ wire'[c] = Append(s, Answer(r, "whole")))
    BY <1>0, <1>1, <1>3, <2>8 DEF DataEvent, Send, TypeOK
  <2>10. Answer(r, "whole") \in Answers
    BY <1>0, <1>3 DEF Answer, Answers, Parts, TypeOK
  <2>11. /\ Len(s) \in Nat
         /\ DOMAIN s = 1 .. Len(s)
         /\ \A i \in 1 .. Len(s) : s[i].req \in Sent(c)
    BY <2>8, LenProperties DEF OrderInv
  <2>12. /\ DOMAIN wire'[c] \in {1 .. Len(s), 1 .. Len(s) + 1}
         /\ \A i \in 1 .. Len(s) : wire'[c][i] = s[i]
         /\ Len(s) + 1 \in DOMAIN wire'[c] =>
               kind = "direct" /\ wire'[c][Len(s) + 1] = Answer(r, "whole")
    BY <2>9, <2>10, <2>11, AppendProperties, LenProperties
  <2>13. \A i \in DOMAIN wire'[c] : i \in 1 .. Len(s) \/ i = Len(s) + 1
    BY <2>11, <2>12
  <2>14. Answer(r, "whole").req = r
    BY DEF Answer
  <2>15. \A i \in DOMAIN wire'[c] : wire'[c][i].req \in Sent(c)'
    BY <2>3, <2>11, <2>12, <2>13, <2>14
  <2>16. InOrder(c)'
    <3> SUFFICES ASSUME NEW i \in DOMAIN wire'[c], NEW j \in DOMAIN wire'[c], i < j
                 PROVE  \/ wire'[c][i].req[2] <= wire'[c][j].req[2]
                        \/ <<wire'[c][j].req, wire'[c][i].req>> \in together'
      BY DEF InOrder
    <3>1. i \in 1 .. Len(s) /\ wire'[c][i] = s[i] /\ s[i].req \in Sent(c)
      BY <2>11, <2>12, <2>13
    <3>2. CASE j = Len(s) + 1
      BY <2>4, <2>12, <2>14, <3>1, <3>2
    <3>3. CASE j \in 1 .. Len(s)
      BY <1>7, <2>8, <2>11, <2>12, <3>1, <3>3 DEF OrderInv, InOrder
    <3> QED
      BY <2>13, <3>2, <3>3
  <2>17. \A q, b : HeaderFor(c, q, b) => HeaderFor(c, q, b)'
    BY <1>7, <2>3, <2>7, HeaderStays
  <2>18. \A i \in DOMAIN wire'[c] : TrueHeader(c, wire[c][i])'
    <3> SUFFICES ASSUME NEW i \in DOMAIN wire'[c]
                 PROVE  TrueHeader(c, wire[c][i])'
      OBVIOUS
    <3>1. CASE i \in 1 .. Len(s)
      <4>1. TrueHeader(c, s[i]) /\ s[i].req \in Sent(c) /\ wire'[c][i] = s[i]
        BY <2>8, <2>11, <2>12, <3>1 DEF OrderInv
      <4> QED
        BY <2>7, <2>17, <4>1 DEF TrueHeader
    <3>2. CASE i = Len(s) + 1
      BY <1>4, <2>12, <2>14, <3>2 DEF TrueHeader
    <3> QED
      BY <2>13, <3>1, <3>2
  <2>19. \A q, t \in Sent(c)' : phase'[q] # "done" /\ q[2] < t[2] => <<q, t>> \in together'
    <3> SUFFICES ASSUME NEW q \in Sent(c)', NEW t \in Sent(c)', phase'[q] # "done", q[2] < t[2]
                 PROVE  <<q, t>> \in together'
      OBVIOUS
    <3>1. q \in Sent(c)
      BY <2>3, <2>4
    <3>2. CASE t = r
      BY <1>7, <2>7, <3>1, <3>2
    <3>3. CASE t \in Sent(c)
      BY <1>7, <2>7, <3>1, <3>3 DEF OrderInv
    <3> QED
      BY <2>3, <3>2, <3>3
  <2>20. \A q \in Sent(c)' : phase'[q] \in RoutePhases => req'[q].kind = "route"
    BY <1>4, <2>3, <2>7 DEF OrderInv, RoutePhases
  <2>21. \A q \in Sent(c)' : Newest(c, q)' => clients'[c].keep_alive = req'[q].keep_alive
    BY <1>4, <1>5, <2>3, <2>5, <2>6
  <2>22. \A q \in Sent(c)' : phase'[q] \in {"rendered", "sending"} /\ Takes(c)' => HeaderFor(c, q, echo[q])'
    <3>1. Takes(c)' <=> Takes(c)
      BY <1>4 DEF Takes
    <3>2. \A q \in Sent(c) : phase'[q] \in {"rendered", "sending"} /\ Takes(c)' => HeaderFor(c, q, echo[q])'
      BY <1>4, <2>7, <2>17, <3>1 DEF OrderInv
    <3> QED
      BY <1>4, <2>3, <3>2
  <2> QED
    BY <2>6, <2>15, <2>16, <2>18, <2>19, <2>20, <2>21, <2>22 DEF OrderInv
<1> QED
  BY <1>8, <1>9

\* A step of connections: sockets are only closed, and what is forgotten is
\* of a connection that takes no more answers.
LEMMA OrderAside ==
    ASSUME \A c \in Conns : OrderInv(c),
           wire' = wire, phase' = phase, req' = req, echo' = echo, together' = together,
           \A c \in Conns : Takes(c)' => Takes(c) /\ (c \in DOMAIN clients =>
                c \in DOMAIN clients' /\ clients'[c].keep_alive = clients[c].keep_alive)
    PROVE  \A c \in Conns : OrderInv(c)'
<1>1. \A c \in Conns : Sent(c)' = Sent(c)
  BY DEF Sent
<1> QED
  BY <1>1, OrderKept

\* A step of a worker, or of the loop, that moves r on and writes nothing.
LEMMA OrderMoved ==
    ASSUME TypeOK, \A c \in Conns : OrderInv(c),
           NEW r \in Reqs, phase[r] \notin {"none", "done"},
           NEW x \in Phases \ {"none"}, phase' = [phase EXCEPT ![r] = x],
           x \in RoutePhases => req[r].kind = "route" \/ phase[r] \in RoutePhases,
           x = "sending" => phase[r] = "rendered",
           x # "rendered",
           wire' = wire, req' = req, echo' = echo, together' = together, sock' = sock,
           \A c \in Conns : Takes(c) /\ c \in DOMAIN clients =>
                c \in DOMAIN clients' /\ clients'[c].keep_alive = clients[c].keep_alive
    PROVE  \A c \in Conns : OrderInv(c)'
<1>1. \A q \in Reqs : phase'[q] = IF q = r THEN x ELSE phase[q]
  BY DEF TypeOK
<1>2. \A c \in Conns : Sent(c)' = Sent(c) /\ \A q \in Sent(c) : q \in Reqs
  BY <1>1, SentKept DEF Sent
<1>3. \A c \in Conns : Takes(c)' <=> Takes(c)
  BY DEF Takes
<1> QED
  BY <1>1, <1>2, <1>3, OrderKept

\* The worker reads the keep_alive of the newest request, which is r or came
\* while r was being answered.
LEMMA ReadKeepAliveOrder ==
    ASSUME IInv, \A c \in Conns : OrderInv(c), NEW r \in Reqs, ReadKeepAlive(r)
    PROVE  \A c \in Conns : OrderInv(c)'
<1>0. TypeOK /\ \A d \in Conns : ConnInv(d)
  BY DEF IInv
<1>1. PICK d \in Conns : d = r[1]
  BY ReqParts
<1>2. /\ phase[r] = "handled"
      /\ \A q \in Reqs : phase'[q] = IF q = r THEN "rendered" ELSE phase[q]
      /\ wire' = wire /\ req' = req /\ together' = together /\ sock' = sock
      /\ \A q \in Reqs \ {r} : echo'[q] = echo[q]
  BY <1>0 DEF ReadKeepAlive, MoveTo, TypeOK
<1>3. /\ \A c \in DOMAIN clients : c \in DOMAIN clients' /\ clients'[c] = clients[c]
      /\ d \in DOMAIN clients => echo'[r] = clients[d].keep_alive
  BY <1>0, <1>1 DEF ReadKeepAlive, Put, TypeOK
<1>4. \A c \in Conns : Sent(c)' = Sent(c) /\ \A q \in Sent(c) : q \in Reqs /\ q[1] = c
  BY <1>2, SentKept DEF Sent
<1>5. \A c \in Conns : Takes(c)' <=> Takes(c)
  BY <1>2 DEF Takes
<1>6. ASSUME NEW c \in Conns, c # d
      PROVE  OrderInv(c)'
  <2>1. \A q \in Sent(c) : q \in Reqs \ {r}
    BY <1>1, <1>4, <1>6
  <2> QED
    BY <1>2, <1>3, <1>4, <1>5, <2>1, OrderKept
<1>7. OrderInv(d)'
  <2>1. r \in Sent(d)
    BY <1>1, <1>2 DEF Sent
  <2>2. \A q : Newest(d, q)' <=> Newest(d, q)
    BY <1>4 DEF Newest
  <2>3. req[r].kind = "route"
    BY <1>2, <2>1 DEF OrderInv, RoutePhases
  <2>4. Takes(d) => HeaderFor(d, r, echo'[r])
    <3> SUFFICES ASSUME Takes(d)
                 PROVE  HeaderFor(d, r, echo'[r])
      OBVIOUS
    <3>1. PICK n \in 0 .. MaxKeepAlive + 1 : n = Cardinality(Sent(d))
      BY <1>0, SentBounded
    <3>2. n \in Nat /\ Sent(d) = {<<d, i>> : i \in 1 .. n}
      BY <1>0, <3>1, MaxKeepAliveAssumption DEF ConnInv
    <3>3. n # 0
      BY <2>1, <3>2
    <3>4. PICK s \in Sent(d) : s = <<d, n>>
      <4>1. n \in 1 .. n
        BY <3>2, <3>3
      <4>2. <<d, n>> \in Sent(d)
        BY <3>2, <4>1
      <4> QED
        BY <4>2
    <3>5. Newest(d, s)
      BY <3>2, <3>4 DEF Newest
    <3>6. clients[d].keep_alive = req[s].keep_alive /\ d \in DOMAIN clients
      BY <3>5 DEF OrderInv
    <3>7. s = r \/ <<r, s>> \in together
      <4>1. PICK i \in 1 .. n : r = <<d, i>>
        BY <2>1, <3>2
      <4>2. CASE i = n
        BY <3>4, <4>1, <4>2
      <4>3. CASE i # n
        <5>1. r[2] < s[2]
          BY <3>4, <4>1, <4>3
        <5> QED
          BY <1>2, <2>1, <5>1 DEF OrderInv
      <4> QED
        BY <4>2, <4>3
    <3> QED
      BY <1>3, <3>6, <3>7 DEF HeaderFor
  <2>5. \A q, b : HeaderFor(d, q, b)' <=> HeaderFor(d, q, b)
    BY <1>2, <1>4 DEF HeaderFor
  <2>6. InOrder(d)' /\ \A i \in DOMAIN wire'[d] : TrueHeader(d, wire[d][i])'
    BY <1>2, <2>5 DEF OrderInv, InOrder, TrueHeader
  <2>7. \A q \in Sent(d)' : phase'[q] \in {"rendered", "sending"} /\ Takes(d)' => HeaderFor(d, q, echo[q])'
    <3> SUFFICES ASSUME NEW q \in Sent(d), phase'[q] \in {"rendered", "sending"}, Takes(d)
                 PROVE  HeaderFor(d, q, echo[q])'
      BY <1>4, <1>5
    <3>1. CASE q = r
      BY <2>4, <2>5, <3>1
    <3>2. CASE q # r
      BY <1>2, <1>4, <2>5, <3>2 DEF OrderInv
    <3> QED
      BY <3>1, <3>2
  <2>8. /\ \A q \in Sent(d)' : phase'[q] \in RoutePhases => req'[q].kind = "route"
        /\ \A q, t \in Sent(d)' : phase'[q] # "done" /\ q[2] < t[2] => <<q, t>> \in together'
        /\ \A i \in DOMAIN wire'[d] : wire'[d][i].req \in Sent(d)'
    BY <1>2, <1>4, <2>3 DEF OrderInv, RoutePhases
  <2>9. Takes(d)' => /\ d \in DOMAIN clients'
                     /\ \A q \in Sent(d)' : Newest(d, q)' => clients'[d].keep_alive = req'[q].keep_alive
    BY <1>2, <1>3, <1>4, <1>5, <2>2 DEF OrderInv
  <2> QED
    BY <2>6, <2>7, <2>8, <2>9 DEF OrderInv
<1> QED
  BY <1>6, <1>7

LEMMA NextOrder ==
    ASSUME IInv, \A c \in Conns : OrderInv(c), [Step]_svars
    PROVE  \A c \in Conns : OrderInv(c)'
<1>0. TypeOK /\ BodyInv /\ \A c \in Conns : ConnInv(c)
  BY DEF IInv
<1>1. ASSUME NEW c \in Conns, ListenEvent(c)
      PROVE  \A d \in Conns : OrderInv(d)'
  <2>1. /\ wire' = wire /\ phase' = phase /\ req' = req /\ echo' = echo /\ together' = together
        /\ \A d \in Conns : Sent(d)' = Sent(d)
    BY <1>1 DEF ListenEvent, Sent
  <2>2. ASSUME NEW d \in Conns, d # c
        PROVE  OrderInv(d)'
    <3>1. sock'[d] = sock[d]
      BY <1>0, <1>1, <2>2 DEF ListenEvent, TypeOK
    <3>2. d \in DOMAIN clients => d \in DOMAIN clients' /\ clients'[d] = clients[d]
      BY <1>1, <2>2 DEF ListenEvent, Put
    <3> QED
      BY <2>1, <3>1, <3>2, OrderKept DEF Takes
  <2>3. OrderInv(c)'
    <3>1. Sent(c) = {} /\ Sent(c)' = {}
      BY <1>0, <1>1, <2>1 DEF ListenEvent, ConnInv
    <3>2. c \in DOMAIN clients'
      BY <1>1 DEF ListenEvent, Put
    <3>3. InOrder(c)' /\ DOMAIN wire'[c] = {}
      BY <2>1, <3>1 DEF OrderInv, InOrder
    <3> QED
      BY <3>1, <3>2, <3>3 DEF OrderInv
  <2> QED
    BY <2>2, <2>3
<1>2. CASE CountRequest
  <2>1. wire' = wire /\ phase' = phase /\ req' = req /\ echo' = echo /\ together' = together
    BY <1>2 DEF CountRequest
  <2>2. \A d \in Conns : Takes(d)' => Takes(d)
    BY <1>0, <1>2 DEF CountRequest, Closing, Takes, TypeOK
  <2>3. /\ DOMAIN clients' = DOMAIN clients
        /\ \A d \in DOMAIN clients : clients'[d].keep_alive = clients[d].keep_alive
    BY <1>0, <1>2 DEF CountRequest, TypeOK, Entry
  <2> QED
    BY <2>1, <2>2, <2>3, OrderAside
<1>3. ASSUME NEW c \in Conns, EndEvent(c) \/ ErrorEvent(c) \/ TimerEvent(c) \/ CloseEvent(c)
      PROVE  \A d \in Conns : OrderInv(d)'
  <2>1. wire' = wire /\ phase' = phase /\ req' = req /\ echo' = echo /\ together' = together
    BY <1>3 DEF EndEvent, ErrorEvent, TimerEvent, CloseEvent
  <2>2. \A d \in Conns : Takes(d)' => Takes(d)
    BY <1>0, <1>3 DEF EndEvent, ErrorEvent, TimerEvent, CloseEvent, CloseIfActive, TimerCloses,
                      Closing, Active, Takes, TypeOK
  <2>3. clients' = clients \/ (clients' = Forget(c) /\ ~Takes(c)')
    BY <1>0, <1>3 DEF EndEvent, ErrorEvent, TimerEvent, CloseEvent, CloseIfActive, Closing,
                      Active, IsOpen, Takes, TypeOK
  <2>4. \A d \in Conns : Takes(d)' /\ d \in DOMAIN clients => d \in DOMAIN clients' /\ clients'[d] = clients[d]
    BY <2>3, ForgetOthers
  <2> QED
    BY <2>1, <2>2, <2>4, OrderAside
<1>4. CASE StartTask
  <2>1. Head(queue) \in Reqs
    BY <1>0, <1>4 DEF StartTask, TypeOK
  <2>2. /\ phase[Head(queue)] = "queued" /\ phase' = [phase EXCEPT ![Head(queue)] = "running"]
        /\ wire' = wire /\ req' = req /\ echo' = echo /\ together' = together
        /\ sock' = sock /\ clients' = clients
    BY <1>4 DEF StartTask, MoveTo
  <2> QED
    BY <1>0, <2>1, <2>2, OrderMoved DEF Phases, RoutePhases
<1>5. ASSUME NEW r \in Reqs, HandleRoute(r) \/ ReadFile(r) \/ CheckOpen(r)
      PROVE  \A d \in Conns : OrderInv(d)'
  <2>1. PICK x \in Phases \ {"none", "rendered"} :
           /\ phase' = [phase EXCEPT ![r] = x]
           /\ x \in RoutePhases => req[r].kind = "route" \/ phase[r] \in RoutePhases
           /\ x = "sending" => phase[r] = "rendered"
    BY <1>5 DEF HandleRoute, ReadFile, CheckOpen, MoveTo, FailedPhase, AsyncSent, Phases, RoutePhases
  <2>2. phase[r] \notin {"none", "done"}
    BY <1>5 DEF HandleRoute, ReadFile, CheckOpen, MoveTo
  <2>3. /\ wire' = wire /\ req' = req /\ echo' = echo /\ together' = together
        /\ sock' = sock /\ clients' = clients
    BY <1>5 DEF HandleRoute, ReadFile, CheckOpen
  <2> QED
    BY <1>0, <2>1, <2>2, <2>3, OrderMoved
<1>6. ASSUME NEW r \in Reqs, Write(r)
      PROVE  \A d \in Conns : OrderInv(d)'
  <2>1. /\ phase[r] \in {"sending", "reporting"} /\ phase' = [phase EXCEPT ![r] = "done"]
        /\ req' = req /\ echo' = echo /\ together' = together /\ sock' = sock
    BY <1>6 DEF Write, MoveTo
  <2>2. CASE wire' = wire /\ (clients' = clients \/ (clients' = Forget(r[1]) /\ ~IsOpen(r[1])))
    <3>1. \A d \in Conns : Takes(d) /\ d \in DOMAIN clients => d \in DOMAIN clients' /\ clients'[d] = clients[d]
      BY <2>2, ForgetOthers, ReqParts DEF Takes, IsOpen
    <3> QED
      BY <1>0, <2>1, <2>2, <3>1, OrderMoved DEF Phases, RoutePhases
  <2>3. CASE Takes(r[1]) /\ Send(r, "whole") /\ phase[r] = "sending" /\ clients' = clients
    BY <1>0, <2>1, <2>3, OrderSent DEF Parts
  <2>4. CASE Send(r, "error") /\ clients' = clients
    BY <1>0, <2>1, <2>4, OrderSent DEF Parts
  <2> QED
    BY <1>6, <2>1, <2>2, <2>3, <2>4 DEF Write, Takes
<1>7. ASSUME NEW r \in Reqs, AsyncEvent(r)
      PROVE  \A d \in Conns : OrderInv(d)'
  <2>1. /\ phase[r] = "fetched"
        /\ req' = req /\ echo' = echo /\ together' = together /\ sock' = sock /\ clients' = clients
    BY <1>7 DEF AsyncEvent
  <2>2. CASE phase' = [phase EXCEPT ![r] = "done"] /\ wire' = wire
    BY <1>0, <2>1, <2>2, OrderMoved DEF Phases, RoutePhases
  <2>3. CASE Send(r, "error") /\ phase' = [phase EXCEPT ![r] = "done"]
    BY <1>0, <2>1, <2>3, OrderSent DEF Parts
  <2>4. CASE Send(r, "head") /\ phase' = phase
    BY <1>0, <2>1, <2>4, OrderSent DEF Parts
  <2> QED
    BY <1>7, <2>2, <2>3, <2>4 DEF AsyncEvent
<1>8. CASE SendBody
  <2>1. PICK r \in Reqs : loop = [at |-> "body", req |-> r]
    BY <1>0, <1>8 DEF SendBody, TypeOK, LoopStates, Idle, Down
  <2>2. /\ Send(r, "body") /\ phase[r] = "fetched" /\ phase' = [phase EXCEPT ![r] = "done"]
        /\ req' = req /\ echo' = echo /\ together' = together /\ sock' = sock /\ clients' = clients
    BY <1>0, <1>8, <2>1 DEF SendBody, BodyInv
  <2> QED
    BY <1>0, <2>2, OrderSent DEF Parts
<1>9. CASE UNCHANGED svars
  <2>1. /\ wire' = wire /\ phase' = phase /\ req' = req /\ echo' = echo /\ together' = together
        /\ sock' = sock /\ clients' = clients
    BY <1>9 DEF svars
  <2> QED
    BY <2>1, OrderAside DEF Takes
<1> QED
  BY <1>0, <1>1, <1>2, <1>3, <1>4, <1>5, <1>6, <1>7, <1>8, <1>9, DataOrder, ReadKeepAliveOrder
     DEF Step, ConnEvent, WorkerStep

(***************************************************************************)
(* Between the head and the body of a file: the loop is busy with it, and  *)
(* what is written there is of workers.                                    *)
(***************************************************************************)
BetweenInv(c) ==
    /\ \A i, j \in DOMAIN wire[c] :
          loop.at = "body" /\ i < j /\ wire[c][i].req = loop.req /\ wire[c][i].part = "head"
             => req[wire[c][j].req].kind = "route"
    /\ WorkersBetween(c)

LEMMA BetweenKept ==
    ASSUME NEW c \in Conns, OrderInv(c), BetweenInv(c), wire'[c] = wire[c],
           \A r \in Sent(c) : req'[r] = req[r],
           loop' = loop \/ loop'.at # "body"
    PROVE  BetweenInv(c)'
<1>1. \A i \in DOMAIN wire[c] : req'[wire[c][i].req] = req[wire[c][i].req]
  BY DEF OrderInv
<1> QED
  BY <1>1 DEF BetweenInv, WorkersBetween

\* A step that writes an answer to r: of a worker, or of a loop that is not
\* between two parts, or the part that was missing.
LEMMA BetweenSent ==
    ASSUME TypeOK, NEW r \in Reqs, NEW part \in Parts, Send(r, part),
           \A c \in Conns : OrderInv(c) /\ BetweenInv(c),
           \A c \in Conns : \A q \in Sent(c) : req'[q] = req[q],
           \/ req'[r] = req[r] /\ req[r].kind = "route" /\ loop' = loop /\ part # "body"
           \/ loop'.at # "body" /\ part # "body"
           \/ loop'.at # "body" /\ loop.at = "body" /\ loop.req = r
           \/ loop' = [at |-> "body", req |-> r] /\ part # "body" /\ Places(r) = {}
    PROVE  \A c \in Conns : BetweenInv(c)'
<1>1. PICK d \in Conns : d = r[1]
  BY ReqParts
<1>2. PICK s \in Seq(Answers) : s = wire[d]
  BY DEF TypeOK
<1>3. PICK a \in Answers : a = Answer(r, part)
  BY DEF Answer, Answers, TypeOK
<1>4. wire'[d] = Append(s, a) /\ \A c \in Conns \ {d} : wire'[c] = wire[c]
  BY <1>1, <1>2, <1>3 DEF Send, TypeOK
<1>5. /\ Len(s) \in Nat
      /\ DOMAIN s = 1 .. Len(s)
      /\ DOMAIN wire'[d] = 1 .. Len(s) + 1
      /\ \A i \in 1 .. Len(s) : wire'[d][i] = s[i]
      /\ wire'[d][Len(s) + 1] = a
  BY <1>4, AppendProperties, LenProperties
<1>6. a.req = r /\ a.part = part
  BY <1>3 DEF Answer
<1>7. \A c \in Conns : \A i \in DOMAIN wire[c] :
         /\ wire[c][i].req \in Sent(c)
         /\ req'[wire[c][i].req] = req[wire[c][i].req]
  BY DEF OrderInv
<1>8. ASSUME NEW c \in Conns, c # d
      PROVE  BetweenInv(c)'
  <2>1. wire'[c] = wire[c] /\ \A i \in DOMAIN wire[c] : wire[c][i].req # r
    BY <1>1, <1>4, <1>7, <1>8 DEF Sent
  <2> QED
    BY <1>7, <2>1 DEF BetweenInv, WorkersBetween
<1>9. BetweenInv(d)'
  <2>1. \A i, j \in DOMAIN wire'[d] :
           loop'.at = "body" /\ i < j /\ wire'[d][i].req = loop'.req /\ wire'[d][i].part = "head"
              => req'[wire'[d][j].req].kind = "route"
    <3> SUFFICES ASSUME NEW i \in DOMAIN wire'[d], NEW j \in DOMAIN wire'[d],
                        loop'.at = "body", i < j,
                        wire'[d][i].req = loop'.req, wire'[d][i].part = "head"
                 PROVE  req'[wire'[d][j].req].kind = "route"
      OBVIOUS
    <3>1. i \in 1 .. Len(s) /\ wire'[d][i] = s[i]
      BY <1>5
    <3>2. req'[r] = req[r] /\ req[r].kind = "route" /\ loop' = loop
      <4>1. loop' = [at |-> "body", req |-> r] => s[i].req # r \/ Places(r) # {}
        BY <1>1, <1>2, <1>5, <3>1 DEF Places
      <4> QED
        BY <3>1, <4>1
    <3>3. CASE j \in 1 .. Len(s)
      <4>1. loop.at = "body" /\ s[i].req = loop.req /\ s[i].part = "head"
        BY <3>1, <3>2
      <4>2. wire'[d][j] = s[j] /\ req[s[j].req].kind = "route"
        BY <1>2, <1>5, <3>1, <3>3, <4>1 DEF BetweenInv
      <4> QED
        BY <1>2, <1>5, <1>7, <3>3, <4>2
    <3>4. CASE j = Len(s) + 1
      BY <1>1, <1>5, <1>6, <3>2, <3>4
    <3> QED
      BY <1>5, <3>3, <3>4
  <2>2. ASSUME NEW i \in DOMAIN wire'[d], NEW j \in DOMAIN wire'[d], NEW k \in DOMAIN wire'[d],
               i < j, j < k, wire'[d][i].req = wire'[d][k].req,
               wire'[d][i].part = "head", wire'[d][k].part = "body"
        PROVE  req'[wire'[d][j].req].kind = "route"
    <3>1. /\ i \in 1 .. Len(s) /\ wire'[d][i] = s[i]
          /\ j \in 1 .. Len(s) /\ wire'[d][j] = s[j]
      BY <1>5, <2>2
    <3>2. CASE k \in 1 .. Len(s)
      <4>1. wire'[d][k] = s[k]
        BY <1>5, <3>2
      <4>2. req[s[j].req].kind = "route"
        BY <1>2, <1>5, <2>2, <3>1, <3>2, <4>1 DEF BetweenInv, WorkersBetween
      <4> QED
        BY <1>2, <1>5, <1>7, <3>1, <4>2
    <3>3. CASE k = Len(s) + 1
      <4>1. part = "body" /\ loop.at = "body" /\ loop.req = r /\ s[i].req = r
        BY <1>5, <1>6, <2>2, <3>1, <3>3
      <4>2. req[s[j].req].kind = "route"
        BY <1>2, <1>5, <2>2, <3>1, <4>1 DEF BetweenInv
      <4> QED
        BY <1>2, <1>5, <1>7, <3>1, <4>2
    <3> QED
      BY <1>5, <3>2, <3>3
  <2>3. WorkersBetween(d)'
    BY <2>2 DEF WorkersBetween
  <2> QED
    BY <2>1, <2>3 DEF BetweenInv
<1> QED
  BY <1>8, <1>9

LEMMA NextBetween ==
    ASSUME IInv, \A q \in Reqs : AnswerInv(q), \A c \in Conns : OrderInv(c) /\ BetweenInv(c),
           [Step]_svars
    PROVE  \A c \in Conns : BetweenInv(c)'
<1>0. TypeOK /\ BodyInv /\ \A c \in Conns : ConnInv(c)
  BY DEF IInv
<1>1. ASSUME wire' = wire, req' = req, loop' = loop \/ loop'.at # "body"
      PROVE  \A c \in Conns : BetweenInv(c)'
  BY <1>1, BetweenKept
<1>2. ASSUME NEW c \in Conns, NEW kind \in Kinds, NEW ka \in BOOLEAN, DataEvent(c, kind, ka)
      PROVE  \A d \in Conns : BetweenInv(d)'
  <2>1. PICK r : r = NextRequest(c)
    OBVIOUS
  <2>2. Active(c) /\ ~Counting(c) /\ loop # Down
    BY <1>2 DEF DataEvent, Active, Counting, Idle, Down
  <2>3. r \in Reqs /\ r[1] = c /\ phase[r] = "none"
    BY <1>0, <2>1, <2>2, NextRequestType
  <2>4. \A d \in Conns : \A q \in Sent(d) : req'[q] = req[q]
    BY <1>0, <1>2, <2>1, <2>3 DEF DataEvent, TypeOK, Sent
  <2>5. loop'.at # "body"
    BY <1>2 DEF DataEvent, Down
  <2>6. CASE wire' = wire
    BY <2>4, <2>5, <2>6, BetweenKept
  <2>7. CASE Send(r, "whole")
    BY <1>0, <2>3, <2>4, <2>5, <2>7, BetweenSent DEF Parts
  <2> QED
    BY <1>2, <2>1, <2>6, <2>7 DEF DataEvent
<1>3. ASSUME NEW c \in Conns,
             ListenEvent(c) \/ EndEvent(c) \/ ErrorEvent(c) \/ TimerEvent(c) \/ CloseEvent(c)
      PROVE  \A d \in Conns : BetweenInv(d)'
  BY <1>1, <1>3 DEF ListenEvent, EndEvent, ErrorEvent, TimerEvent, CloseEvent
<1>4. CASE CountRequest
  BY <1>1, <1>4 DEF CountRequest, Idle
<1>5. CASE StartTask
  BY <1>1, <1>5 DEF StartTask
<1>6. ASSUME NEW r \in Reqs, HandleRoute(r) \/ ReadKeepAlive(r) \/ CheckOpen(r) \/ ReadFile(r)
      PROVE  \A d \in Conns : BetweenInv(d)'
  BY <1>1, <1>6 DEF HandleRoute, ReadKeepAlive, CheckOpen, ReadFile
<1>7. ASSUME NEW r \in Reqs, Write(r)
      PROVE  \A d \in Conns : BetweenInv(d)'
  <2>1. phase[r] \in {"sending", "reporting"} /\ req' = req /\ loop' = loop
    BY <1>7 DEF Write, MoveTo
  <2>2. r \in Sent(r[1]) /\ r[1] \in Conns
    BY <2>1, ReqParts DEF Sent
  <2>3. req[r].kind = "route"
    BY <2>1, <2>2 DEF OrderInv, RoutePhases
  <2>4. CASE wire' = wire
    BY <1>1, <2>1, <2>4
  <2>5. ASSUME NEW part \in {"whole", "error"}, Send(r, part)
        PROVE  \A d \in Conns : BetweenInv(d)'
    BY <1>0, <2>1, <2>2, <2>3, <2>5, BetweenSent DEF Parts
  <2> QED
    BY <1>7, <2>4, <2>5 DEF Write
<1>8. ASSUME NEW r \in Reqs, AsyncEvent(r)
      PROVE  \A d \in Conns : BetweenInv(d)'
  <2>1. phase[r] = "fetched" /\ req' = req /\ loop = Idle
    BY <1>8 DEF AsyncEvent
  <2>2. r \in Sent(r[1])
    BY <2>1 DEF Sent
  <2>3. Places(r) = {}
    BY <2>1 DEF AnswerInv, Idle
  <2>4. CASE wire' = wire /\ loop' = loop
    BY <1>1, <2>1, <2>4
  <2>5. CASE Send(r, "error") /\ loop' = loop
    BY <1>0, <2>1, <2>2, <2>5, BetweenSent DEF Parts, Idle
  <2>6. CASE Send(r, "head") /\ loop' = [at |-> "body", req |-> r]
    BY <1>0, <2>1, <2>2, <2>3, <2>6, BetweenSent DEF Parts
  <2> QED
    BY <1>8, <2>4, <2>5, <2>6 DEF AsyncEvent
<1>9. CASE SendBody
  <2>1. PICK r \in Reqs : loop = [at |-> "body", req |-> r]
    BY <1>0, <1>9 DEF SendBody, TypeOK, LoopStates, Idle, Down
  <2>2. Send(r, "body") /\ req' = req /\ loop' = Idle /\ phase[r] = "fetched"
    BY <1>0, <1>9, <2>1 DEF SendBody, BodyInv
  <2>3. r \in Sent(r[1])
    BY <2>2 DEF Sent
  <2>4. loop'.at # "body" /\ loop.at = "body" /\ loop.req = r
    BY <2>1, <2>2 DEF Idle
  <2>5. PICK part \in Parts : part = "body"
    BY DEF Parts
  <2>6. \A c \in Conns : \A q \in Sent(c) : req'[q] = req[q]
    BY <2>2
  <2> QED
    BY <1>0, <2>2, <2>3, <2>4, <2>5, <2>6, BetweenSent
<1>10. CASE UNCHANGED svars
  BY <1>1, <1>10 DEF svars
<1> QED
  BY <1>2, <1>3, <1>4, <1>5, <1>6, <1>7, <1>8, <1>9, <1>10 DEF Step, ConnEvent, WorkerStep

------------------------------------------------------------------------------
(* Theorems                                                                 *)

THEOREM Invariance == Spec => []IInv
<1>1. Init => IInv
  BY InitType, InitConn DEF IInv, BodyInv, Init, Idle
<1>2. IInv /\ [Next]_vars => IInv'
  BY WhileItRuns, NextType, NextConn, NextBody DEF IInv
<1> QED
  BY <1>1, <1>2, PTL DEF Spec

\* Every variable keeps its type; in particular no connection serves more
\* than one request beyond the limit, and its count does not either.
THEOREM TypeCorrect == Spec => []TypeOK
BY Invariance, PTL DEF IInv

\* The data handler, which tests nothing, finds the entry and the timer of
\* its connection, whatever workers and error handlers did to the map.
THEOREM TimerThere == Spec => []OpenHasTimer
<1>1. IInv => OpenHasTimer
  <2> SUFFICES ASSUME IInv
               PROVE  OpenHasTimer
    OBVIOUS
  <2>1. ASSUME loop.at = "counting"
        PROVE  Active(loop.req[1])
    <3>1. loop.req[1] \in Conns
      BY <2>1, ReqParts DEF IInv, TypeOK, LoopStates, Idle, Down
    <3> QED
      BY <2>1, <3>1 DEF IInv, ConnInv, Counting
  <2> QED
    BY <2>1 DEF OpenHasTimer, IInv, ConnInv
<1> QED
  BY <1>1, Invariance, PTL

\* What stays in the map for a closed connection is a ghost.
THEOREM OnlyGhostsStay == Spec => []LeftoversAreGhosts
<1>1. IInv => LeftoversAreGhosts
  BY DEF IInv, ConnInv, TypeOK, LeftoversAreGhosts
<1> QED
  BY <1>1, Invariance, PTL

\* Whatever threads, errors and the limit do to a connection, no request is
\* answered twice, none with a body before its head, and none is dropped while
\* its client is there.
THEOREM AnsweredAtMostOnce == Spec => []AnsweredOnce
<1>1. Init => \A r \in Reqs : AnswerInv(r)
  BY ReqParts DEF Init, AnswerInv, Places
<1>2. IInv /\ (\A r \in Reqs : AnswerInv(r)) /\ [Next]_vars => (\A r \in Reqs : AnswerInv(r))'
  BY WhileItRuns, NextAnswers DEF IInv
<1>3. TypeOK /\ (\A r \in Reqs : AnswerInv(r)) => AnsweredOnce
  BY DEF AnsweredOnce, AnswerInv
<1> QED
  BY <1>1, <1>2, <1>3, Invariance, PTL DEF Spec, IInv

\* What the requests of a connection mix up they mix up only when they are in
\* flight together, although they are answered by any thread in any order, the
\* worker reads keep_alive from a place that later requests overwrite and errors
\* erase, and a file is written in two parts.
THEOREM OnlyTogetherIsMixed == Spec => []MixedOnlyTogether
<1>1. Init => \A c \in Conns : OrderInv(c) /\ BetweenInv(c)
  <2> SUFFICES ASSUME Init, NEW c \in Conns
               PROVE  OrderInv(c) /\ BetweenInv(c)
    OBVIOUS
  <2>1. Sent(c) = {} /\ DOMAIN wire[c] = {} /\ ~Takes(c)
    BY DEF Init, Sent, Takes
  <2> QED
    BY <2>1 DEF OrderInv, BetweenInv, InOrder, WorkersBetween
<1>2. Init => \A r \in Reqs : AnswerInv(r)
  BY ReqParts DEF Init, AnswerInv, Places
<1>3. IInv /\ (\A r \in Reqs : AnswerInv(r)) /\ [Next]_vars => (\A r \in Reqs : AnswerInv(r))'
  BY WhileItRuns, NextAnswers DEF IInv
<1>4. IInv /\ (\A r \in Reqs : AnswerInv(r)) /\ (\A c \in Conns : OrderInv(c) /\ BetweenInv(c))
        /\ [Next]_vars => (\A c \in Conns : OrderInv(c) /\ BetweenInv(c))'
  BY WhileItRuns, NextOrder, NextBetween DEF IInv
<1>5. (\A c \in Conns : OrderInv(c) /\ BetweenInv(c)) => MixedOnlyTogether
  BY DEF MixedOnlyTogether, OrderInv, BetweenInv
<1> QED
  BY <1>1, <1>2, <1>3, <1>4, <1>5, Invariance, PTL DEF Spec
==============================================================================
