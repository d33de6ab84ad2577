------------------------------ MODULE Sessions -------------------------------
(***************************************************************************)
(* Sessions from one request to the next: SessionsManager (session.hpp),   *)
(* the signed cookie that carries a copy of the session to the client and  *)
(* back, the copy _handle_request gives the worker, and what _handle_route *)
(* does with it.                                                           *)
(*                                                                         *)
(* A session's values are abstracted to the set of requests that wrote to  *)
(* it, so that a lost or a foreign value can be told.  A uuid is the next  *)
(* unused number, a JWT a record with the key it was signed with.  Each    *)
(* operation on the map `sessions` is one step; the code takes no lock.    *)
(***************************************************************************)
EXTENDS Naturals, FiniteSets, Functions

CONSTANTS
    Clients,            \* browsers, each with its cookie jar
    MaxRequests,        \* bound: requests of one client
    MaxRestarts,        \* bound: restarts of the server
    Ops,                \* what requests do, a subset of AllOps
    EmptyCookies        \* whether a client may send "SessionID=" with no value

AllOps == {"read",      \* a route that leaves the session alone
           "write",     \* a route that writes a value
           "logout",    \* a route that calls destroySession()
           "direct",    \* a reply of the loop itself: no handler, no cookie
           "static"}    \* a route registered with static_route

ASSUME ClientsAssumption == IsFiniteSet(Clients)
ASSUME BoundsAssumption == MaxRequests \in Nat \ {0} /\ MaxRestarts \in Nat
ASSUME OpsAssumption == Ops \subseteq AllOps
ASSUME EmptyCookiesAssumption == EmptyCookies \in BOOLEAN

\* The i-th request of client c.
Reqs == Clients \X (1 .. MaxRequests)

VARIABLES
    sessions,           \* SessionsManager::sessions, a map from ids
    lastId,             \* the number of uuids generated
    key,                \* which private key this run of the server signs with
    up,                 \* the event loop runs
    staticReply,        \* static_routes[index] of the static route
    jar,                \* the cookie each client holds
    phase,              \* how far each request is
    op,                 \* what each request does
    copy,               \* the Session of each request's closure
    cookie,             \* the cookie in each request's answer
    overlapped,         \* history: the client sent a request before its last answer
    replayed,           \* history: clients that got the stored reply of the static route
    run,                \* history: the key of the server that got each request
    saved,              \* history: values whose writing was answered, in this session
    ended               \* history: values of sessions the client was told are over

vars == <<sessions, lastId, key, up, staticReply, jar, phase, op, copy, cookie,
          overlapped, replayed, run, saved, ended>>

Phases == {"none", "queued", "handled", "stored", "signed", "done", "thrown"}

Ids == Nat
Session == [id : Ids, values : SUBSET Reqs]
Copy == [id : Ids, values : SUBSET Reqs, deleted : BOOLEAN]

\* No cookie; ids start at 1.
None == [id |-> 0, values |-> {}, key |-> 0]
Cookie == [id : Ids, values : SUBSET Reqs, key : Nat]

Put(f, x, e) == [y \in DOMAIN f \cup {x} |-> IF y = x THEN e ELSE f[y]]
Remove(f, x) == Restrict(f, DOMAIN f \ {x})

Init ==
    /\ sessions = <<>>
    /\ lastId = 0
    /\ key = 1
    /\ up = TRUE
    /\ staticReply = None
    /\ jar = [c \in Clients |-> None]
    /\ phase = [r \in Reqs |-> "none"]
    /\ op = [r \in Reqs |-> "none"]
    /\ copy = [r \in Reqs |-> [id |-> 0, values |-> {}, deleted |-> FALSE]]
    /\ cookie = [r \in Reqs |-> None]
    /\ overlapped = [c \in Clients |-> FALSE]
    /\ replayed = {}
    /\ run = [r \in Reqs |-> 0]
    /\ saved = [c \in Clients |-> {}]
    /\ ended = [c \in Clients |-> {}]

------------------------------------------------------------------------------
(***************************************************************************)
(* SessionsManager                                                         *)
(***************************************************************************)

\* Variant: every session is given the same id.
FirstId == 1

NewId == lastId + 1

CopyOf(s) == [id |-> s.id, values |-> s.values, deleted |-> FALSE]

\* generateNewSession over the map m, copied for request r.
NewSession(m, r) ==
    LET s == [id |-> NewId, values |-> {}]
    IN  /\ sessions' = Put(m, NewId, s)
        /\ lastId' = lastId + 1
        /\ copy' = [copy EXCEPT ![r] = CopyOf(s)]

\* Variant: no signature is wrong.
AnyKey(t) == TRUE

SignedHere(t) == t.key = key

\* validateSessionCookie for a cookie t that holds a session.
ValidateCookie(t, r) ==
    \/ /\ ~SignedHere(t)
       /\ NewSession(Remove(sessions, t.id), r)
    \/ /\ SignedHere(t)
       /\ t.id \in DOMAIN sessions
       /\ copy' = [copy EXCEPT ![r] = CopyOf(sessions[t.id])]
       /\ UNCHANGED <<sessions, lastId>>
    \/ /\ SignedHere(t)
       /\ t.id \notin DOMAIN sessions
       /\ LET s == [id |-> t.id, values |-> t.values]
          IN  /\ sessions' = Put(sessions, t.id, s)
              /\ copy' = [copy EXCEPT ![r] = CopyOf(s)]
       /\ UNCHANGED lastId

\* Variant: updateSession by insert(), which keeps an entry that is there.
InsertOnly(s) ==
    IF s.id \in DOMAIN sessions THEN sessions ELSE Put(sessions, s.id, s)

UpdateSession(s) == Put(sessions, s.id, s)

\* Variant: erase() does nothing.
EraseNothing(id) == sessions

Erase(id) == Remove(sessions, id)

\* Variant: the session operator[] makes has the values of the request's copy.
CopiedSession(r) == [id |-> lastId + 1, values |-> copy[r].values]

\* Variant: the constructor leaves the id empty.
EmptySession(r) == [id |-> 0, values |-> {}]

\* The Session() operator[] makes for a key that is absent: a new id.
DefaultSession(r) == [id |-> lastId + 1, values |-> {}]

\* generateJWT(id) goes through operator[].
GenerateJWT(id, r) ==
    LET s == IF id \in DOMAIN sessions THEN sessions[id] ELSE DefaultSession(r)
    IN  /\ sessions' = Put(sessions, id, s)
        /\ lastId' = IF id \in DOMAIN sessions THEN lastId ELSE lastId + 1
        /\ cookie' = [cookie EXCEPT ![r] = [id |-> s.id, values |-> s.values, key |-> key]]

------------------------------------------------------------------------------
(***************************************************************************)
(* One request                                                             *)
(***************************************************************************)
Outstanding(c) == {r \in Reqs : r[1] = c /\ phase[r] \notin {"none", "done", "thrown"}}

\* r is the next request of its client.
NextOf(r) == phase[r] = "none" /\ \A i \in 1 .. r[2] - 1 : phase[<<r[1], i>>] # "none"

\* Values whose writing client c was told of before the answer of r.
Answered(r, o) ==
    IF o = "logout" THEN {}
    ELSE IF o = "write" THEN saved[r[1]] \cup {r} ELSE saved[r[1]]

\* _handle_request: find or make the session, copy it, answer or enqueue.
Arrive(r, o) ==
    LET c == r[1]
    IN  /\ up
        /\ NextOf(r)
        /\ op' = [op EXCEPT ![r] = o]
        /\ overlapped' = [overlapped EXCEPT ![c] = @ \/ Outstanding(c) # {}]
        /\ IF jar[c] = None THEN NewSession(sessions, r) ELSE ValidateCookie(jar[c], r)
        /\ \/ /\ o = "direct"
              /\ phase' = [phase EXCEPT ![r] = "done"]
              /\ UNCHANGED <<jar, replayed>>
           \/ /\ o = "static" /\ staticReply # None
              /\ phase' = [phase EXCEPT ![r] = "done"]
              /\ jar' = [jar EXCEPT ![c] = staticReply]
              /\ replayed' = replayed \cup {c}
           \/ /\ o # "direct" /\ ~(o = "static" /\ staticReply # None)
              /\ phase' = [phase EXCEPT ![r] = "queued"]
              /\ UNCHANGED <<jar, replayed>>
        /\ run' = [run EXCEPT ![r] = key]
        /\ UNCHANGED <<key, up, staticReply, cookie, saved, ended>>

\* A cookie with no value: JSONfromJWT gives null, and the conversion of
\* null["id"] to a string throws through the callback and ends the loop.
ArriveWithEmptyCookie(r) ==
    /\ EmptyCookies
    /\ up
    /\ NextOf(r)
    /\ phase' = [phase EXCEPT ![r] = "thrown"]
    /\ up' = FALSE
    /\ UNCHANGED <<sessions, lastId, key, staticReply, jar, op, copy, cookie,
                   overlapped, replayed, run, saved, ended>>

\* What a handler does to the session it is given.
AfterHandler(s, r) ==
    [id |-> s.id,
     values |-> IF op[r] = "write" THEN s.values \cup {r} ELSE s.values,
     deleted |-> op[r] = "logout"]

\* The route handler, which owns the copy; a throw ends in a bare 500.
Handle(r) ==
    /\ phase[r] = "queued"
    /\ \/ /\ phase' = [phase EXCEPT ![r] = "handled"]
          /\ copy' = [copy EXCEPT ![r] = AfterHandler(@, r)]
       \/ /\ phase' = [phase EXCEPT ![r] = "done"]
          /\ UNCHANGED copy
    /\ UNCHANGED <<sessions, lastId, key, up, staticReply, jar, op, cookie,
                   overlapped, replayed, run, saved, ended>>

\* _handle_route: erase a session that was destroyed, store any other.
Store(r) ==
    /\ phase[r] = "handled"
    /\ phase' = [phase EXCEPT ![r] = "stored"]
    /\ sessions' = IF copy[r].deleted
                     THEN Erase(copy[r].id)
                     ELSE UpdateSession([id |-> copy[r].id, values |-> copy[r].values])
    /\ UNCHANGED <<lastId, key, up, staticReply, jar, op, copy, cookie,
                   overlapped, replayed, run, saved, ended>>

\* _handle_route: sign the cookie, and keep the answer of a static route.
Sign(r) ==
    /\ phase[r] = "stored"
    /\ phase' = [phase EXCEPT ![r] = "signed"]
    /\ GenerateJWT(copy[r].id, r)
    /\ staticReply' = IF op[r] = "static" /\ staticReply = None
                        THEN cookie'[r] ELSE staticReply
    /\ UNCHANGED <<key, up, jar, op, copy, overlapped, replayed, run, saved, ended>>

\* The client gets the answer and keeps its cookie.
Deliver(r) ==
    LET c == r[1]
    IN  /\ phase[r] = "signed"
        /\ phase' = [phase EXCEPT ![r] = "done"]
        /\ jar' = [jar EXCEPT ![c] = cookie[r]]
        /\ saved' = [saved EXCEPT ![c] = Answered(r, op[r])]
        /\ ended' = [ended EXCEPT ![c] = IF op[r] = "logout" THEN @ \cup copy[r].values ELSE @]
        /\ UNCHANGED <<sessions, lastId, key, up, staticReply, op, copy, cookie,
                       overlapped, replayed, run>>

\* The connection is gone: the server has done what was asked, unknown to the
\* client.
Lose(r) ==
    /\ phase[r] = "signed"
    /\ phase' = [phase EXCEPT ![r] = "done"]
    /\ saved' = IF op[r] = "logout" THEN [saved EXCEPT ![r[1]] = {}] ELSE saved
    /\ UNCHANGED <<sessions, lastId, key, up, staticReply, jar, op, copy, cookie,
                   overlapped, replayed, run, ended>>

\* A new process: another key, no sessions, no stored replies, and what was
\* in flight is lost.
Restart ==
    /\ key <= MaxRestarts
    /\ key' = key + 1
    /\ up' = TRUE
    /\ sessions' = <<>>
    /\ staticReply' = None
    /\ phase' = [r \in Reqs |-> IF phase[r] = "none" THEN "none" ELSE "done"]
    /\ saved' = [c \in Clients |-> {}]
    /\ UNCHANGED <<lastId, jar, op, copy, cookie, overlapped, replayed, run,
                   ended>>

Next ==
    \/ \E r \in Reqs : \/ \E o \in Ops : Arrive(r, o)
                       \/ ArriveWithEmptyCookie(r)
                       \/ Handle(r)
                       \/ Store(r)
                       \/ Sign(r)
                       \/ Deliver(r)
                       \/ Lose(r)
    \/ Restart

Spec == Init /\ [][Next]_vars

------------------------------------------------------------------------------
(***************************************************************************)
(* Properties                                                              *)
(***************************************************************************)

\* Types; and every id in use was generated.
TypeOK ==
    /\ DOMAIN sessions \subseteq 1 .. lastId
    /\ \A id \in DOMAIN sessions : sessions[id] \in Session
    /\ lastId \in Nat /\ key \in Nat /\ up \in BOOLEAN
    /\ staticReply \in Cookie
    /\ jar \in [Clients -> Cookie]
    /\ phase \in [Reqs -> Phases]
    /\ op \in [Reqs -> Ops \cup {"none"}]
    /\ copy \in [Reqs -> Copy]
    /\ cookie \in [Reqs -> Cookie]
    /\ overlapped \in [Clients -> BOOLEAN]
    /\ replayed \subseteq Clients
    /\ run \in [Reqs -> Nat]
    /\ saved \in [Clients -> SUBSET Reqs]
    /\ ended \in [Clients -> SUBSET Reqs]

Own(c) == {r \in Reqs : r[1] = c}

OwnValuesOnly ==
    /\ \A c \in Clients : jar[c].values \subseteq Own(c)
    /\ \A r \in Reqs : copy[r].values \subseteq Own(r[1])

SharedId ==
    \E c, d \in Clients : c # d /\ jar[c] # None /\ jar[c].id = jar[d].id

\* Whatever the order of handlers, lost answers and logouts, a handler sees
\* and a cookie holds only what the same client's requests wrote, and no two
\* clients hold one session -- as long as the stored reply of a static route
\* was not sent.
SessionsApart == replayed = {} => OwnValuesOnly /\ ~SharedId

\* A restart forgets every session: what a handler is given was written in the
\* same run of the server, whatever old cookies clients come back with, whose ids
\* and values the server would take over if their signature were its own.
RestartForgets ==
    \A r \in Reqs : \A v \in copy[r].values : run[v] = run[r]

Arrives(r) == phase[r] = "none" /\ phase'[r] \in {"queued", "done"}

\* A client that waits for its answers finds in its session every value whose
\* writing was answered, also after answers that were lost -- as long as no
\* stored reply was sent: whoever gets one shares the first client's session
\* and may write over it.
KeepsWhatWasSaved ==
    [][\A r \in Reqs :
          Arrives(r) /\ ~overlapped'[r[1]] /\ replayed = {}
            => saved[r[1]] \subseteq copy'[r].values]_vars

\* For a client that waits for its answers a logout is final: no later
\* request finds a value of the session it ended, also when the client was
\* left with an older cookie because answers were lost.
LogoutIsFinal ==
    [][\A r \in Reqs :
          Arrives(r) /\ ~overlapped'[r[1]] /\ replayed = {}
            => copy'[r].values \cap ended[r[1]] = {}]_vars

\* README.md:168 offers destroySession() "for managing things like exit the
\* session": once the logout was answered, no later request has a value of the
\* session it ended.
SessionCanBeExited ==
    [][\A r \in Reqs : Arrives(r) => copy'[r].values \cap ended[r[1]] = {}]_vars

\* README.md:165, "This is a reference to the client session": what a handler
\* is given was written by requests of the same client.
SessionIsTheClients == OwnValuesOnly
==============================================================================
