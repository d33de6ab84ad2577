--------------------------- MODULE SessionsProofs ----------------------------
(***************************************************************************)
(* Proofs about Sessions, for every finite set of clients, every number of *)
(* requests and restarts, and every choice of what requests may do.        *)
(***************************************************************************)
EXTENDS Sessions, TLAPS

\* Ids that are used as keys were generated: those in cookies that are sent,
\* in copies a worker is going to store, and those the sessions themselves
\* carry, which for a tombstone is not the key.
IdsGenerated ==
    /\ \A id \in DOMAIN sessions : sessions[id].id \in 1 .. lastId
    /\ \A c \in Clients : jar[c] # None => jar[c].id \in 1 .. lastId
    /\ \A r \in Reqs : phase[r] \in {"queued", "handled", "stored"} => copy[r].id \in 1 .. lastId
    /\ \A r \in Reqs : phase[r] = "signed" => cookie[r].id \in 1 .. lastId
    /\ staticReply # None => staticReply.id \in 1 .. lastId

\* generateJWT leaves an entry under the id of a destroyed session; it is the
\* only entry whose session has another id, and it never holds a value.
TombstonesEmpty ==
    \A id \in DOMAIN sessions : sessions[id].id # id => sessions[id].values = {}

IInv == TypeOK /\ IdsGenerated /\ TombstonesEmpty

------------------------------------------------------------------------------
LEMMA ReqParts ==
    ASSUME NEW r \in Reqs
    PROVE  r[1] \in Clients
BY DEF Reqs

LEMMA NoneType == None \in Cookie /\ None.id = 0
BY DEF None, Cookie, Ids

LEMMA RemoveSession ==
    ASSUME NEW m, NEW k
    PROVE  /\ DOMAIN Remove(m, k) = DOMAIN m \ {k}
           /\ \A id \in DOMAIN Remove(m, k) : Remove(m, k)[id] = m[id]
BY DEF Remove, Restrict

\* What a step may do to the map of sessions.
Sound(m, n) ==
    /\ DOMAIN m \subseteq 1 .. n
    /\ \A id \in DOMAIN m :
          /\ m[id] \in Session
          /\ m[id].id \in 1 .. n
          /\ m[id].id # id => m[id].values = {}

LEMMA SoundMap == IInv => Sound(sessions, lastId)
BY DEF IInv, TypeOK, IdsGenerated, TombstonesEmpty, Sound

LEMMA PutSound ==
    ASSUME NEW m, NEW n \in Nat, NEW k \in 1 .. n, NEW s \in Session, Sound(m, n),
           s.id \in 1 .. n, s.id # k => s.values = {}
    PROVE  Sound(Put(m, k, s), n)
<1>1. DOMAIN m \subseteq 1 .. n /\ \A id \in DOMAIN m : m[id] \in Session
  BY DEF Sound
<1>2. PICK p : p = Put(m, k, s)
  OBVIOUS
<1>3. /\ DOMAIN p = DOMAIN m \cup {k}
      /\ \A id \in DOMAIN p : p[id] = IF id = k THEN s ELSE m[id]
  BY <1>2 DEF Put
<1>4. ASSUME NEW id \in DOMAIN p
      PROVE  /\ p[id] \in Session
             /\ p[id].id \in 1 .. n
             /\ p[id].id # id => p[id].values = {}
  BY <1>3, <1>4 DEF Sound
<1> QED
  BY <1>1, <1>2, <1>3, <1>4 DEF Sound

LEMMA RemoveSound ==
    ASSUME NEW m, NEW n \in Nat, NEW k, Sound(m, n)
    PROVE  Sound(Remove(m, k), n)
<1>1. PICK p : p = Remove(m, k)
  OBVIOUS
<1>2. /\ DOMAIN p = DOMAIN m \ {k}
      /\ \A id \in DOMAIN p : p[id] = m[id]
  BY <1>1, RemoveSession
<1> QED
  BY <1>1, <1>2 DEF Sound

LEMMA SoundGrows ==
    ASSUME NEW m, NEW n \in Nat, Sound(m, n)
    PROVE  Sound(m, n + 1)
BY DEF Sound

\* generateNewSession.
LEMMA NewSessionSound ==
    ASSUME IInv, NEW m, Sound(m, lastId), NEW r \in Reqs, NewSession(m, r)
    PROVE  /\ Sound(sessions', lastId')
           /\ lastId' = lastId + 1
           /\ \E s \in Session : s.id \in 1 .. lastId' /\ copy' = [copy EXCEPT ![r] = CopyOf(s)]
<1>1. PICK s : s = [id |-> lastId + 1, values |-> {}]
  OBVIOUS
<1>2. lastId \in Nat
  BY DEF IInv, TypeOK
<1>3. s \in Session /\ s.id = lastId + 1
  BY <1>1, <1>2 DEF Session, Ids
<1>4. /\ sessions' = Put(m, lastId + 1, s)
      /\ lastId' = lastId + 1
      /\ copy' = [copy EXCEPT ![r] = CopyOf(s)]
  BY <1>1 DEF NewSession, NewId
<1>5. Sound(m, lastId + 1)
  BY <1>2, SoundGrows
<1>6. Sound(sessions', lastId')
  BY <1>2, <1>3, <1>4, <1>5, PutSound
<1>7. s.id \in 1 .. lastId'
  BY <1>2, <1>3, <1>4
<1> QED
  BY <1>3, <1>4, <1>6, <1>7

\* validateSessionCookie.
LEMMA ValidateSound ==
    ASSUME IInv, NEW t \in Cookie, t.id \in 1 .. lastId, NEW r \in Reqs, ValidateCookie(t, r)
    PROVE  /\ Sound(sessions', lastId')
           /\ lastId' \in {lastId, lastId + 1}
           /\ \E s \in Session : s.id \in 1 .. lastId' /\ copy' = [copy EXCEPT ![r] = CopyOf(s)]
<1>1. lastId \in Nat /\ Sound(sessions, lastId)
  BY SoundMap DEF IInv, TypeOK
<1>2. CASE t.key # key
  <2>1. Sound(Remove(sessions, t.id), lastId)
    BY <1>1, RemoveSound
  <2> QED
    BY <1>2, <2>1, NewSessionSound DEF ValidateCookie, SignedHere
<1>3. CASE t.key = key /\ t.id \in DOMAIN sessions
  BY <1>1, <1>3 DEF ValidateCookie, SignedHere, Sound
<1>4. CASE t.key = key /\ t.id \notin DOMAIN sessions
  <2>1. PICK s : s = [id |-> t.id, values |-> t.values]
    OBVIOUS
  <2>2. s \in Session /\ s.id = t.id
    BY <2>1 DEF Session, Cookie
  <2>3. /\ sessions' = Put(sessions, t.id, s)
        /\ copy' = [copy EXCEPT ![r] = CopyOf(s)]
        /\ lastId' = lastId
    BY <1>4, <2>1 DEF ValidateCookie, SignedHere
  <2> QED
    BY <1>1, <2>2, <2>3, PutSound
<1> QED
  BY <1>2, <1>3, <1>4

\* generateJWT.
LEMMA GenerateSound ==
    ASSUME IInv, NEW r \in Reqs, NEW id \in 1 .. lastId, GenerateJWT(id, r)
    PROVE  /\ Sound(sessions', lastId')
           /\ lastId' \in {lastId, lastId + 1}
           /\ cookie'[r] \in Cookie
           /\ cookie'[r].id \in 1 .. lastId'
           /\ cookie' = [cookie EXCEPT ![r] = cookie'[r]]
<1>1. lastId \in Nat /\ Sound(sessions, lastId) /\ key \in Nat /\ cookie \in [Reqs -> Cookie]
  BY SoundMap DEF IInv, TypeOK
<1>2. PICK s : s = IF id \in DOMAIN sessions THEN sessions[id] ELSE DefaultSession(r)
  OBVIOUS
<1>3. /\ sessions' = Put(sessions, id, s)
      /\ cookie' = [cookie EXCEPT ![r] = [id |-> s.id, values |-> s.values, key |-> key]]
  BY <1>2 DEF GenerateJWT
<1>4. /\ lastId' \in {lastId, lastId + 1}
      /\ s \in Session /\ s.id \in 1 .. lastId'
      /\ s.id # id => s.values = {}
  <2>1. CASE id \in DOMAIN sessions
    BY <1>1, <1>2, <2>1 DEF GenerateJWT, Sound
  <2>2. CASE id \notin DOMAIN sessions
    BY <1>1, <1>2, <2>2 DEF GenerateJWT, DefaultSession, Session, Ids
  <2> QED
    BY <2>1, <2>2
<1>5. Sound(sessions, lastId')
  BY <1>1, <1>4, SoundGrows
<1>6. Sound(sessions', lastId')
  BY <1>1, <1>3, <1>4, <1>5, PutSound
<1>7. [id |-> s.id, values |-> s.values, key |-> key] \in Cookie
  BY <1>1, <1>4 DEF Cookie, Session
<1> QED
  BY <1>1, <1>3, <1>4, <1>6, <1>7

------------------------------------------------------------------------------
(* Types and ids                                                            *)

LEMMA InitIInv == Init => IInv
<1> SUFFICES ASSUME Init
             PROVE  IInv
  OBVIOUS
<1>1. DOMAIN sessions = {}
  BY DEF Init
<1>2. TypeOK
  BY <1>1, NoneType DEF Init, TypeOK, Copy, Ids, Phases
<1>3. IdsGenerated /\ TombstonesEmpty
  BY <1>1 DEF Init, IdsGenerated, TombstonesEmpty
<1> QED
  BY <1>2, <1>3 DEF IInv

\* The invariant after a step, from what the step did to the parts of it.
LEMMA Assemble ==
    ASSUME IInv, Sound(sessions', lastId'), lastId' \in {lastId, lastId + 1},
           TypeOK',
           \A c \in Clients : jar'[c] = jar[c] \/ jar'[c] = None \/ jar'[c].id \in 1 .. lastId',
           \A r \in Reqs : phase'[r] \in {"queued", "handled", "stored"} =>
                copy'[r].id \in 1 .. lastId'
                  \/ (copy'[r].id = copy[r].id /\ phase[r] \in {"queued", "handled", "stored"}),
           \A r \in Reqs : phase'[r] = "signed" =>
                cookie'[r].id \in 1 .. lastId'
                  \/ (cookie'[r] = cookie[r] /\ phase[r] = "signed"),
           staticReply' = staticReply \/ staticReply' = None \/ staticReply'.id \in 1 .. lastId'
    PROVE  IInv'
<1>1. lastId \in Nat /\ 1 .. lastId \subseteq 1 .. lastId'
  BY DEF IInv, TypeOK
<1>2. TombstonesEmpty'
  BY DEF Sound, TombstonesEmpty
<1>3. \A id \in DOMAIN sessions' : sessions'[id].id \in 1 .. lastId'
  BY DEF Sound
<1>4. /\ \A c \in Clients : jar'[c] # None => jar'[c].id \in 1 .. lastId'
      /\ staticReply' # None => staticReply'.id \in 1 .. lastId'
  BY <1>1 DEF IInv, IdsGenerated
<1>5. /\ \A r \in Reqs : phase'[r] \in {"queued", "handled", "stored"} => copy'[r].id \in 1 .. lastId'
      /\ \A r \in Reqs : phase'[r] = "signed" => cookie'[r].id \in 1 .. lastId'
  BY <1>1 DEF IInv, IdsGenerated
<1> QED
  BY <1>2, <1>3, <1>4, <1>5 DEF IInv, IdsGenerated

LEMMA ArriveStep ==
    ASSUME IInv, NEW r \in Reqs, NEW o \in Ops, Arrive(r, o)
    PROVE  IInv'
<1>1. PICK c \in Clients : c = r[1]
  BY ReqParts
<1>2. TypeOK /\ lastId \in Nat
  BY DEF IInv, TypeOK
<1>3. /\ Sound(sessions', lastId')
      /\ lastId' \in {lastId, lastId + 1}
      /\ \E s \in Session : s.id \in 1 .. lastId' /\ copy' = [copy EXCEPT ![r] = CopyOf(s)]
  <2>1. CASE jar[c] = None
    <3>1. NewSession(sessions, r)
      BY <1>1, <2>1 DEF Arrive
    <3> QED
      BY <3>1, SoundMap, NewSessionSound
  <2>2. CASE jar[c] # None
    <3>1. ValidateCookie(jar[c], r)
      BY <1>1, <2>2 DEF Arrive
    <3>2. jar[c] \in Cookie /\ jar[c].id \in 1 .. lastId
      BY <2>2 DEF IInv, TypeOK, IdsGenerated
    <3> QED
      BY <3>1, <3>2, ValidateSound
  <2> QED
    BY <2>1, <2>2
<1>4. PICK s \in Session : s.id \in 1 .. lastId' /\ copy' = [copy EXCEPT ![r] = CopyOf(s)]
  BY <1>3
<1>5. copy' \in [Reqs -> Copy] /\ copy'[r].id \in 1 .. lastId'
      /\ \A q \in Reqs \ {r} : copy'[q] = copy[q]
  <2>1. CopyOf(s) \in Copy /\ CopyOf(s).id = s.id
    BY DEF CopyOf, Copy, Session
  <2> QED
    BY <1>2, <1>4, <2>1 DEF TypeOK
<1>6. /\ phase' \in [Reqs -> Phases]
      /\ phase'[r] \in {"queued", "done"}
      /\ \A q \in Reqs \ {r} : phase'[q] = phase[q]
  BY <1>2 DEF Arrive, TypeOK, Phases
<1>7. /\ jar' \in [Clients -> Cookie]
      /\ replayed' \subseteq Clients
      /\ \A d \in Clients : jar'[d] = jar[d] \/ jar'[d] = staticReply
  BY <1>1, <1>2 DEF Arrive, TypeOK
<1>8. /\ op' \in [Reqs -> Ops \cup {"none"}] /\ overlapped' \in [Clients -> BOOLEAN]
      /\ run' \in [Reqs -> Nat]
  BY <1>2 DEF Arrive, TypeOK
<1>9. UNCHANGED <<key, up, staticReply, cookie, saved, ended>>
  BY DEF Arrive
<1>10. TypeOK'
  BY <1>2, <1>3, <1>5, <1>6, <1>7, <1>8, <1>9 DEF TypeOK, Sound
<1>11. 1 .. lastId \subseteq 1 .. lastId'
  BY <1>2, <1>3
<1>12. \A d \in Clients : jar'[d] = jar[d] \/ jar'[d] = None \/ jar'[d].id \in 1 .. lastId'
  BY <1>7, <1>11 DEF IInv, IdsGenerated
<1>13. \A q \in Reqs : phase'[q] \in {"queued", "handled", "stored"} =>
          copy'[q].id \in 1 .. lastId'
            \/ (copy'[q].id = copy[q].id /\ phase[q] \in {"queued", "handled", "stored"})
  BY <1>5, <1>6
<1>14. \A q \in Reqs : phase'[q] = "signed" => cookie'[q] = cookie[q] /\ phase[q] = "signed"
  BY <1>6, <1>9
<1> QED
  BY <1>3, <1>9, <1>10, <1>12, <1>13, <1>14, Assemble

LEMMA SignStep ==
    ASSUME IInv, NEW r \in Reqs, Sign(r)
    PROVE  IInv'
<1>1. TypeOK /\ lastId \in Nat
  BY DEF IInv, TypeOK
<1>2. copy[r].id \in 1 .. lastId
  BY DEF IInv, IdsGenerated, Sign
<1>3. /\ Sound(sessions', lastId')
      /\ lastId' \in {lastId, lastId + 1}
      /\ cookie'[r] \in Cookie
      /\ cookie'[r].id \in 1 .. lastId'
      /\ cookie' = [cookie EXCEPT ![r] = cookie'[r]]
  BY <1>2, GenerateSound DEF Sign
<1>4. /\ cookie' \in [Reqs -> Cookie]
      /\ \A q \in Reqs \ {r} : cookie'[q] = cookie[q]
  <2>1. PICK k : k = cookie'[r]
    OBVIOUS
  <2>2. cookie' = [cookie EXCEPT ![r] = k] /\ k \in Cookie
    BY <1>3, <2>1
  <2> QED
    BY <1>1, <2>2 DEF TypeOK
<1>5. /\ phase' = [phase EXCEPT ![r] = "signed"]
      /\ staticReply' = staticReply \/ staticReply' = cookie'[r]
      /\ UNCHANGED <<key, up, jar, op, copy, overlapped, replayed, run, saved, ended>>
  BY DEF Sign
<1>6. /\ phase' \in [Reqs -> Phases]
      /\ \A q \in Reqs \ {r} : phase'[q] = phase[q]
      /\ phase'[r] = "signed"
  BY <1>1, <1>5 DEF TypeOK, Phases
<1>7. TypeOK'
  BY <1>1, <1>3, <1>4, <1>5, <1>6 DEF TypeOK, Sound
<1> QED
  BY <1>3, <1>4, <1>5, <1>6, <1>7, Assemble

LEMMA StoreStep ==
    ASSUME IInv, NEW r \in Reqs, Store(r)
    PROVE  IInv'
<1>1. TypeOK /\ lastId \in Nat /\ Sound(sessions, lastId)
  BY SoundMap DEF IInv, TypeOK
<1>2. copy[r].id \in 1 .. lastId /\ copy[r] \in Copy
  BY DEF IInv, IdsGenerated, Store, TypeOK
<1>3. PICK s : s = [id |-> copy[r].id, values |-> copy[r].values]
  OBVIOUS
<1>4. s \in Session /\ s.id = copy[r].id
  BY <1>2, <1>3 DEF Copy, Session
<1>5. sessions' = Remove(sessions, copy[r].id) \/ sessions' = Put(sessions, s.id, s)
  BY <1>3 DEF Store, Erase, UpdateSession
<1>6. Sound(sessions', lastId)
  BY <1>1, <1>2, <1>4, <1>5, PutSound, RemoveSound
<1>7. /\ phase' = [phase EXCEPT ![r] = "stored"]
      /\ phase[r] = "handled"
      /\ UNCHANGED <<lastId, key, up, staticReply, jar, op, copy, cookie,
                     overlapped, replayed, run, saved, ended>>
  BY DEF Store
<1>8. /\ phase' \in [Reqs -> Phases]
      /\ phase'[r] = "stored"
      /\ \A q \in Reqs \ {r} : phase'[q] = phase[q]
  BY <1>1, <1>7 DEF TypeOK, Phases
<1>9. TypeOK'
  BY <1>1, <1>6, <1>7, <1>8 DEF TypeOK, Sound
<1> QED
  BY <1>6, <1>7, <1>8, <1>9, Assemble

LEMMA OtherSteps ==
    ASSUME IInv, NEW r \in Reqs,
           ArriveWithEmptyCookie(r) \/ Handle(r) \/ Deliver(r) \/ Lose(r)
    PROVE  IInv'
<1>1. TypeOK /\ lastId \in Nat /\ Sound(sessions, lastId)
  BY SoundMap DEF IInv, TypeOK
<1>2. r[1] \in Clients
  BY ReqParts
<1>3. CASE ArriveWithEmptyCookie(r)
  <2>1. TypeOK'
    BY <1>1, <1>3 DEF ArriveWithEmptyCookie, TypeOK, Phases
  <2>2. \A q \in Reqs : phase'[q] = phase[q] \/ phase'[q] = "thrown"
    BY <1>1, <1>3 DEF ArriveWithEmptyCookie, TypeOK
  <2> QED
    BY <1>1, <1>3, <2>1, <2>2, Assemble DEF ArriveWithEmptyCookie
<1>4. CASE Handle(r)
  <2>1. copy' \in [Reqs -> Copy] /\ \A q \in Reqs : copy'[q].id = copy[q].id
    <3>1. CASE copy' = copy
      BY <1>1, <3>1 DEF TypeOK
    <3>2. CASE copy' = [copy EXCEPT ![r] = AfterHandler(@, r)]
      <4>1. AfterHandler(copy[r], r) \in Copy /\ AfterHandler(copy[r], r).id = copy[r].id
        <5>1. copy[r] \in Copy
          BY <1>1 DEF TypeOK
        <5>2. (op[r] = "logout") \in BOOLEAN
          OBVIOUS
        <5> QED
          BY <5>1, <5>2 DEF AfterHandler, Copy
      <4> QED
        BY <1>1, <3>2, <4>1 DEF TypeOK
    <3> QED
      BY <1>4, <3>1, <3>2 DEF Handle
  <2>2. /\ phase' \in [Reqs -> Phases]
        /\ phase[r] = "queued"
        /\ phase'[r] \in {"handled", "done"}
        /\ \A q \in Reqs \ {r} : phase'[q] = phase[q]
    BY <1>1, <1>4 DEF Handle, TypeOK, Phases
  <2>3. UNCHANGED <<sessions, lastId, key, up, staticReply, jar, op, cookie,
                    overlapped, replayed, run, saved, ended>>
    BY <1>4 DEF Handle
  <2>4. TypeOK'
    BY <1>1, <2>1, <2>2, <2>3 DEF TypeOK
  <2> QED
    BY <1>1, <2>1, <2>2, <2>3, <2>4, Assemble
<1>5. CASE Deliver(r)
  <2>1. jar' \in [Clients -> Cookie]
        /\ \A c \in Clients : jar'[c] = jar[c] \/ jar'[c] = cookie[r]
    BY <1>1, <1>5 DEF Deliver, TypeOK
  <2>2. cookie[r].id \in 1 .. lastId
    BY <1>5 DEF Deliver, IInv, IdsGenerated
  <2>3. saved' \in [Clients -> SUBSET Reqs]
    <3>1. Answered(r, op[r]) \in SUBSET Reqs
      <4>1. saved[r[1]] \in SUBSET Reqs
        BY <1>1, <1>2 DEF TypeOK
      <4>2. Answered(r, op[r]) \in {saved[r[1]] \cup {r}, {}, saved[r[1]]}
        BY DEF Answered
      <4> QED
        BY <4>1, <4>2
    <3> QED
      BY <1>1, <1>5, <3>1 DEF Deliver, TypeOK
  <2>4. ended' \in [Clients -> SUBSET Reqs]
    BY <1>1, <1>2, <1>5 DEF Deliver, TypeOK, Copy
  <2>5. /\ phase' \in [Reqs -> Phases]
        /\ \A q \in Reqs : phase'[q] = phase[q] \/ phase'[q] = "done"
    BY <1>1, <1>5 DEF Deliver, TypeOK, Phases
  <2>6. UNCHANGED <<sessions, lastId, key, up, staticReply, op, copy, cookie,
                    overlapped, replayed, run>>
    BY <1>5 DEF Deliver
  <2>7. TypeOK'
    BY <1>1, <2>1, <2>3, <2>4, <2>5, <2>6 DEF TypeOK
  <2> QED
    BY <1>1, <2>1, <2>2, <2>5, <2>6, <2>7, Assemble
<1>6. CASE Lose(r)
  <2>1. TypeOK'
    BY <1>1, <1>2, <1>6 DEF Lose, TypeOK, Phases
  <2>2. \A q \in Reqs : phase'[q] = phase[q] \/ phase'[q] = "done"
    BY <1>1, <1>6 DEF Lose, TypeOK
  <2> QED
    BY <1>1, <1>6, <2>1, <2>2, Assemble DEF Lose
<1> QED
  BY <1>3, <1>4, <1>5, <1>6

LEMMA RestartStep ==
    ASSUME IInv, Restart
    PROVE  IInv'
<1>1. TypeOK /\ lastId \in Nat
  BY DEF IInv, TypeOK
<1>2. DOMAIN sessions' = {} /\ Sound(sessions', lastId')
  BY DEF Restart, Sound
<1>3. /\ phase' \in [Reqs -> Phases]
      /\ \A q \in Reqs : phase'[q] \in {"none", "done"}
  BY DEF Restart, Phases
<1>4. TypeOK'
  BY <1>1, <1>2, <1>3, NoneType DEF Restart, TypeOK
<1> QED
  BY <1>1, <1>2, <1>3, <1>4, Assemble DEF Restart

LEMMA NextIInv == IInv /\ [Next]_vars => IInv'
<1> SUFFICES ASSUME IInv, [Next]_vars
             PROVE  IInv'
  OBVIOUS
<1>1. ASSUME NEW r \in Reqs, NEW o \in Ops, Arrive(r, o)
      PROVE  IInv'
  BY <1>1, ArriveStep
<1>2. ASSUME NEW r \in Reqs,
             ArriveWithEmptyCookie(r) \/ Handle(r) \/ Deliver(r) \/ Lose(r)
      PROVE  IInv'
  BY <1>2, OtherSteps
<1>3. ASSUME NEW r \in Reqs, Store(r)
      PROVE  IInv'
  BY <1>3, StoreStep
<1>4. ASSUME NEW r \in Reqs, Sign(r)
      PROVE  IInv'
  BY <1>4, SignStep
<1>5. CASE Restart
  BY <1>5, RestartStep
<1>6. CASE UNCHANGED vars
  BY <1>6 DEF vars, IInv, TypeOK, IdsGenerated, TombstonesEmpty
<1> QED
  BY <1>1, <1>2, <1>3, <1>4, <1>5, <1>6 DEF Next

THEOREM Invariance == Spec => []IInv
BY InitIInv, NextIInv, PTL DEF Spec

\* Every variable keeps its type, and every key of the map was generated.
THEOREM TypeCorrect == Spec => []TypeOK
BY Invariance, PTL DEF IInv

------------------------------------------------------------------------------
(***************************************************************************)
(* Every id belongs to one client: f tells to which.  A session, a copy or *)
(* a cookie holds only its owner's values, and a tombstone belongs to the  *)
(* owner of the id it was left under.  An invariant that only speaks of    *)
(* the ids clients hold now would not do: a tombstone's session has an id  *)
(* that the client may meet again later.                                   *)
(***************************************************************************)
HeldBy(x, c, f, n) ==
    /\ x.id \in 0 .. n
    /\ x.values \subseteq Own(c)
    /\ x.id # 0 => f[x.id] = c

MapOwned(m, f, n) ==
    \A id \in DOMAIN m :
        /\ id \in 1 .. n
        /\ m[id].id \in 1 .. n
        /\ m[id].values \subseteq Own(f[id])
        /\ f[m[id].id] = f[id]

Owned(f) ==
    /\ f \in [1 .. lastId -> Clients]
    /\ \A c \in Clients : HeldBy(jar[c], c, f, lastId)
    /\ \A r \in Reqs : HeldBy(copy[r], r[1], f, lastId)
    /\ \A r \in Reqs : HeldBy(cookie[r], r[1], f, lastId)
    /\ MapOwned(sessions, f, lastId)

Apart == replayed = {} => \E f : Owned(f)

\* g says what f says, and perhaps who owns one id more.
Extends(f, n, g, k) ==
    /\ k \in {n, n + 1}
    /\ g \in [1 .. k -> Clients]
    /\ \A id \in 1 .. n : g[id] = f[id]

Extend(f, n, c) == [id \in 1 .. n + 1 |-> IF id = n + 1 THEN c ELSE f[id]]

LEMMA ExtendExtends ==
    ASSUME NEW n \in Nat, NEW f \in [1 .. n -> Clients], NEW c \in Clients
    PROVE  Extends(f, n, Extend(f, n, c), n + 1) /\ Extend(f, n, c)[n + 1] = c
BY DEF Extends, Extend

LEMMA HeldStays ==
    ASSUME NEW n \in Nat, NEW k, NEW f, NEW g, Extends(f, n, g, k), NEW c, NEW x,
           HeldBy(x, c, f, n)
    PROVE  HeldBy(x, c, g, k)
BY DEF HeldBy, Extends

LEMMA MapStays ==
    ASSUME NEW n \in Nat, NEW k, NEW f, NEW g, Extends(f, n, g, k), NEW m,
           MapOwned(m, f, n)
    PROVE  MapOwned(m, g, k)
<1> SUFFICES ASSUME NEW id \in DOMAIN m
             PROVE  /\ id \in 1 .. k
                    /\ m[id].id \in 1 .. k
                    /\ m[id].values \subseteq Own(g[id])
                    /\ g[m[id].id] = g[id]
  BY DEF MapOwned
<1>1. /\ id \in 1 .. n
      /\ m[id].id \in 1 .. n
      /\ m[id].values \subseteq Own(f[id])
      /\ f[m[id].id] = f[id]
  BY DEF MapOwned
<1>2. g[id] = f[id] /\ g[m[id].id] = f[m[id].id] /\ k \in {n, n + 1}
  BY <1>1 DEF Extends
<1> QED
  BY <1>1, <1>2

LEMMA PutOwned ==
    ASSUME NEW n \in Nat, NEW f, NEW m, MapOwned(m, f, n), NEW id \in 1 .. n, NEW s,
           s.id \in 1 .. n, s.values \subseteq Own(f[id]), f[s.id] = f[id]
    PROVE  MapOwned(Put(m, id, s), f, n)
<1>1. PICK p : p = Put(m, id, s)
  OBVIOUS
<1>2. /\ DOMAIN p = DOMAIN m \cup {id}
      /\ \A x \in DOMAIN p : p[x] = IF x = id THEN s ELSE m[x]
  BY <1>1 DEF Put
<1>3. ASSUME NEW x \in DOMAIN p
      PROVE  /\ x \in 1 .. n
             /\ p[x].id \in 1 .. n
             /\ p[x].values \subseteq Own(f[x])
             /\ f[p[x].id] = f[x]
  <2>1. CASE x = id
    BY <1>2, <2>1
  <2>2. CASE x # id
    BY <1>2, <1>3, <2>2 DEF MapOwned
  <2> QED
    BY <2>1, <2>2
<1> QED
  BY <1>1, <1>3 DEF MapOwned

LEMMA RemoveOwned ==
    ASSUME NEW n, NEW f, NEW m, MapOwned(m, f, n), NEW id
    PROVE  MapOwned(Remove(m, id), f, n)
<1>1. PICK p : p = Remove(m, id)
  OBVIOUS
<1>2. /\ DOMAIN p = DOMAIN m \ {id}
      /\ \A x \in DOMAIN p : p[x] = m[x]
  BY <1>1, RemoveSession
<1> QED
  BY <1>1, <1>2 DEF MapOwned

\* What a request is given belongs to its client, whichever way it is found.
LEMMA NewSessionOwned ==
    ASSUME NEW f \in [1 .. lastId -> Clients], lastId \in Nat,
           NEW m, MapOwned(m, f, lastId), NEW r \in Reqs, NewSession(m, r)
    PROVE  \E g, k : /\ Extends(f, lastId, g, lastId')
                     /\ MapOwned(sessions', g, lastId')
                     /\ HeldBy(k, r[1], g, lastId')
                     /\ copy' = [copy EXCEPT ![r] = k]
<1>1. PICK s : s = [id |-> lastId + 1, values |-> {}]
  OBVIOUS
<1>2. /\ sessions' = Put(m, lastId + 1, s)
      /\ lastId' = lastId + 1
      /\ copy' = [copy EXCEPT ![r] = CopyOf(s)]
  BY <1>1 DEF NewSession, NewId
<1>3. PICK g : g = Extend(f, lastId, r[1])
  OBVIOUS
<1>4. Extends(f, lastId, g, lastId + 1) /\ g[lastId + 1] = r[1]
  BY <1>3, ReqParts, ExtendExtends
<1>5. MapOwned(m, g, lastId + 1)
  BY <1>4, MapStays
<1>6. /\ lastId + 1 \in Nat /\ lastId + 1 \in 1 .. lastId + 1
      /\ s.id = lastId + 1 /\ s.values = {}
  BY <1>1
<1>7. MapOwned(sessions', g, lastId + 1)
  BY <1>2, <1>5, <1>6, PutOwned
<1>8. HeldBy(CopyOf(s), r[1], g, lastId + 1)
  BY <1>4, <1>6 DEF HeldBy, CopyOf
<1> QED
  BY <1>2, <1>4, <1>7, <1>8

LEMMA ValidateOwned ==
    ASSUME NEW f \in [1 .. lastId -> Clients], lastId \in Nat,
           MapOwned(sessions, f, lastId), NEW r \in Reqs, NEW t,
           t.id \in 1 .. lastId, HeldBy(t, r[1], f, lastId), ValidateCookie(t, r)
    PROVE  \E g, k : /\ Extends(f, lastId, g, lastId')
                     /\ MapOwned(sessions', g, lastId')
                     /\ HeldBy(k, r[1], g, lastId')
                     /\ copy' = [copy EXCEPT ![r] = k]
<1>1. f[t.id] = r[1] /\ Extends(f, lastId, f, lastId)
  BY DEF HeldBy, Extends
<1>2. CASE t.key # key
  BY <1>2, RemoveOwned, NewSessionOwned DEF ValidateCookie, SignedHere
<1>3. CASE t.key = key /\ t.id \in DOMAIN sessions
  <2>1. /\ sessions' = sessions /\ lastId' = lastId
        /\ copy' = [copy EXCEPT ![r] = CopyOf(sessions[t.id])]
    BY <1>3 DEF ValidateCookie, SignedHere
  <2>2. HeldBy(CopyOf(sessions[t.id]), r[1], f, lastId)
    BY <1>1, <1>3 DEF HeldBy, CopyOf, MapOwned
  <2> QED
    BY <1>1, <2>1, <2>2
<1>4. CASE t.key = key /\ t.id \notin DOMAIN sessions
  <2>1. PICK s : s = [id |-> t.id, values |-> t.values]
    OBVIOUS
  <2>2. /\ sessions' = Put(sessions, t.id, s) /\ lastId' = lastId
        /\ copy' = [copy EXCEPT ![r] = CopyOf(s)]
    BY <1>4, <2>1 DEF ValidateCookie, SignedHere
  <2>3. MapOwned(sessions', f, lastId)
    BY <1>1, <2>1, <2>2, PutOwned DEF HeldBy
  <2>4. HeldBy(CopyOf(s), r[1], f, lastId)
    BY <1>1, <2>1 DEF HeldBy, CopyOf
  <2> QED
    BY <1>1, <2>2, <2>3, <2>4
<1> QED
  BY <1>2, <1>3, <1>4

LEMMA GenerateOwned ==
    ASSUME NEW f \in [1 .. lastId -> Clients], lastId \in Nat,
           MapOwned(sessions, f, lastId), NEW r \in Reqs, NEW id \in 1 .. lastId,
           f[id] = r[1], GenerateJWT(id, r)
    PROVE  \E g, k : /\ Extends(f, lastId, g, lastId')
                     /\ MapOwned(sessions', g, lastId')
                     /\ HeldBy(k, r[1], g, lastId')
                     /\ cookie' = [cookie EXCEPT ![r] = k]
<1>1. PICK s : s = IF id \in DOMAIN sessions THEN sessions[id] ELSE DefaultSession(r)
  OBVIOUS
<1>2. PICK k : k = [id |-> s.id, values |-> s.values, key |-> key]
  OBVIOUS
<1>3. sessions' = Put(sessions, id, s) /\ cookie' = [cookie EXCEPT ![r] = k]
  BY <1>1, <1>2 DEF GenerateJWT
<1>4. CASE id \in DOMAIN sessions
  <2>1. lastId' = lastId /\ Extends(f, lastId, f, lastId)
    BY <1>4 DEF GenerateJWT, Extends
  <2>2. s.id \in 1 .. lastId /\ s.values \subseteq Own(r[1]) /\ f[s.id] = r[1]
    BY <1>1, <1>4 DEF MapOwned
  <2>3. MapOwned(sessions', f, lastId)
    BY <1>3, <2>2, PutOwned
  <2>4. HeldBy(k, r[1], f, lastId)
    BY <1>2, <2>2 DEF HeldBy
  <2> QED
    BY <1>3, <2>1, <2>3, <2>4
<1>5. CASE id \notin DOMAIN sessions
  <2>1. PICK g : g = Extend(f, lastId, r[1])
    OBVIOUS
  <2>2. /\ Extends(f, lastId, g, lastId + 1)
        /\ g[lastId + 1] = r[1]
        /\ g[id] = r[1]
        /\ lastId' = lastId + 1
    <3>1. Extends(f, lastId, g, lastId + 1) /\ g[lastId + 1] = r[1]
      BY <2>1, ReqParts, ExtendExtends
    <3>2. g[id] = r[1]
      BY <3>1 DEF Extends
    <3>3. lastId' = lastId + 1
      BY <1>5 DEF GenerateJWT
    <3> QED
      BY <3>1, <3>2, <3>3
  <2>3. /\ s.id = lastId + 1 /\ s.values = {}
        /\ lastId + 1 \in Nat /\ id \in 1 .. lastId + 1 /\ lastId + 1 \in 1 .. lastId + 1
    BY <1>1, <1>5 DEF DefaultSession
  <2>4. MapOwned(sessions, g, lastId + 1)
    BY <2>2, MapStays
  <2>5. MapOwned(sessions', g, lastId + 1)
    BY <1>3, <2>2, <2>3, <2>4, PutOwned
  <2>6. HeldBy(k, r[1], g, lastId + 1)
    BY <1>2, <2>2, <2>3 DEF HeldBy
  <2> QED
    BY <1>3, <2>2, <2>5, <2>6
<1> QED
  BY <1>4, <1>5

LEMMA ArriveApart ==
    ASSUME IInv, NEW f, Owned(f), NEW r \in Reqs, NEW o \in Ops, Arrive(r, o), replayed' = {}
    PROVE  \E g : Owned(g)'
<1>1. PICK c \in Clients : c = r[1]
  BY ReqParts
<1>2. /\ lastId \in Nat /\ copy \in [Reqs -> Copy]
      /\ f \in [1 .. lastId -> Clients]
      /\ MapOwned(sessions, f, lastId)
  BY DEF IInv, TypeOK, Owned
<1>3. \E g, k : /\ Extends(f, lastId, g, lastId')
                /\ MapOwned(sessions', g, lastId')
                /\ HeldBy(k, c, g, lastId')
                /\ copy' = [copy EXCEPT ![r] = k]
  <2>1. CASE jar[c] = None
    <3>1. NewSession(sessions, r)
      BY <1>1, <2>1 DEF Arrive
    <3> QED
      BY <1>1, <1>2, <3>1, NewSessionOwned
  <2>2. CASE jar[c] # None
    <3>1. ValidateCookie(jar[c], r)
      BY <1>1, <2>2 DEF Arrive
    <3>2. jar[c].id \in 1 .. lastId /\ HeldBy(jar[c], c, f, lastId)
      BY <2>2 DEF IInv, IdsGenerated, Owned
    <3> QED
      BY <1>1, <1>2, <3>1, <3>2, ValidateOwned
  <2> QED
    BY <2>1, <2>2
<1>4. PICK g, k : /\ Extends(f, lastId, g, lastId')
                  /\ MapOwned(sessions', g, lastId')
                  /\ HeldBy(k, c, g, lastId')
                  /\ copy' = [copy EXCEPT ![r] = k]
  BY <1>3
<1>5. jar' = jar /\ cookie' = cookie
  <2>1. replayed' # replayed \cup {c}
    OBVIOUS
  <2> QED
    BY <1>1, <2>1 DEF Arrive
<1>6. /\ \A d \in Clients : HeldBy(jar'[d], d, g, lastId')
      /\ \A q \in Reqs : HeldBy(cookie'[q], q[1], g, lastId')
  BY <1>2, <1>4, <1>5, HeldStays DEF Owned
<1>7. \A q \in Reqs : HeldBy(copy'[q], q[1], g, lastId')
  <2>1. \A q \in Reqs : HeldBy(copy[q], q[1], g, lastId')
    BY <1>2, <1>4, HeldStays DEF Owned
  <2>2. \A q \in Reqs : copy'[q] = IF q = r THEN k ELSE copy[q]
    BY <1>2, <1>4
  <2> QED
    BY <1>1, <1>4, <2>1, <2>2
<1> QED
  BY <1>4, <1>6, <1>7 DEF Owned, Extends

LEMMA SignApart ==
    ASSUME IInv, NEW f, Owned(f), NEW r \in Reqs, Sign(r)
    PROVE  \E g : Owned(g)'
<1>1. /\ lastId \in Nat /\ cookie \in [Reqs -> Cookie]
      /\ f \in [1 .. lastId -> Clients]
      /\ MapOwned(sessions, f, lastId)
  BY DEF IInv, TypeOK, Owned
<1>2. copy[r].id \in 1 .. lastId /\ f[copy[r].id] = r[1]
  BY DEF IInv, IdsGenerated, Sign, Owned, HeldBy
<1>3. PICK g, k : /\ Extends(f, lastId, g, lastId')
                  /\ MapOwned(sessions', g, lastId')
                  /\ HeldBy(k, r[1], g, lastId')
                  /\ cookie' = [cookie EXCEPT ![r] = k]
  BY <1>1, <1>2, GenerateOwned DEF Sign
<1>4. jar' = jar /\ copy' = copy
  BY DEF Sign
<1>5. /\ \A d \in Clients : HeldBy(jar'[d], d, g, lastId')
      /\ \A q \in Reqs : HeldBy(copy'[q], q[1], g, lastId')
  BY <1>1, <1>3, <1>4, HeldStays DEF Owned
<1>6. \A q \in Reqs : HeldBy(cookie'[q], q[1], g, lastId')
  <2>1. \A q \in Reqs : HeldBy(cookie[q], q[1], g, lastId')
    BY <1>1, <1>3, HeldStays DEF Owned
  <2>2. \A q \in Reqs : cookie'[q] = IF q = r THEN k ELSE cookie[q]
    BY <1>1, <1>3
  <2> QED
    BY <1>3, <2>1, <2>2
<1> QED
  BY <1>3, <1>5, <1>6 DEF Owned, Extends

LEMMA StoreApart ==
    ASSUME IInv, NEW f, Owned(f), NEW r \in Reqs, Store(r)
    PROVE  Owned(f)'
<1>1. lastId \in Nat /\ MapOwned(sessions, f, lastId)
  BY DEF IInv, TypeOK, Owned
<1>2. /\ copy[r].id \in 1 .. lastId /\ f[copy[r].id] = r[1]
      /\ copy[r].values \subseteq Own(r[1])
  BY DEF IInv, IdsGenerated, Store, Owned, HeldBy
<1>3. PICK s : s = [id |-> copy[r].id, values |-> copy[r].values]
  OBVIOUS
<1>4. sessions' = Remove(sessions, copy[r].id) \/ sessions' = Put(sessions, s.id, s)
  BY <1>3 DEF Store, Erase, UpdateSession
<1>5. MapOwned(sessions', f, lastId)
  BY <1>1, <1>2, <1>3, <1>4, PutOwned, RemoveOwned
<1> QED
  BY <1>5 DEF Store, Owned

LEMMA HandleApart ==
    ASSUME IInv, NEW f, Owned(f), NEW r \in Reqs, Handle(r)
    PROVE  Owned(f)'
<1>1. copy \in [Reqs -> Copy]
  BY DEF IInv, TypeOK
<1>2. \A q \in Reqs : HeldBy(copy'[q], q[1], f, lastId)
  <2>1. CASE copy' = copy
    BY <2>1 DEF Owned
  <2>2. CASE copy' = [copy EXCEPT ![r] = AfterHandler(@, r)]
    <3>1. r \in Own(r[1])
      BY DEF Own
    <3>2. HeldBy(AfterHandler(copy[r], r), r[1], f, lastId)
      BY <3>1 DEF AfterHandler, HeldBy, Owned
    <3>3. \A q \in Reqs : copy'[q] = IF q = r THEN AfterHandler(copy[r], r) ELSE copy[q]
      BY <1>1, <2>2
    <3> QED
      BY <3>2, <3>3 DEF Owned
  <2> QED
    BY <2>1, <2>2 DEF Handle
<1> QED
  BY <1>2 DEF Handle, Owned

LEMMA DeliverApart ==
    ASSUME IInv, NEW f, Owned(f), NEW r \in Reqs, Deliver(r)
    PROVE  Owned(f)'
<1>1. jar \in [Clients -> Cookie] /\ jar' = [jar EXCEPT ![r[1]] = cookie[r]]
  BY DEF IInv, TypeOK, Deliver
<1>2. \A c \in Clients : jar'[c] = IF c = r[1] THEN cookie[r] ELSE jar[c]
  BY <1>1
<1>3. \A c \in Clients : HeldBy(jar'[c], c, f, lastId)
  BY <1>2 DEF Owned
<1> QED
  BY <1>3 DEF Deliver, Owned

LEMMA InitApart == Init => Apart
<1> SUFFICES ASSUME Init
             PROVE  \E f : Owned(f)
  BY DEF Apart
<1>1. PICK f : f = [i \in 1 .. 0 |-> CHOOSE c \in Clients : TRUE]
  OBVIOUS
<1>2. lastId = 0 /\ DOMAIN sessions = {}
  BY DEF Init
<1>3. f \in [1 .. lastId -> Clients]
  BY <1>1, <1>2
<1>4. \A c : HeldBy(None, c, f, 0) /\ HeldBy([id |-> 0, values |-> {}, deleted |-> FALSE], c, f, 0)
  BY DEF HeldBy, None
<1> QED
  BY <1>2, <1>3, <1>4 DEF Init, Owned, MapOwned

LEMMA NextApart == IInv /\ Apart /\ [Next]_vars => Apart'
<1> SUFFICES ASSUME IInv, Apart, [Next]_vars, replayed' = {}
             PROVE  \E g : Owned(g)'
  BY DEF Apart
<1>1. replayed = {}
  BY DEF Next, Arrive, ArriveWithEmptyCookie, Handle, Store, Sign, Deliver, Lose, Restart, vars
<1>2. PICK f : Owned(f)
  BY <1>1 DEF Apart
<1>3. ASSUME NEW r \in Reqs, NEW o \in Ops, Arrive(r, o)
      PROVE  \E g : Owned(g)'
  BY <1>2, <1>3, ArriveApart
<1>4. ASSUME NEW r \in Reqs, Sign(r)
      PROVE  \E g : Owned(g)'
  BY <1>2, <1>4, SignApart
<1>5. ASSUME NEW r \in Reqs, Store(r)
      PROVE  \E g : Owned(g)'
  BY <1>2, <1>5, StoreApart
<1>6. ASSUME NEW r \in Reqs, Handle(r)
      PROVE  \E g : Owned(g)'
  BY <1>2, <1>6, HandleApart
<1>7. ASSUME NEW r \in Reqs, Deliver(r)
      PROVE  \E g : Owned(g)'
  BY <1>2, <1>7, DeliverApart
<1>8. ASSUME NEW r \in Reqs, ArriveWithEmptyCookie(r) \/ Lose(r)
      PROVE  \E g : Owned(g)'
  BY <1>2, <1>8 DEF ArriveWithEmptyCookie, Lose, Owned
<1>9. CASE Restart
  BY <1>2, <1>9 DEF Restart, Owned, MapOwned
<1>10. CASE UNCHANGED vars
  BY <1>2, <1>10 DEF vars, Owned
<1> QED
  BY <1>3, <1>4, <1>5, <1>6, <1>7, <1>8, <1>9, <1>10 DEF Next

\* Until the stored reply of a static route is sent, no handler is given and
\* no cookie carries a value another client wrote, and no two clients hold
\* the same session.
THEOREM ClientsStayApart == Spec => []SessionsApart
<1>1. Init => IInv /\ Apart
  BY InitIInv, InitApart
<1>2. IInv /\ Apart /\ [Next]_vars => (IInv /\ Apart)'
  BY NextIInv, NextApart
<1>3. IInv /\ Apart => SessionsApart
  <2> SUFFICES ASSUME IInv, Apart, replayed = {}
               PROVE  OwnValuesOnly /\ ~SharedId
    BY DEF SessionsApart
  <2>1. PICK f : Owned(f)
    BY DEF Apart
  <2>2. OwnValuesOnly
    BY <2>1 DEF OwnValuesOnly, Owned, HeldBy
  <2>3. ASSUME NEW c \in Clients, NEW d \in Clients,
               jar[c] # None, jar[c].id = jar[d].id
        PROVE  c = d
    <3>1. jar[c].id # 0
      BY <2>3 DEF IInv, IdsGenerated, TypeOK
    <3> QED
      BY <2>1, <2>3, <3>1 DEF Owned, HeldBy
  <2> QED
    BY <2>2, <2>3 DEF SharedId
<1> QED
  BY <1>1, <1>2, <1>3, PTL DEF Spec

------------------------------------------------------------------------------
(***************************************************************************)
(* What a client that waits for its answers finds.  The two properties     *)
(* speak of the moment a request arrives; the invariant has to follow what *)
(* the client has been told through the copy of the one request it has     *)
(* under way, the map, the new cookie and the jar.                         *)
(***************************************************************************)

\* What a request with cookie t is given, when m are the sessions and k is
\* the key.
Shown(t, m, k) ==
    IF t = None \/ t.key # k THEN {}
    ELSE IF t.id \in DOMAIN m THEN m[t.id].values ELSE t.values

View(t) == Shown(t, sessions, key)

\* Requests whose handler has had its turn: no other request's value is
\* anywhere.
Written == {r \in Reqs : phase[r] \notin {"none", "queued"}}

MapWithin(m, W) == \A id \in DOMAIN m : m[id].values \subseteq W

WrittenOnly ==
    /\ MapWithin(sessions, Written)
    /\ \A c \in Clients : jar[c].values \subseteq Written
    /\ \A c \in Clients : ended[c] \subseteq Written
    /\ \A r \in Reqs : copy[r].values \subseteq Written
    /\ \A r \in Reqs : cookie[r].values \subseteq Written
    /\ staticReply.values \subseteq Written

\* The session of r was destroyed, and the client does not know.
LoggedOut(r) == op[r] = "logout" /\ phase[r] \in {"stored", "signed"}

\* v holds what the client of r will have been told of, and nothing that is
\* over.
Right(v, r) == v \cap ended[r[1]] = {} /\ Answered(r, op[r]) \subseteq v

WhileQueued(r) ==
    phase[r] = "queued" => /\ copy[r].values \cap ended[r[1]] = {}
                           /\ saved[r[1]] \subseteq copy[r].values

WhileHandled(r) ==
    phase[r] = "handled" => /\ copy[r].deleted = (op[r] = "logout")
                            /\ Right(copy[r].values, r)

WhileStored(r) ==
    phase[r] = "stored" =>
        /\ op[r] = "logout" => copy[r].id \notin DOMAIN sessions
        /\ op[r] # "logout" =>
              /\ copy[r].id \in DOMAIN sessions
              /\ sessions[copy[r].id].id = copy[r].id
              /\ sessions[copy[r].id].values = copy[r].values
              /\ Right(copy[r].values, r)

WhileSigned(r) ==
    phase[r] = "signed" =>
        /\ op[r] = "logout" => cookie[r].values = {} /\ View(cookie[r]) = {}
        /\ op[r] # "logout" => Right(cookie[r].values, r) /\ Right(View(cookie[r]), r)

Carries(r) == WhileQueued(r) /\ WhileHandled(r) /\ WhileStored(r) /\ WhileSigned(r)

JarRight(c) ==
    /\ saved[c] \subseteq jar[c].values
    /\ jar[c].values \cap ended[c] = {}
    /\ View(jar[c]) \cap ended[c] = {}

ViewKept(c) ==
    (\A r \in Outstanding(c) : ~LoggedOut(r)) => saved[c] \subseteq View(jar[c])

Waits(c) ==
    /\ \A r, q \in Outstanding(c) : r = q
    /\ JarRight(c)
    /\ ViewKept(c)
    /\ \A r \in Outstanding(c) : Carries(r)

WaitInv == replayed = {} => \A c \in Clients : ~overlapped[c] => Waits(c)

------------------------------------------------------------------------------
LEMMA PutWithin ==
    ASSUME NEW m, NEW W, MapWithin(m, W), NEW k, NEW s, s.values \subseteq W
    PROVE  MapWithin(Put(m, k, s), W)
<1>1. PICK p : p = Put(m, k, s)
  OBVIOUS
<1>2. DOMAIN p = DOMAIN m \cup {k} /\ p[k] = s /\ \A x \in DOMAIN m : x # k => p[x] = m[x]
  BY <1>1 DEF Put
<1>3. MapWithin(p, W)
  BY <1>2 DEF MapWithin
<1> QED
  BY <1>1, <1>3

LEMMA RemoveWithin ==
    ASSUME NEW m, NEW W, MapWithin(m, W), NEW k
    PROVE  MapWithin(Remove(m, k), W)
<1>1. PICK p : p = Remove(m, k)
  OBVIOUS
<1>2. DOMAIN p = DOMAIN m \ {k} /\ \A x \in DOMAIN p : p[x] = m[x]
  BY <1>1, RemoveSession
<1>3. MapWithin(p, W)
  BY <1>2 DEF MapWithin
<1> QED
  BY <1>1, <1>3

\* The maps m and n agree on the ids in S.
Agree(m, n, S) ==
    \A id \in S : /\ id \in DOMAIN n <=> id \in DOMAIN m
                  /\ id \in DOMAIN m => n[id] = m[id]

LEMMA PutAgrees ==
    ASSUME NEW m, NEW n, NEW S, Agree(m, n, S), NEW k, k \notin S, NEW s
    PROVE  Agree(m, Put(n, k, s), S)
<1>1. PICK p : p = Put(n, k, s)
  OBVIOUS
<1>2. DOMAIN p = DOMAIN n \cup {k} /\ \A x \in DOMAIN n : x # k => p[x] = n[x]
  BY <1>1 DEF Put
<1>3. Agree(m, p, S)
  BY <1>2 DEF Agree
<1> QED
  BY <1>1, <1>3

LEMMA RemoveAgrees ==
    ASSUME NEW m, NEW n, NEW S, Agree(m, n, S), NEW k, k \notin S
    PROVE  Agree(m, Remove(n, k), S)
<1>1. PICK p : p = Remove(n, k)
  OBVIOUS
<1>2. DOMAIN p = DOMAIN n \ {k} /\ \A x \in DOMAIN p : p[x] = n[x]
  BY <1>1, RemoveSession
<1>3. Agree(m, p, S)
  BY <1>2 DEF Agree
<1> QED
  BY <1>1, <1>3

LEMMA AgreeAtFirst == \A m, S : Agree(m, m, S)
BY DEF Agree

LEMMA ShownAlike ==
    ASSUME NEW m, NEW n, NEW S, Agree(m, n, S), NEW t, t = None \/ t.id \in S, NEW k
    PROVE  Shown(t, n, k) = Shown(t, m, k)
<1>1. CASE t = None \/ t.key # k
  BY <1>1 DEF Shown
<1>2. CASE t # None /\ t.key = k
  <2>1. t.id \in S
    BY <1>2
  <2>2. (t.id \in DOMAIN n <=> t.id \in DOMAIN m) /\ (t.id \in DOMAIN m => n[t.id] = m[t.id])
    BY <2>1 DEF Agree
  <2> QED
    BY <1>2, <2>2 DEF Shown
<1> QED
  BY <1>1, <1>2

LEMMA ShownWithin ==
    ASSUME NEW m, NEW W, MapWithin(m, W), NEW t, NEW k, t.key = k => t.values \subseteq W
    PROVE  Shown(t, m, k) \subseteq W
<1>1. CASE t = None \/ t.key # k
  BY <1>1 DEF Shown
<1>2. CASE t # None /\ t.key = k /\ t.id \in DOMAIN m
  BY <1>2 DEF Shown, MapWithin
<1>3. CASE t # None /\ t.key = k /\ t.id \notin DOMAIN m
  BY <1>3 DEF Shown
<1> QED
  BY <1>1, <1>2, <1>3

\* What arriving does, whichever way the session is found: the request is
\* given what its cookie shows, the cookie then shows the same, nothing is
\* added to what the map holds, and only one id, or a new one, is touched.
LEMMA NewSessionShows ==
    ASSUME IInv, NEW m, NEW r \in Reqs, NewSession(m, r), NEW W, MapWithin(m, W)
    PROVE  /\ MapWithin(sessions', W)
           /\ copy'[r].values = {}
           /\ \A q \in Reqs \ {r} : copy'[q] = copy[q]
           /\ \A S : S \subseteq 1 .. lastId /\ Agree(sessions, m, S) => Agree(sessions, sessions', S)
<1>1. PICK s : s = [id |-> lastId + 1, values |-> {}]
  OBVIOUS
<1>2. lastId \in Nat /\ copy \in [Reqs -> Copy]
  BY DEF IInv, TypeOK
<1>3. /\ sessions' = Put(m, lastId + 1, s)
      /\ copy' = [copy EXCEPT ![r] = CopyOf(s)]
  BY <1>1 DEF NewSession, NewId
<1>4. s.values = {} /\ CopyOf(s).values = {}
  BY <1>1 DEF CopyOf
<1>5. MapWithin(sessions', W)
  BY <1>3, <1>4, PutWithin
<1>6. copy'[r] = CopyOf(s) /\ \A q \in Reqs \ {r} : copy'[q] = copy[q]
  BY <1>2, <1>3
<1>7. ASSUME NEW S, S \subseteq 1 .. lastId, Agree(sessions, m, S)
      PROVE  Agree(sessions, sessions', S)
  <2>1. lastId + 1 \notin S
    BY <1>2, <1>7
  <2> QED
    BY <1>3, <1>7, <2>1, PutAgrees
<1> QED
  BY <1>4, <1>5, <1>6, <1>7

LEMMA ValidateShows ==
    ASSUME IInv, NEW t, t # None, NEW r \in Reqs, ValidateCookie(t, r),
           NEW W, MapWithin(sessions, W), t.key = key => t.values \subseteq W
    PROVE  /\ MapWithin(sessions', W)
           /\ copy'[r].values = Shown(t, sessions, key)
           /\ Shown(t, sessions', key) = Shown(t, sessions, key)
           /\ \A q \in Reqs \ {r} : copy'[q] = copy[q]
           /\ \A S : S \subseteq 1 .. lastId /\ t.id \notin S => Agree(sessions, sessions', S)
<1>1. lastId \in Nat /\ copy \in [Reqs -> Copy]
  BY DEF IInv, TypeOK
<1>2. CASE t.key # key
  <2>1. NewSession(Remove(sessions, t.id), r) /\ MapWithin(Remove(sessions, t.id), W)
    BY <1>2, RemoveWithin DEF ValidateCookie, SignedHere
  <2>2. \A m : Shown(t, m, key) = {}
    BY <1>2 DEF Shown
  <2>3. \A S : t.id \notin S => Agree(sessions, Remove(sessions, t.id), S)
    BY AgreeAtFirst, RemoveAgrees
  <2>4. \A S : S \subseteq 1 .. lastId /\ t.id \notin S => Agree(sessions, sessions', S)
    BY <2>1, <2>3, NewSessionShows
  <2> QED
    BY <2>1, <2>2, <2>4, NewSessionShows
<1>3. CASE t.key = key /\ t.id \in DOMAIN sessions
  <2>1. sessions' = sessions /\ copy' = [copy EXCEPT ![r] = CopyOf(sessions[t.id])]
    BY <1>3 DEF ValidateCookie, SignedHere
  <2>2. copy'[r] = CopyOf(sessions[t.id]) /\ \A q \in Reqs \ {r} : copy'[q] = copy[q]
    BY <1>1, <2>1
  <2> QED
    BY <1>3, <2>1, <2>2, AgreeAtFirst DEF Shown, CopyOf
<1>4. CASE t.key = key /\ t.id \notin DOMAIN sessions
  <2>1. PICK s : s = [id |-> t.id, values |-> t.values]
    OBVIOUS
  <2>2. /\ sessions' = Put(sessions, t.id, s)
        /\ copy' = [copy EXCEPT ![r] = CopyOf(s)]
    BY <1>4, <2>1 DEF ValidateCookie, SignedHere
  <2>3. copy'[r] = CopyOf(s) /\ \A q \in Reqs \ {r} : copy'[q] = copy[q]
    BY <1>1, <2>2
  <2>4. s.values = t.values /\ CopyOf(s).values = t.values
    BY <2>1 DEF CopyOf
  <2>5. Shown(t, sessions, key) = t.values
    BY <1>4 DEF Shown
  <2>6. t.id \in DOMAIN sessions' /\ sessions'[t.id] = s
    BY <2>2 DEF Put
  <2>7. Shown(t, sessions', key) = t.values
    BY <1>4, <2>4, <2>6 DEF Shown
  <2>8. \A S : t.id \notin S => Agree(sessions, sessions', S)
    BY <2>2, AgreeAtFirst, PutAgrees
  <2> QED
    BY <1>4, <2>2, <2>3, <2>4, <2>5, <2>7, <2>8, PutWithin
<1> QED
  BY <1>2, <1>3, <1>4

LEMMA ArriveShows ==
    ASSUME IInv, NEW r \in Reqs, NEW o \in Ops, Arrive(r, o),
           NEW W, MapWithin(sessions, W), jar[r[1]].key = key => jar[r[1]].values \subseteq W
    PROVE  /\ MapWithin(sessions', W)
           /\ copy'[r].values = View(jar[r[1]])
           /\ Shown(jar[r[1]], sessions', key) = View(jar[r[1]])
           /\ \A q \in Reqs \ {r} : copy'[q] = copy[q]
           /\ \A S : S \subseteq 1 .. lastId /\ jar[r[1]].id \notin S => Agree(sessions, sessions', S)
<1>1. PICK t : t = jar[r[1]]
  OBVIOUS
<1>2. CASE t = None
  <2>1. NewSession(sessions, r)
    BY <1>1, <1>2 DEF Arrive
  <2>2. \A m : Shown(t, m, key) = {}
    BY <1>2 DEF Shown
  <2>3. \A S : S \subseteq 1 .. lastId => Agree(sessions, sessions', S)
    BY <2>1, AgreeAtFirst, NewSessionShows
  <2> QED
    BY <1>1, <2>1, <2>2, <2>3, NewSessionShows DEF View
<1>3. CASE t # None
  <2>1. ValidateCookie(t, r)
    BY <1>1, <1>3 DEF Arrive
  <2> QED
    BY <1>1, <1>3, <2>1, ValidateShows DEF View
<1> QED
  BY <1>2, <1>3

LEMMA ViewWithin ==
    ASSUME NEW t, NEW W, MapWithin(sessions, W), t.key = key => t.values \subseteq W
    PROVE  View(t) \subseteq W
BY ShownWithin DEF View

------------------------------------------------------------------------------
(* No value before its writing                                              *)

\* From what a step did to the parts, when it takes no request back.
LEMMA WrittenAssembles ==
    ASSUME WrittenOnly, Written \subseteq Written',
           MapWithin(sessions', Written'),
           \A c \in Clients : jar'[c] = jar[c] \/ jar'[c].values \subseteq Written',
           \A c \in Clients : ended'[c] = ended[c] \/ ended'[c] \subseteq Written',
           \A q \in Reqs : copy'[q] = copy[q] \/ copy'[q].values \subseteq Written',
           \A q \in Reqs : cookie'[q] = cookie[q] \/ cookie'[q].values \subseteq Written',
           staticReply' = staticReply \/ staticReply'.values \subseteq Written'
    PROVE  WrittenOnly'
<1>1. \A x : x \subseteq Written => x \subseteq Written'
  OBVIOUS
<1> QED
  BY <1>1 DEF WrittenOnly

LEMMA MapGrows ==
    ASSUME NEW m, NEW W, NEW X, MapWithin(m, W), W \subseteq X
    PROVE  MapWithin(m, X)
BY DEF MapWithin

LEMMA ArriveWritten ==
    ASSUME IInv, WrittenOnly, NEW r \in Reqs, NEW o \in Ops, Arrive(r, o)
    PROVE  WrittenOnly'
<1>1. phase \in [Reqs -> Phases] /\ jar \in [Clients -> Cookie] /\ r[1] \in Clients
  BY ReqParts DEF IInv, TypeOK
<1>2. phase[r] = "none" /\ \A q \in Reqs \ {r} : phase'[q] = phase[q]
  BY <1>1 DEF Arrive, NextOf
<1>3. Written \subseteq Written'
  BY <1>2 DEF Written
<1>4. /\ MapWithin(sessions, Written)
      /\ jar[r[1]].values \subseteq Written
  BY <1>1 DEF WrittenOnly
<1>5. /\ MapWithin(sessions', Written)
      /\ copy'[r].values = View(jar[r[1]])
      /\ \A q \in Reqs \ {r} : copy'[q] = copy[q]
  BY <1>4, ArriveShows
<1>6. copy'[r].values \subseteq Written
  BY <1>4, <1>5, ViewWithin
<1>7. \A q \in Reqs : copy'[q] = copy[q] \/ copy'[q].values \subseteq Written'
  BY <1>3, <1>5, <1>6
<1>8. \A c \in Clients : jar'[c] = jar[c] \/ jar'[c].values \subseteq Written'
  <2>1. \A c \in Clients : jar'[c] = jar[c] \/ jar'[c] = staticReply
    BY <1>1 DEF Arrive
  <2> QED
    BY <1>3, <2>1 DEF WrittenOnly
<1>9. MapWithin(sessions', Written')
  BY <1>3, <1>5, MapGrows
<1>10. cookie' = cookie /\ staticReply' = staticReply /\ ended' = ended
  BY DEF Arrive
<1> QED
  BY <1>3, <1>7, <1>8, <1>9, <1>10, WrittenAssembles

LEMMA SignWritten ==
    ASSUME IInv, WrittenOnly, NEW r \in Reqs, Sign(r)
    PROVE  WrittenOnly'
<1>1. phase \in [Reqs -> Phases] /\ cookie \in [Reqs -> Cookie]
  BY DEF IInv, TypeOK
<1>2. Written \subseteq Written'
  BY <1>1 DEF Sign, Written
<1>3. PICK id : id = copy[r].id
  OBVIOUS
<1>4. PICK s : s = IF id \in DOMAIN sessions THEN sessions[id] ELSE DefaultSession(r)
  OBVIOUS
<1>5. /\ sessions' = Put(sessions, id, s)
      /\ cookie' = [cookie EXCEPT ![r] = [id |-> s.id, values |-> s.values, key |-> key]]
  BY <1>3, <1>4 DEF Sign, GenerateJWT
<1>6. s.values \subseteq Written
  BY <1>4 DEF WrittenOnly, MapWithin, DefaultSession
<1>7. MapWithin(sessions', Written')
  BY <1>2, <1>5, <1>6, PutWithin, MapGrows DEF WrittenOnly
<1>8. cookie'[r].values = s.values /\ \A q \in Reqs \ {r} : cookie'[q] = cookie[q]
  BY <1>1, <1>5
<1>9. /\ jar' = jar /\ ended' = ended /\ copy' = copy
      /\ staticReply' = staticReply \/ staticReply' = cookie'[r]
  BY DEF Sign
<1> QED
  BY <1>2, <1>6, <1>7, <1>8, <1>9, WrittenAssembles

LEMMA StoreWritten ==
    ASSUME IInv, WrittenOnly, NEW r \in Reqs, Store(r)
    PROVE  WrittenOnly'
<1>1. phase \in [Reqs -> Phases]
  BY DEF IInv, TypeOK
<1>2. Written \subseteq Written'
  BY <1>1 DEF Store, Written
<1>3. PICK s : s = [id |-> copy[r].id, values |-> copy[r].values]
  OBVIOUS
<1>4. sessions' = Remove(sessions, copy[r].id) \/ sessions' = Put(sessions, s.id, s)
  BY <1>3 DEF Store, Erase, UpdateSession
<1>5. s.values \subseteq Written /\ MapWithin(sessions, Written)
  BY <1>3 DEF WrittenOnly
<1>6. MapWithin(sessions', Written)
  BY <1>4, <1>5, PutWithin, RemoveWithin
<1>7. MapWithin(sessions', Written')
  BY <1>2, <1>6, MapGrows
<1> QED
  BY <1>2, <1>7, WrittenAssembles DEF Store

LEMMA HandleWritten ==
    ASSUME IInv, WrittenOnly, NEW r \in Reqs, Handle(r)
    PROVE  WrittenOnly'
<1>1. phase \in [Reqs -> Phases] /\ copy \in [Reqs -> Copy]
  BY DEF IInv, TypeOK
<1>2. Written \subseteq Written' /\ r \in Written'
  BY <1>1 DEF Handle, Written
<1>3. \A q \in Reqs : copy'[q] = copy[q] \/ copy'[q].values \subseteq Written'
  <2>1. CASE copy' = copy
    BY <2>1
  <2>2. CASE copy' = [copy EXCEPT ![r] = AfterHandler(@, r)]
    <3>1. AfterHandler(copy[r], r).values \subseteq copy[r].values \cup {r}
      BY DEF AfterHandler
    <3>2. copy[r].values \subseteq Written
      BY DEF WrittenOnly
    <3>3. \A q \in Reqs : copy'[q] = IF q = r THEN AfterHandler(copy[r], r) ELSE copy[q]
      BY <1>1, <2>2
    <3> QED
      BY <1>2, <3>1, <3>2, <3>3
  <2> QED
    BY <2>1, <2>2 DEF Handle
<1>4. MapWithin(sessions', Written')
  BY <1>2, MapGrows DEF WrittenOnly, Handle
<1> QED
  BY <1>2, <1>3, <1>4, WrittenAssembles DEF Handle

LEMMA DeliverWritten ==
    ASSUME IInv, WrittenOnly, NEW r \in Reqs, Deliver(r)
    PROVE  WrittenOnly'
<1>1. /\ phase \in [Reqs -> Phases] /\ jar \in [Clients -> Cookie]
      /\ ended \in [Clients -> SUBSET Reqs] /\ r[1] \in Clients
  BY ReqParts DEF IInv, TypeOK
<1>2. Written \subseteq Written'
  BY <1>1 DEF Deliver, Written
<1>3. MapWithin(sessions', Written')
  BY <1>2, MapGrows DEF WrittenOnly, Deliver
<1>4. \A c \in Clients : jar'[c] = jar[c] \/ jar'[c] = cookie[r]
  BY <1>1 DEF Deliver
<1>5. \A c \in Clients : ended'[c] = ended[c] \/ ended'[c] = ended[c] \cup copy[r].values
  BY <1>1 DEF Deliver
<1>6. /\ cookie[r].values \subseteq Written /\ copy[r].values \subseteq Written
      /\ \A c \in Clients : ended[c] \subseteq Written
  BY DEF WrittenOnly
<1>7. \A c \in Clients : jar'[c] = jar[c] \/ jar'[c].values \subseteq Written'
  BY <1>2, <1>4, <1>6
<1>8. \A c \in Clients : ended'[c] = ended[c] \/ ended'[c] \subseteq Written'
  BY <1>2, <1>5, <1>6
<1> QED
  BY <1>2, <1>3, <1>7, <1>8, WrittenAssembles DEF Deliver

LEMMA RestWritten ==
    ASSUME IInv, WrittenOnly,
           Restart \/ \E r \in Reqs : ArriveWithEmptyCookie(r) \/ Lose(r)
    PROVE  WrittenOnly'
<1>1. phase \in [Reqs -> Phases]
  BY DEF IInv, TypeOK
<1>2. Written \subseteq Written'
  BY <1>1 DEF ArriveWithEmptyCookie, Lose, Restart, Written
<1>3. MapWithin(sessions', Written')
  <2>1. sessions' = sessions \/ sessions' = <<>>
    BY DEF ArriveWithEmptyCookie, Lose, Restart
  <2> QED
    BY <1>2, <2>1, MapGrows DEF WrittenOnly, MapWithin
<1>4. staticReply' = staticReply \/ staticReply' = None
  BY DEF ArriveWithEmptyCookie, Lose, Restart
<1> QED
  BY <1>2, <1>3, <1>4, WrittenAssembles DEF ArriveWithEmptyCookie, Lose, Restart, None

------------------------------------------------------------------------------
(* No value of another run                                                  *)

\* Those of the requests W that came while the key was k.
OfRun(W, f, k) == {q \in W : f[q] = k}

Ours(k) == OfRun(Written, run, k)

InWork(r) == phase[r] \in {"queued", "handled", "stored", "signed"}

RunsApart ==
    /\ \A r \in Reqs : InWork(r) => run[r] = key
    /\ MapWithin(sessions, Ours(key))
    /\ \A c \in Clients : jar[c].values \subseteq Ours(jar[c].key)
    /\ \A r \in Reqs : copy[r].values \subseteq Ours(run[r])
    /\ \A r \in Reqs : cookie[r].values \subseteq Ours(cookie[r].key)
    /\ staticReply.values \subseteq Ours(staticReply.key)

\* From what a step did to the parts, when what was written stays.
LEMMA RunsAssemble ==
    ASSUME RunsApart, \A k : Ours(k) \subseteq OfRun(Written', run', k),
           \A r \in Reqs : InWork(r)' => run'[r] = key',
           MapWithin(sessions', OfRun(Written', run', key')),
           \A c \in Clients : jar'[c] = jar[c] \/ jar'[c].values \subseteq OfRun(Written', run', jar'[c].key),
           \A q \in Reqs : \/ copy'[q] = copy[q] /\ run'[q] = run[q]
                           \/ copy'[q].values \subseteq OfRun(Written', run', run'[q]),
           \A q \in Reqs : \/ cookie'[q] = cookie[q]
                           \/ cookie'[q].values \subseteq OfRun(Written', run', cookie'[q].key),
           staticReply' = staticReply \/ staticReply'.values \subseteq OfRun(Written', run', staticReply'.key)
    PROVE  RunsApart'
<1>1. /\ \A c \in Clients : jar'[c].values \subseteq OfRun(Written', run', jar'[c].key)
      /\ \A q \in Reqs : copy'[q].values \subseteq OfRun(Written', run', run'[q])
      /\ \A q \in Reqs : cookie'[q].values \subseteq OfRun(Written', run', cookie'[q].key)
      /\ staticReply'.values \subseteq OfRun(Written', run', staticReply'.key)
  BY DEF RunsApart
<1> QED
  BY <1>1 DEF RunsApart, Ours

LEMMA ArriveRuns ==
    ASSUME IInv, RunsApart, NEW r \in Reqs, NEW o \in Ops, Arrive(r, o)
    PROVE  RunsApart'
<1>1. /\ phase \in [Reqs -> Phases] /\ jar \in [Clients -> Cookie] /\ run \in [Reqs -> Nat]
      /\ r[1] \in Clients
  BY ReqParts DEF IInv, TypeOK
<1>2. /\ phase[r] = "none" /\ \A q \in Reqs \ {r} : phase'[q] = phase[q] /\ run'[q] = run[q]
      /\ run'[r] = key /\ key' = key
  BY <1>1 DEF Arrive, NextOf
<1>3. \A k : Ours(k) \subseteq OfRun(Written', run', k)
  BY <1>2 DEF Ours, OfRun, Written
<1>4. /\ MapWithin(sessions, Ours(key))
      /\ jar[r[1]].key = key => jar[r[1]].values \subseteq Ours(key)
  BY <1>1 DEF RunsApart
<1>5. /\ MapWithin(sessions', Ours(key))
      /\ copy'[r].values = View(jar[r[1]])
      /\ \A q \in Reqs \ {r} : copy'[q] = copy[q]
  BY <1>4, ArriveShows
<1>6. copy'[r].values \subseteq OfRun(Written', run', run'[r])
  BY <1>2, <1>3, <1>4, <1>5, ViewWithin
<1>7. MapWithin(sessions', OfRun(Written', run', key'))
  BY <1>2, <1>3, <1>5, MapGrows
<1>8. \A c \in Clients : jar'[c] = jar[c] \/ jar'[c].values \subseteq OfRun(Written', run', jar'[c].key)
  <2>1. \A c \in Clients : jar'[c] = jar[c] \/ jar'[c] = staticReply
    BY <1>1 DEF Arrive
  <2> QED
    BY <1>3, <2>1 DEF RunsApart
<1>9. \A q \in Reqs : InWork(q)' => run'[q] = key'
  BY <1>2 DEF InWork, RunsApart
<1>10. cookie' = cookie /\ staticReply' = staticReply
  BY DEF Arrive
<1> QED
  BY <1>2, <1>3, <1>5, <1>6, <1>7, <1>8, <1>9, <1>10, RunsAssemble

LEMMA SignRuns ==
    ASSUME IInv, RunsApart, NEW r \in Reqs, Sign(r)
    PROVE  RunsApart'
<1>1. phase \in [Reqs -> Phases] /\ cookie \in [Reqs -> Cookie]
  BY DEF IInv, TypeOK
<1>2. /\ phase' = [phase EXCEPT ![r] = "signed"] /\ phase[r] = "stored"
      /\ run' = run /\ key' = key /\ jar' = jar /\ copy' = copy
      /\ staticReply' = staticReply \/ staticReply' = cookie'[r]
  BY DEF Sign, GenerateJWT
<1>3. (\A k : Ours(k) \subseteq OfRun(Written', run', k)) /\ \A q \in Reqs : InWork(q)' => run'[q] = key'
  BY <1>1, <1>2 DEF Ours, OfRun, Written, InWork, RunsApart
<1>4. PICK id : id = copy[r].id
  OBVIOUS
<1>5. PICK s : s = IF id \in DOMAIN sessions THEN sessions[id] ELSE DefaultSession(r)
  OBVIOUS
<1>6. /\ sessions' = Put(sessions, id, s)
      /\ cookie' = [cookie EXCEPT ![r] = [id |-> s.id, values |-> s.values, key |-> key]]
  BY <1>4, <1>5 DEF Sign, GenerateJWT
<1>7. s.values \subseteq Ours(key)
  BY <1>5 DEF RunsApart, MapWithin, DefaultSession
<1>8. MapWithin(sessions', Ours(key))
  BY <1>6, <1>7, PutWithin DEF RunsApart
<1>9. MapWithin(sessions', OfRun(Written', run', key'))
  BY <1>2, <1>3, <1>8, MapGrows
<1>10. /\ cookie'[r].values = s.values /\ cookie'[r].key = key
       /\ \A q \in Reqs \ {r} : cookie'[q] = cookie[q]
  BY <1>1, <1>6
<1>11. cookie'[r].values \subseteq OfRun(Written', run', cookie'[r].key)
  BY <1>3, <1>7, <1>10
<1> QED
  BY <1>2, <1>3, <1>9, <1>10, <1>11, RunsAssemble

LEMMA StoreRuns ==
    ASSUME IInv, RunsApart, NEW r \in Reqs, Store(r)
    PROVE  RunsApart'
<1>1. phase \in [Reqs -> Phases]
  BY DEF IInv, TypeOK
<1>2. /\ phase' = [phase EXCEPT ![r] = "stored"] /\ phase[r] = "handled"
      /\ run' = run /\ key' = key /\ jar' = jar /\ copy' = copy
      /\ cookie' = cookie /\ staticReply' = staticReply
  BY DEF Store
<1>3. (\A k : Ours(k) \subseteq OfRun(Written', run', k)) /\ \A q \in Reqs : InWork(q)' => run'[q] = key'
  BY <1>1, <1>2 DEF Ours, OfRun, Written, InWork, RunsApart
<1>4. PICK s : s = [id |-> copy[r].id, values |-> copy[r].values]
  OBVIOUS
<1>5. sessions' = Remove(sessions, copy[r].id) \/ sessions' = Put(sessions, s.id, s)
  BY <1>4 DEF Store, Erase, UpdateSession
<1>6. s.values \subseteq Ours(key) /\ MapWithin(sessions, Ours(key))
  BY <1>2, <1>4 DEF RunsApart, InWork
<1>7. MapWithin(sessions', Ours(key))
  BY <1>5, <1>6, PutWithin, RemoveWithin
<1>8. MapWithin(sessions', OfRun(Written', run', key'))
  BY <1>2, <1>3, <1>7, MapGrows
<1> QED
  BY <1>2, <1>3, <1>8, RunsAssemble

LEMMA HandleRuns ==
    ASSUME IInv, RunsApart, NEW r \in Reqs, Handle(r)
    PROVE  RunsApart'
<1>1. phase \in [Reqs -> Phases] /\ copy \in [Reqs -> Copy]
  BY DEF IInv, TypeOK
<1>2. /\ phase[r] = "queued" /\ phase'[r] \in {"handled", "done"}
      /\ \A q \in Reqs \ {r} : phase'[q] = phase[q]
      /\ run' = run /\ key' = key /\ jar' = jar /\ sessions' = sessions
      /\ cookie' = cookie /\ staticReply' = staticReply
  BY <1>1 DEF Handle
<1>3. (\A k : Ours(k) \subseteq OfRun(Written', run', k)) /\ \A q \in Reqs : InWork(q)' => run'[q] = key'
  BY <1>2 DEF Ours, OfRun, Written, InWork, RunsApart
<1>4. r \in OfRun(Written', run', run'[r])
  BY <1>2 DEF Ours, OfRun, Written
<1>5. \A q \in Reqs : copy'[q] = copy[q] \/ copy'[q].values \subseteq OfRun(Written', run', run'[q])
  <2>1. CASE copy' = copy
    BY <2>1
  <2>2. CASE copy' = [copy EXCEPT ![r] = AfterHandler(@, r)]
    <3>1. AfterHandler(copy[r], r).values \subseteq copy[r].values \cup {r}
      BY DEF AfterHandler
    <3>2. copy[r].values \subseteq OfRun(Written', run', run'[r])
      BY <1>2, <1>3 DEF RunsApart
    <3>3. \A q \in Reqs : copy'[q] = IF q = r THEN AfterHandler(copy[r], r) ELSE copy[q]
      BY <1>1, <2>2
    <3> QED
      BY <1>4, <3>1, <3>2, <3>3
  <2> QED
    BY <2>1, <2>2 DEF Handle
<1>6. MapWithin(sessions', OfRun(Written', run', key'))
  BY <1>2, <1>3, MapGrows DEF RunsApart
<1> QED
  BY <1>2, <1>3, <1>5, <1>6, RunsAssemble

LEMMA DeliverRuns ==
    ASSUME IInv, RunsApart, NEW r \in Reqs, Deliver(r)
    PROVE  RunsApart'
<1>1. phase \in [Reqs -> Phases] /\ jar \in [Clients -> Cookie] /\ r[1] \in Clients
  BY ReqParts DEF IInv, TypeOK
<1>2. /\ phase' = [phase EXCEPT ![r] = "done"] /\ phase[r] = "signed"
      /\ run' = run /\ key' = key /\ copy' = copy /\ sessions' = sessions
      /\ cookie' = cookie /\ staticReply' = staticReply
  BY DEF Deliver
<1>3. (\A k : Ours(k) \subseteq OfRun(Written', run', k)) /\ \A q \in Reqs : InWork(q)' => run'[q] = key'
  BY <1>1, <1>2 DEF Ours, OfRun, Written, InWork, RunsApart
<1>4. \A c \in Clients : jar'[c] = jar[c] \/ jar'[c] = cookie[r]
  BY <1>1 DEF Deliver
<1>5. \A c \in Clients : jar'[c] = jar[c] \/ jar'[c].values \subseteq OfRun(Written', run', jar'[c].key)
  BY <1>3, <1>4 DEF RunsApart
<1>6. MapWithin(sessions', OfRun(Written', run', key'))
  BY <1>2, <1>3, MapGrows DEF RunsApart
<1> QED
  BY <1>2, <1>3, <1>5, <1>6, RunsAssemble

LEMMA RestRuns ==
    ASSUME IInv, RunsApart,
           Restart \/ \E r \in Reqs : ArriveWithEmptyCookie(r) \/ Lose(r)
    PROVE  RunsApart'
<1>1. phase \in [Reqs -> Phases]
  BY DEF IInv, TypeOK
<1>2. /\ run' = run /\ jar' = jar /\ copy' = copy /\ cookie' = cookie
      /\ staticReply' = staticReply \/ staticReply' = None
  BY DEF ArriveWithEmptyCookie, Lose, Restart
<1>3. \A k : Ours(k) \subseteq OfRun(Written', run', k)
  BY <1>1, <1>2 DEF ArriveWithEmptyCookie, Lose, Restart, Ours, OfRun, Written
<1>4. CASE Restart
  <2>1. MapWithin(sessions', OfRun(Written', run', key'))
    BY <1>4 DEF Restart, MapWithin
  <2>2. \A q \in Reqs : ~InWork(q)'
    BY <1>1, <1>4 DEF Restart, InWork
  <2> QED
    BY <1>2, <1>3, <2>1, <2>2, RunsAssemble DEF None
<1>5. CASE \E r \in Reqs : ArriveWithEmptyCookie(r) \/ Lose(r)
  <2>1. key' = key /\ sessions' = sessions /\ \A q \in Reqs : InWork(q)' => InWork(q)
    BY <1>1, <1>5 DEF ArriveWithEmptyCookie, Lose, InWork
  <2>2. MapWithin(sessions', OfRun(Written', run', key'))
    BY <1>3, <2>1, MapGrows DEF RunsApart
  <2>3. \A q \in Reqs : InWork(q)' => run'[q] = key'
    BY <1>2, <2>1 DEF RunsApart
  <2> QED
    BY <1>2, <1>3, <2>2, <2>3, RunsAssemble DEF None
<1> QED
  BY <1>4, <1>5

LEMMA InitRuns == Init => RunsApart
BY DEF Init, RunsApart, InWork, MapWithin, None

LEMMA InitWritten == Init => WrittenOnly
BY DEF Init, WrittenOnly, MapWithin, None

------------------------------------------------------------------------------
(* Steps of other clients                                                   *)

\* The ids f gives to client d.
IdsOf(f, d) == {id \in 1 .. lastId : f[id] = d}

LEMMA OthersAgree ==
    ASSUME IInv, NEW f, Owned(f), NEW r \in Reqs, NEW d \in Clients, d # r[1],
           (\E o \in Ops : Arrive(r, o)) \/ Store(r) \/ Sign(r)
    PROVE  Agree(sessions, sessions', IdsOf(f, d))
<1>1. lastId \in Nat /\ r[1] \in Clients
  BY ReqParts DEF IInv, TypeOK
<1>2. \A id : id = 0 \/ f[id] = r[1] => id \notin IdsOf(f, d)
  BY <1>1 DEF IdsOf
<1>3. ASSUME NEW o \in Ops, Arrive(r, o)
      PROVE  Agree(sessions, sessions', IdsOf(f, d))
  <2>1. MapWithin(sessions, Reqs) /\ jar[r[1]].values \subseteq Reqs
    BY <1>1 DEF IInv, TypeOK, MapWithin, Session, Cookie
  <2>2. jar[r[1]].id \notin IdsOf(f, d)
    BY <1>1, <1>2 DEF Owned, HeldBy
  <2>3. IdsOf(f, d) \subseteq 1 .. lastId
    BY DEF IdsOf
  <2> QED
    BY <1>3, <2>1, <2>2, <2>3, ArriveShows
<1>4. copy[r].id \notin IdsOf(f, d)
  BY <1>2 DEF Owned, HeldBy
<1>5. CASE Store(r)
  <2>1. PICK s : s = [id |-> copy[r].id, values |-> copy[r].values]
    OBVIOUS
  <2>2. sessions' = Remove(sessions, copy[r].id) \/ sessions' = Put(sessions, copy[r].id, s)
    BY <1>5, <2>1 DEF Store, Erase, UpdateSession
  <2> QED
    BY <1>4, <2>2, AgreeAtFirst, PutAgrees, RemoveAgrees
<1>6. CASE Sign(r)
  <2>1. PICK s : sessions' = Put(sessions, copy[r].id, s)
    BY <1>6 DEF Sign, GenerateJWT
  <2> QED
    BY <1>4, <2>1, AgreeAtFirst, PutAgrees
<1> QED
  BY <1>3, <1>5, <1>6

LEMMA OthersWait ==
    ASSUME IInv, NEW f, Owned(f), NEW d \in Clients, Waits(d),
           Agree(sessions, sessions', IdsOf(f, d)), key' = key,
           jar'[d] = jar[d], saved'[d] = saved[d], ended'[d] = ended[d],
           \A q \in Reqs : q[1] = d => /\ phase'[q] = phase[q] /\ op'[q] = op[q]
                                       /\ copy'[q] = copy[q] /\ cookie'[q] = cookie[q]
    PROVE  Waits(d)'
<1>1. lastId \in Nat
  BY DEF IInv, TypeOK
<1>2. Outstanding(d)' = Outstanding(d)
  BY DEF Outstanding
<1>3. jar[d] = None \/ jar[d].id \in IdsOf(f, d)
  BY DEF IInv, IdsGenerated, Owned, HeldBy, IdsOf
<1>4. Shown(jar[d], sessions', key) = Shown(jar[d], sessions, key)
  BY <1>3, ShownAlike
<1>5. View(jar[d])' = View(jar[d])
  BY <1>4 DEF View
<1>6. JarRight(d)'
  BY <1>5 DEF Waits, JarRight
<1>7. ViewKept(d)'
  BY <1>2, <1>5 DEF Waits, ViewKept, LoggedOut, Outstanding
<1>8. ASSUME NEW q \in Outstanding(d)
      PROVE  Carries(q)'
  <2>1. /\ q \in Reqs /\ q[1] = d /\ Carries(q)
        /\ phase'[q] = phase[q] /\ op'[q] = op[q]
        /\ copy'[q] = copy[q] /\ cookie'[q] = cookie[q]
    BY DEF Outstanding, Waits
  <2>2. \A v : Right(v, q)' <=> Right(v, q)
    BY <2>1 DEF Right, Answered
  <2>3. WhileQueued(q)'
    BY <2>1 DEF Carries, WhileQueued
  <2>4. WhileHandled(q)'
    BY <2>1, <2>2 DEF Carries, WhileHandled
  <2>5. WhileStored(q)'
    <3>1. SUFFICES ASSUME phase[q] = "stored"
                   PROVE  WhileStored(q)'
      BY <2>1 DEF WhileStored
    <3>2. copy[q].id \in IdsOf(f, d)
      BY <2>1, <3>1 DEF IInv, IdsGenerated, Owned, HeldBy, IdsOf
    <3>3. /\ copy[q].id \in DOMAIN sessions' <=> copy[q].id \in DOMAIN sessions
          /\ copy[q].id \in DOMAIN sessions => sessions'[copy[q].id] = sessions[copy[q].id]
      BY <3>2 DEF Agree
    <3> QED
      BY <2>1, <2>2, <3>1, <3>3 DEF Carries, WhileStored
  <2>6. WhileSigned(q)'
    <3>1. SUFFICES ASSUME phase[q] = "signed"
                   PROVE  WhileSigned(q)'
      BY <2>1 DEF WhileSigned
    <3>2. cookie[q].id \in IdsOf(f, d)
      BY <2>1, <3>1 DEF IInv, IdsGenerated, Owned, HeldBy, IdsOf
    <3>3. Shown(cookie[q], sessions', key) = Shown(cookie[q], sessions, key)
      BY <3>2, ShownAlike
    <3>4. View(cookie[q])' = View(cookie[q])
      BY <2>1, <3>3 DEF View
    <3> QED
      BY <2>1, <2>2, <3>1, <3>4 DEF Carries, WhileSigned
  <2> QED
    BY <2>3, <2>4, <2>5, <2>6 DEF Carries
<1> QED
  BY <1>2, <1>6, <1>7, <1>8 DEF Waits

------------------------------------------------------------------------------
(* Steps of the client's own request                                        *)

LEMMA Alone ==
    ASSUME NEW r \in Reqs, Waits(r[1]), phase[r] \notin {"none", "done", "thrown"},
           \A q \in Reqs \ {r} : phase'[q] = phase[q]
    PROVE  /\ Outstanding(r[1]) = {r}
           /\ Outstanding(r[1])' \subseteq {r}
           /\ Carries(r)
           /\ JarRight(r[1])
           /\ ~LoggedOut(r) => saved[r[1]] \subseteq View(jar[r[1]])
<1>1. r \in Outstanding(r[1])
  BY DEF Outstanding
<1>2. Outstanding(r[1]) = {r}
  BY <1>1 DEF Waits
<1>3. Outstanding(r[1])' \subseteq {r}
  BY <1>2 DEF Outstanding
<1> QED
  BY <1>1, <1>2, <1>3 DEF Waits, ViewKept

LEMMA WaitsAssembles ==
    ASSUME NEW r \in Reqs, Outstanding(r[1])' \subseteq {r}, JarRight(r[1])',
           \/ saved'[r[1]] \subseteq View(jar[r[1]])'
           \/ r \in Outstanding(r[1])' /\ LoggedOut(r)',
           r \in Outstanding(r[1])' => Carries(r)'
    PROVE  Waits(r[1])'
<1>1. \A p, q \in Outstanding(r[1])' : p = q
  OBVIOUS
<1>2. ViewKept(r[1])'
  BY DEF ViewKept
<1>3. \A q \in Outstanding(r[1])' : Carries(q)'
  <2> SUFFICES ASSUME NEW q \in Outstanding(r[1])'
               PROVE  Carries(q)'
    OBVIOUS
  <2>1. q = r
    OBVIOUS
  <2> QED
    BY <2>1
<1> QED
  BY <1>1, <1>2, <1>3 DEF Waits

LEMMA ArriveWaits ==
    ASSUME IInv, NEW r \in Reqs, NEW o \in Ops, Arrive(r, o), replayed' = {},
           Waits(r[1]), Outstanding(r[1]) = {}
    PROVE  Waits(r[1])'
<1>1. /\ r[1] \in Clients /\ phase \in [Reqs -> Phases]
      /\ MapWithin(sessions, Reqs) /\ jar[r[1]].values \subseteq Reqs
  BY ReqParts DEF IInv, TypeOK, MapWithin, Session, Cookie
<1>2. /\ copy'[r].values = View(jar[r[1]])
      /\ Shown(jar[r[1]], sessions', key) = View(jar[r[1]])
  BY <1>1, ArriveShows
<1>3. jar' = jar
  <2>1. replayed' # replayed \cup {r[1]}
    OBVIOUS
  <2> QED
    BY <2>1 DEF Arrive
<1>4. key' = key /\ saved' = saved /\ ended' = ended
  BY DEF Arrive
<1>5. View(jar[r[1]])' = View(jar[r[1]])
  BY <1>2, <1>3, <1>4 DEF View
<1>6. JarRight(r[1]) /\ saved[r[1]] \subseteq View(jar[r[1]])
  BY DEF Waits, ViewKept
<1>7. JarRight(r[1])'
  BY <1>3, <1>4, <1>5, <1>6 DEF JarRight
<1>8. phase'[r] \in {"queued", "done"} /\ \A q \in Reqs \ {r} : phase'[q] = phase[q]
  BY <1>1 DEF Arrive
<1>9. Outstanding(r[1])' \subseteq {r}
  BY <1>8 DEF Outstanding
<1>10. saved[r[1]] \subseteq copy'[r].values /\ copy'[r].values \cap ended[r[1]] = {}
  BY <1>2, <1>6 DEF JarRight
<1>11. r \in Outstanding(r[1])' => Carries(r)'
  <2>1. r \in Outstanding(r[1])' => phase'[r] = "queued"
    BY <1>8 DEF Outstanding
  <2> QED
    BY <1>4, <1>10, <2>1 DEF Carries, WhileQueued, WhileHandled, WhileStored, WhileSigned
<1> QED
  BY <1>4, <1>5, <1>6, <1>7, <1>9, <1>10, <1>11, WaitsAssembles

LEMMA HandleWaits ==
    ASSUME IInv, WrittenOnly, NEW r \in Reqs, Handle(r), Waits(r[1])
    PROVE  Waits(r[1])'
<1>1. /\ r[1] \in Clients /\ phase \in [Reqs -> Phases] /\ copy \in [Reqs -> Copy]
  BY ReqParts DEF IInv, TypeOK
<1>2. /\ phase[r] = "queued" /\ phase'[r] \in {"handled", "done"}
      /\ \A q \in Reqs \ {r} : phase'[q] = phase[q]
  BY <1>1 DEF Handle
<1>3. /\ sessions' = sessions /\ key' = key /\ jar' = jar /\ op' = op
      /\ saved' = saved /\ ended' = ended
  BY DEF Handle
<1>4. /\ Outstanding(r[1])' \subseteq {r}
      /\ Carries(r) /\ JarRight(r[1])
      /\ saved[r[1]] \subseteq View(jar[r[1]])
  BY <1>2, Alone DEF LoggedOut
<1>5. View(jar[r[1]])' = View(jar[r[1]])
  BY <1>3 DEF View
<1>6. JarRight(r[1])' /\ saved'[r[1]] \subseteq View(jar[r[1]])'
  BY <1>3, <1>4, <1>5 DEF JarRight
<1>7. ASSUME r \in Outstanding(r[1])'
      PROVE  Carries(r)'
  <2>1. phase'[r] = "handled"
    BY <1>2, <1>7 DEF Outstanding
  <2>2. copy' = [copy EXCEPT ![r] = AfterHandler(@, r)]
    BY <1>1, <2>1 DEF Handle
  <2>3. copy'[r] = AfterHandler(copy[r], r)
    BY <1>1, <2>2
  <2>4. copy[r].values \cap ended[r[1]] = {} /\ saved[r[1]] \subseteq copy[r].values
    BY <1>2, <1>4 DEF Carries, WhileQueued
  <2>5. r \notin ended[r[1]]
    BY <1>1, <1>2 DEF WrittenOnly, Written
  <2>6. copy'[r].deleted = (op[r] = "logout")
    BY <2>3 DEF AfterHandler
  <2>7. copy'[r].values = IF op[r] = "write" THEN copy[r].values \cup {r} ELSE copy[r].values
    BY <2>3 DEF AfterHandler
  <2>8. Right(copy'[r].values, r)
    BY <2>4, <2>5, <2>7 DEF Right, Answered
  <2>9. Right(copy[r].values, r)'
    BY <1>3, <2>8 DEF Right, Answered
  <2> QED
    BY <1>3, <2>1, <2>6, <2>9 DEF Carries, WhileQueued, WhileHandled, WhileStored, WhileSigned
<1> QED
  BY <1>4, <1>6, <1>7, WaitsAssembles

LEMMA StoreWaits ==
    ASSUME IInv, NEW r \in Reqs, Store(r), Waits(r[1])
    PROVE  Waits(r[1])'
<1>1. r[1] \in Clients /\ phase \in [Reqs -> Phases]
  BY ReqParts DEF IInv, TypeOK
<1>2. /\ phase[r] = "handled" /\ phase'[r] = "stored"
      /\ \A q \in Reqs \ {r} : phase'[q] = phase[q]
  BY <1>1 DEF Store
<1>3. /\ key' = key /\ jar' = jar /\ op' = op /\ copy' = copy /\ cookie' = cookie
      /\ saved' = saved /\ ended' = ended
  BY DEF Store
<1>4. /\ Outstanding(r[1])' \subseteq {r}
      /\ Carries(r) /\ JarRight(r[1])
      /\ saved[r[1]] \subseteq View(jar[r[1]])
  BY <1>2, Alone DEF LoggedOut
<1>5. copy[r].deleted = (op[r] = "logout") /\ Right(copy[r].values, r)
  BY <1>2, <1>4 DEF Carries, WhileHandled
<1>6. PICK j : j = jar[r[1]]
  OBVIOUS
<1>7. View(jar[r[1]])' = Shown(j, sessions', key) /\ View(j) = Shown(j, sessions, key)
  BY <1>3, <1>6 DEF View
<1>8. r \in Outstanding(r[1])'
  BY <1>2 DEF Outstanding
<1>9. CASE op[r] = "logout"
  <2>1. sessions' = Remove(sessions, copy[r].id)
    BY <1>5, <1>9 DEF Store, Erase
  <2>2. /\ DOMAIN sessions' = DOMAIN sessions \ {copy[r].id}
        /\ \A id \in DOMAIN sessions' : sessions'[id] = sessions[id]
    BY <2>1, RemoveSession
  <2>3. View(jar[r[1]])' \in {View(j), j.values}
    <3>1. CASE j = None \/ j.key # key \/ j.id # copy[r].id
      BY <1>7, <2>2, <3>1 DEF Shown
    <3>2. CASE j # None /\ j.key = key /\ j.id = copy[r].id
      BY <1>7, <2>2, <3>2 DEF Shown
    <3> QED
      BY <3>1, <3>2
  <2>4. JarRight(r[1])'
    BY <1>3, <1>4, <1>6, <2>3 DEF JarRight
  <2>5. LoggedOut(r)'
    BY <1>2, <1>3, <1>9 DEF LoggedOut
  <2>6. Carries(r)'
    BY <1>2, <1>3, <1>9, <2>2 DEF Carries, WhileQueued, WhileHandled, WhileStored, WhileSigned
  <2> QED
    BY <1>4, <1>8, <2>4, <2>5, <2>6, WaitsAssembles
<1>10. CASE op[r] # "logout"
  <2>1. PICK s : s = [id |-> copy[r].id, values |-> copy[r].values]
    OBVIOUS
  <2>2. sessions' = Put(sessions, copy[r].id, s)
    BY <1>5, <1>10, <2>1 DEF Store, UpdateSession
  <2>3. /\ DOMAIN sessions' = DOMAIN sessions \cup {copy[r].id}
        /\ sessions'[copy[r].id] = s
        /\ \A id \in DOMAIN sessions : id # copy[r].id => sessions'[id] = sessions[id]
    BY <2>2 DEF Put
  <2>4. s.id = copy[r].id /\ s.values = copy[r].values
    BY <2>1
  <2>5. View(jar[r[1]])' \in {View(j), copy[r].values}
    <3>1. CASE j = None \/ j.key # key \/ j.id # copy[r].id
      BY <1>7, <2>3, <3>1 DEF Shown
    <3>2. CASE j # None /\ j.key = key /\ j.id = copy[r].id
      BY <1>7, <2>3, <2>4, <3>2 DEF Shown
    <3> QED
      BY <3>1, <3>2
  <2>6. saved[r[1]] \subseteq copy[r].values /\ copy[r].values \cap ended[r[1]] = {}
    BY <1>5, <1>10 DEF Right, Answered
  <2>7. JarRight(r[1])' /\ saved'[r[1]] \subseteq View(jar[r[1]])'
    BY <1>3, <1>4, <1>6, <2>5, <2>6 DEF JarRight
  <2>8. Right(copy[r].values, r)'
    BY <1>3, <1>5 DEF Right, Answered
  <2>9. Carries(r)'
    BY <1>2, <1>3, <1>10, <2>3, <2>4, <2>8 DEF Carries, WhileQueued, WhileHandled, WhileStored, WhileSigned
  <2> QED
    BY <1>4, <2>7, <2>9, WaitsAssembles
<1> QED
  BY <1>9, <1>10

LEMMA SignWaits ==
    ASSUME IInv, NEW r \in Reqs, Sign(r), Waits(r[1])
    PROVE  Waits(r[1])'
<1>1. /\ r[1] \in Clients /\ phase \in [Reqs -> Phases] /\ cookie \in [Reqs -> Cookie]
      /\ lastId \in Nat /\ DOMAIN sessions \subseteq 1 .. lastId
      /\ copy[r].id \in 1 .. lastId
  BY ReqParts DEF IInv, TypeOK, IdsGenerated, Sign
<1>2. /\ phase[r] = "stored" /\ phase'[r] = "signed"
      /\ \A q \in Reqs \ {r} : phase'[q] = phase[q]
  BY <1>1 DEF Sign
<1>3. /\ key' = key /\ jar' = jar /\ op' = op /\ copy' = copy
      /\ saved' = saved /\ ended' = ended
  BY DEF Sign
<1>4. /\ Outstanding(r[1])' \subseteq {r}
      /\ Carries(r) /\ JarRight(r[1])
      /\ ~LoggedOut(r) => saved[r[1]] \subseteq View(jar[r[1]])
  BY <1>2, Alone
<1>5. PICK j : j = jar[r[1]]
  OBVIOUS
<1>6. View(jar[r[1]])' = Shown(j, sessions', key) /\ View(j) = Shown(j, sessions, key)
  BY <1>3, <1>5 DEF View
<1>7. r \in Outstanding(r[1])'
  BY <1>2 DEF Outstanding
<1>8. PICK k : k = cookie'[r]
  OBVIOUS
<1>9. View(cookie[r])' = Shown(k, sessions', key)
  BY <1>3, <1>8 DEF View
<1>10. CASE op[r] = "logout"
  <2>1. copy[r].id \notin DOMAIN sessions
    BY <1>2, <1>4, <1>10 DEF Carries, WhileStored
  <2>2. PICK s : s = DefaultSession(r)
    OBVIOUS
  <2>3. s.id = lastId + 1 /\ s.values = {}
    BY <2>2 DEF DefaultSession
  <2>4. /\ sessions' = Put(sessions, copy[r].id, s)
        /\ cookie' = [cookie EXCEPT ![r] = [id |-> s.id, values |-> s.values, key |-> key]]
    BY <2>1, <2>2 DEF Sign, GenerateJWT
  <2>5. /\ DOMAIN sessions' = DOMAIN sessions \cup {copy[r].id}
        /\ sessions'[copy[r].id] = s
        /\ \A id \in DOMAIN sessions : id # copy[r].id => sessions'[id] = sessions[id]
    BY <2>4 DEF Put
  <2>6. k.id = lastId + 1 /\ k.values = {}
    BY <1>1, <1>8, <2>3, <2>4
  <2>7. k.id \notin DOMAIN sessions'
    BY <1>1, <2>5, <2>6
  <2>8. Shown(k, sessions', key) = {}
    BY <2>6, <2>7 DEF Shown
  <2>9. View(jar[r[1]])' \in {View(j), {}}
    <3>1. CASE j = None \/ j.key # key \/ j.id # copy[r].id
      BY <1>6, <2>5, <3>1 DEF Shown
    <3>2. CASE j # None /\ j.key = key /\ j.id = copy[r].id
      BY <1>6, <2>3, <2>5, <3>2 DEF Shown
    <3> QED
      BY <3>1, <3>2
  <2>10. JarRight(r[1])'
    BY <1>3, <1>4, <1>5, <2>9 DEF JarRight
  <2>11. LoggedOut(r)'
    BY <1>2, <1>3, <1>10 DEF LoggedOut
  <2>12. Carries(r)'
    BY <1>2, <1>3, <1>8, <1>9, <1>10, <2>6, <2>8
       DEF Carries, WhileQueued, WhileHandled, WhileStored, WhileSigned
  <2> QED
    BY <1>4, <1>7, <2>10, <2>11, <2>12, WaitsAssembles
<1>11. CASE op[r] # "logout"
  <2>1. PICK s : s = sessions[copy[r].id]
    OBVIOUS
  <2>2. /\ copy[r].id \in DOMAIN sessions
        /\ s.id = copy[r].id /\ s.values = copy[r].values
        /\ Right(copy[r].values, r)
    BY <1>2, <1>4, <1>11, <2>1 DEF Carries, WhileStored
  <2>3. /\ sessions' = Put(sessions, copy[r].id, s)
        /\ cookie' = [cookie EXCEPT ![r] = [id |-> s.id, values |-> s.values, key |-> key]]
    BY <2>1, <2>2 DEF Sign, GenerateJWT
  <2>4. /\ DOMAIN sessions' = DOMAIN sessions \cup {copy[r].id}
        /\ sessions'[copy[r].id] = s
        /\ \A id \in DOMAIN sessions : sessions'[id] = sessions[id]
    BY <2>1, <2>3 DEF Put
  <2>5. k.id = copy[r].id /\ k.values = copy[r].values /\ k.key = key
    BY <1>1, <1>8, <2>2, <2>3
  <2>6. k # None
    BY <1>1, <2>5 DEF None
  <2>7. Shown(k, sessions', key) = copy[r].values
    BY <2>2, <2>4, <2>5, <2>6 DEF Shown
  <2>8. View(jar[r[1]])' = View(j)
    BY <1>6, <2>2, <2>4 DEF Shown
  <2>9. JarRight(r[1])' /\ saved'[r[1]] \subseteq View(jar[r[1]])'
    BY <1>2, <1>3, <1>4, <1>5, <1>11, <2>8 DEF JarRight, LoggedOut
  <2>10. Right(copy[r].values, r)'
    BY <1>3, <2>2 DEF Right, Answered
  <2>11. Right(cookie[r].values, r)' /\ Right(View(cookie[r]), r)'
    <3>1. cookie'[r].values = copy'[r].values /\ View(cookie[r])' = copy'[r].values
      BY <1>3, <1>8, <1>9, <2>5, <2>7
    <3> QED
      BY <2>10, <3>1 DEF Right, Answered
  <2>12. Carries(r)'
    BY <1>2, <1>3, <1>11, <2>11 DEF Carries, WhileQueued, WhileHandled, WhileStored, WhileSigned
  <2> QED
    BY <1>4, <2>9, <2>12, WaitsAssembles
<1> QED
  BY <1>10, <1>11

LEMMA DeliverWaits ==
    ASSUME IInv, NEW r \in Reqs, Deliver(r), Waits(r[1])
    PROVE  Waits(r[1])'
<1>1. /\ r[1] \in Clients /\ phase \in [Reqs -> Phases] /\ jar \in [Clients -> Cookie]
      /\ saved \in [Clients -> SUBSET Reqs] /\ ended \in [Clients -> SUBSET Reqs]
  BY ReqParts DEF IInv, TypeOK
<1>2. /\ phase[r] = "signed" /\ phase'[r] = "done"
      /\ \A q \in Reqs \ {r} : phase'[q] = phase[q]
  BY <1>1 DEF Deliver
<1>3. /\ sessions' = sessions /\ key' = key
      /\ jar'[r[1]] = cookie[r]
      /\ saved'[r[1]] = Answered(r, op[r])
      /\ ended'[r[1]] = IF op[r] = "logout" THEN ended[r[1]] \cup copy[r].values ELSE ended[r[1]]
  BY <1>1 DEF Deliver
<1>4. Outstanding(r[1])' \subseteq {r} /\ Carries(r) /\ r \notin Outstanding(r[1])'
  BY <1>2, Alone DEF Outstanding
<1>5. View(jar[r[1]])' = View(cookie[r])
  BY <1>3 DEF View
<1>6. CASE op[r] = "logout"
  <2>1. cookie[r].values = {} /\ View(cookie[r]) = {}
    BY <1>2, <1>4, <1>6 DEF Carries, WhileSigned
  <2>2. saved'[r[1]] = {}
    BY <1>3, <1>6 DEF Answered
  <2>3. JarRight(r[1])' /\ saved'[r[1]] \subseteq View(jar[r[1]])'
    BY <1>3, <1>5, <2>1, <2>2 DEF JarRight
  <2> QED
    BY <1>4, <2>3, WaitsAssembles
<1>7. CASE op[r] # "logout"
  <2>1. Right(cookie[r].values, r) /\ Right(View(cookie[r]), r)
    BY <1>2, <1>4, <1>7 DEF Carries, WhileSigned
  <2>2. ended'[r[1]] = ended[r[1]]
    BY <1>3, <1>7
  <2>3. JarRight(r[1])' /\ saved'[r[1]] \subseteq View(jar[r[1]])'
    BY <1>3, <1>5, <2>1, <2>2 DEF JarRight, Right
  <2> QED
    BY <1>4, <2>3, WaitsAssembles
<1> QED
  BY <1>6, <1>7

LEMMA LoseWaits ==
    ASSUME IInv, NEW r \in Reqs, Lose(r), Waits(r[1])
    PROVE  Waits(r[1])'
<1>1. /\ r[1] \in Clients /\ phase \in [Reqs -> Phases] /\ saved \in [Clients -> SUBSET Reqs]
  BY ReqParts DEF IInv, TypeOK
<1>2. /\ phase[r] = "signed" /\ phase'[r] = "done"
      /\ \A q \in Reqs \ {r} : phase'[q] = phase[q]
  BY <1>1 DEF Lose
<1>3. /\ sessions' = sessions /\ key' = key /\ jar' = jar /\ ended' = ended
      /\ saved'[r[1]] = IF op[r] = "logout" THEN {} ELSE saved[r[1]]
  BY <1>1 DEF Lose
<1>4. /\ Outstanding(r[1])' \subseteq {r} /\ r \notin Outstanding(r[1])'
      /\ JarRight(r[1])
      /\ ~LoggedOut(r) => saved[r[1]] \subseteq View(jar[r[1]])
  BY <1>2, Alone DEF Outstanding
<1>5. View(jar[r[1]])' = View(jar[r[1]])
  BY <1>3 DEF View
<1>6. saved'[r[1]] \subseteq View(jar[r[1]])'
  BY <1>3, <1>4, <1>5 DEF LoggedOut
<1>7. JarRight(r[1])'
  BY <1>3, <1>4, <1>5 DEF JarRight
<1> QED
  BY <1>4, <1>6, <1>7, WaitsAssembles

\* A request with an empty cookie ends the loop, and is never answered.
LEMMA EmptyCookieWaits ==
    ASSUME IInv, NEW r \in Reqs, ArriveWithEmptyCookie(r), NEW d \in Clients, Waits(d)
    PROVE  Waits(d)'
<1>1. phase \in [Reqs -> Phases]
  BY DEF IInv, TypeOK
<1>2. /\ phase[r] = "none" /\ phase'[r] = "thrown"
      /\ \A q \in Reqs \ {r} : phase'[q] = phase[q]
  BY <1>1 DEF ArriveWithEmptyCookie, NextOf
<1>3. Outstanding(d)' = Outstanding(d) /\ r \notin Outstanding(d)
  BY <1>2 DEF Outstanding
<1>4. \A q \in Outstanding(d) : phase'[q] = phase[q]
  BY <1>2, <1>3 DEF Outstanding
<1>5. /\ sessions' = sessions /\ key' = key /\ jar' = jar /\ op' = op /\ copy' = copy
      /\ cookie' = cookie /\ saved' = saved /\ ended' = ended
  BY DEF ArriveWithEmptyCookie
<1>6. JarRight(d)'
  BY <1>5 DEF Waits, JarRight, View
<1>7. ViewKept(d)'
  BY <1>3, <1>4, <1>5 DEF Waits, ViewKept, View, LoggedOut
<1>8. \A q \in Outstanding(d) : Carries(q)'
  BY <1>4, <1>5 DEF Waits, Carries, WhileQueued, WhileHandled, WhileStored, WhileSigned,
                    Right, Answered, View
<1> QED
  BY <1>3, <1>6, <1>7, <1>8 DEF Waits

LEMMA RestartWaits ==
    ASSUME IInv, Restart, NEW d \in Clients, Waits(d)
    PROVE  Waits(d)'
<1>1. Outstanding(d)' = {}
  BY DEF Restart, Outstanding
<1>2. saved'[d] = {} /\ ended' = ended /\ jar' = jar /\ DOMAIN sessions' = {}
  BY DEF Restart
<1>3. View(jar[d])' \in {{}, jar[d].values}
  BY <1>2 DEF View, Shown
<1>4. JarRight(d)' /\ saved'[d] \subseteq View(jar[d])'
  BY <1>2, <1>3 DEF Waits, JarRight
<1> QED
  BY <1>1, <1>4 DEF Waits, ViewKept

------------------------------------------------------------------------------
(* What has been shown for all clients together                             *)

LEMMA InitWaits == Init => WaitInv
<1> SUFFICES ASSUME Init, NEW c \in Clients
             PROVE  Waits(c)
  BY DEF WaitInv
<1>1. Outstanding(c) = {}
  BY DEF Init, Outstanding
<1>2. jar[c] = None /\ saved[c] = {} /\ ended[c] = {}
  BY DEF Init
<1>3. JarRight(c)
  BY <1>2 DEF JarRight
<1> QED
  BY <1>1, <1>2, <1>3 DEF Waits, ViewKept

LEMMA NextWritten == IInv /\ WrittenOnly /\ [Next]_vars => WrittenOnly'
<1> SUFFICES ASSUME IInv, WrittenOnly, [Next]_vars
             PROVE  WrittenOnly'
  OBVIOUS
<1>1. ASSUME NEW r \in Reqs, NEW o \in Ops, Arrive(r, o)
      PROVE  WrittenOnly'
  BY <1>1, ArriveWritten
<1>2. ASSUME NEW r \in Reqs, Handle(r)
      PROVE  WrittenOnly'
  BY <1>2, HandleWritten
<1>3. ASSUME NEW r \in Reqs, Store(r)
      PROVE  WrittenOnly'
  BY <1>3, StoreWritten
<1>4. ASSUME NEW r \in Reqs, Sign(r)
      PROVE  WrittenOnly'
  BY <1>4, SignWritten
<1>5. ASSUME NEW r \in Reqs, Deliver(r)
      PROVE  WrittenOnly'
  BY <1>5, DeliverWritten
<1>6. CASE Restart \/ \E r \in Reqs : ArriveWithEmptyCookie(r) \/ Lose(r)
  BY <1>6, RestWritten
<1>7. CASE UNCHANGED vars
  BY <1>7 DEF vars, WrittenOnly, Written
<1> QED
  BY <1>1, <1>2, <1>3, <1>4, <1>5, <1>6, <1>7 DEF Next

LEMMA NextRuns == IInv /\ RunsApart /\ [Next]_vars => RunsApart'
<1> SUFFICES ASSUME IInv, RunsApart, [Next]_vars
             PROVE  RunsApart'
  OBVIOUS
<1>1. ASSUME NEW r \in Reqs, NEW o \in Ops, Arrive(r, o)
      PROVE  RunsApart'
  BY <1>1, ArriveRuns
<1>2. ASSUME NEW r \in Reqs, Handle(r) \/ Store(r) \/ Sign(r) \/ Deliver(r)
      PROVE  RunsApart'
  BY <1>2, HandleRuns, StoreRuns, SignRuns, DeliverRuns
<1>3. CASE Restart \/ \E r \in Reqs : ArriveWithEmptyCookie(r) \/ Lose(r)
  BY <1>3, RestRuns
<1>4. CASE UNCHANGED vars
  BY <1>4 DEF vars, RunsApart, Ours, OfRun, Written, InWork
<1> QED
  BY <1>1, <1>2, <1>3, <1>4 DEF Next

\* An arrival that finds its client waiting for nothing.
LEMMA ArrivesAlone ==
    ASSUME IInv, NEW r \in Reqs, NEW o \in Ops, Arrive(r, o), ~overlapped'[r[1]]
    PROVE  ~overlapped[r[1]] /\ Outstanding(r[1]) = {}
<1>1. r[1] \in Clients /\ overlapped \in [Clients -> BOOLEAN]
  BY ReqParts DEF IInv, TypeOK
<1>2. overlapped'[r[1]] = (overlapped[r[1]] \/ Outstanding(r[1]) # {})
  BY <1>1 DEF Arrive
<1> QED
  BY <1>2

LEMMA NextWaits ==
    ASSUME IInv, Apart, WrittenOnly, WaitInv, [Next]_vars
    PROVE  WaitInv'
<1> SUFFICES ASSUME replayed' = {}, NEW d \in Clients, ~overlapped'[d]
             PROVE  Waits(d)'
  BY DEF WaitInv
<1>1. replayed = {}
  BY DEF Next, Arrive, ArriveWithEmptyCookie, Handle, Store, Sign, Deliver, Lose, Restart, vars
<1>2. PICK f : Owned(f)
  BY <1>1 DEF Apart
<1>3. /\ overlapped \in [Clients -> BOOLEAN] /\ phase \in [Reqs -> Phases]
      /\ op \in [Reqs -> Ops \cup {"none"}] /\ copy \in [Reqs -> Copy]
      /\ cookie \in [Reqs -> Cookie] /\ jar \in [Clients -> Cookie]
      /\ saved \in [Clients -> SUBSET Reqs] /\ ended \in [Clients -> SUBSET Reqs]
  BY DEF IInv, TypeOK
<1>4. ASSUME NEW r \in Reqs, NEW o \in Ops, Arrive(r, o)
      PROVE  Waits(d)'
  <2>1. r[1] \in Clients
    BY ReqParts
  <2>2. CASE r[1] = d
    <3>1. ~overlapped[d] /\ Outstanding(d) = {}
      BY <1>4, <2>2, ArrivesAlone
    <3>2. Waits(d)
      BY <1>1, <3>1 DEF WaitInv
    <3> QED
      BY <1>4, <2>2, <3>1, <3>2, ArriveWaits
  <2>3. CASE r[1] # d
    <3>1. ~overlapped[d]
      BY <1>3, <1>4, <2>1, <2>3 DEF Arrive
    <3>2. Waits(d)
      BY <1>1, <3>1 DEF WaitInv
    <3>3. Agree(sessions, sessions', IdsOf(f, d))
      BY <1>2, <1>4, <2>3, OthersAgree
    <3>4. \A q \in Reqs \ {r} : copy'[q] = copy[q]
      <4>1. MapWithin(sessions, Reqs) /\ jar[r[1]].values \subseteq Reqs
        BY <2>1 DEF IInv, TypeOK, MapWithin, Session, Cookie
      <4> QED
        BY <1>4, <4>1, ArriveShows
    <3>5. \A q \in Reqs \ {r} : phase'[q] = phase[q] /\ op'[q] = op[q]
      BY <1>3, <1>4 DEF Arrive
    <3>6. \A q \in Reqs : q[1] = d => /\ phase'[q] = phase[q] /\ op'[q] = op[q]
                                      /\ copy'[q] = copy[q] /\ cookie'[q] = cookie[q]
      BY <1>4, <2>3, <3>4, <3>5 DEF Arrive
    <3>7. jar'[d] = jar[d]
      BY <1>3, <1>4, <2>1, <2>3 DEF Arrive
    <3>8. key' = key /\ saved' = saved /\ ended' = ended
      BY <1>4 DEF Arrive
    <3> QED
      BY <1>2, <3>2, <3>3, <3>6, <3>7, <3>8, OthersWait
  <2> QED
    BY <2>2, <2>3
<1>5. ASSUME overlapped' = overlapped
      PROVE  Waits(d)
  BY <1>1, <1>5 DEF WaitInv
<1>6. ASSUME NEW r \in Reqs, Store(r)
      PROVE  Waits(d)'
  <2>1. Waits(d)
    BY <1>5, <1>6 DEF Store
  <2>2. CASE r[1] = d
    BY <1>6, <2>1, <2>2, StoreWaits
  <2>3. CASE r[1] # d
    <3>1. Agree(sessions, sessions', IdsOf(f, d))
      BY <1>2, <1>6, <2>3, OthersAgree
    <3>2. \A q \in Reqs \ {r} : phase'[q] = phase[q]
      BY <1>3, <1>6 DEF Store
    <3> QED
      BY <1>2, <1>6, <2>1, <2>3, <3>1, <3>2, OthersWait DEF Store
  <2> QED
    BY <2>2, <2>3
<1>7. ASSUME NEW r \in Reqs, Sign(r)
      PROVE  Waits(d)'
  <2>1. Waits(d)
    BY <1>5, <1>7 DEF Sign
  <2>2. CASE r[1] = d
    BY <1>7, <2>1, <2>2, SignWaits
  <2>3. CASE r[1] # d
    <3>1. Agree(sessions, sessions', IdsOf(f, d))
      BY <1>2, <1>7, <2>3, OthersAgree
    <3>2. \A q \in Reqs \ {r} : phase'[q] = phase[q] /\ cookie'[q] = cookie[q]
      BY <1>3, <1>7 DEF Sign, GenerateJWT
    <3> QED
      BY <1>2, <1>7, <2>1, <2>3, <3>1, <3>2, OthersWait DEF Sign
  <2> QED
    BY <2>2, <2>3
<1>8. ASSUME NEW r \in Reqs, Handle(r)
      PROVE  Waits(d)'
  <2>1. Waits(d)
    BY <1>5, <1>8 DEF Handle
  <2>2. CASE r[1] = d
    BY <1>8, <2>1, <2>2, HandleWaits
  <2>3. CASE r[1] # d
    <3>1. \A q \in Reqs \ {r} : phase'[q] = phase[q] /\ copy'[q] = copy[q]
      BY <1>3, <1>8 DEF Handle
    <3>2. Agree(sessions, sessions', IdsOf(f, d))
      BY <1>8, AgreeAtFirst DEF Handle
    <3> QED
      BY <1>2, <1>8, <2>1, <2>3, <3>1, <3>2, OthersWait DEF Handle
  <2> QED
    BY <2>2, <2>3
<1>9. ASSUME NEW r \in Reqs, Deliver(r)
      PROVE  Waits(d)'
  <2>1. Waits(d)
    BY <1>5, <1>9 DEF Deliver
  <2>2. CASE r[1] = d
    BY <1>9, <2>1, <2>2, DeliverWaits
  <2>3. CASE r[1] # d
    <3>1. \A q \in Reqs \ {r} : phase'[q] = phase[q]
      BY <1>3, <1>9 DEF Deliver
    <3>2. jar'[d] = jar[d] /\ saved'[d] = saved[d] /\ ended'[d] = ended[d]
      BY <1>3, <1>9, <2>3, ReqParts DEF Deliver
    <3>3. Agree(sessions, sessions', IdsOf(f, d))
      BY <1>9, AgreeAtFirst DEF Deliver
    <3> QED
      BY <1>2, <1>9, <2>1, <2>3, <3>1, <3>2, <3>3, OthersWait DEF Deliver
  <2> QED
    BY <2>2, <2>3
<1>10. ASSUME NEW r \in Reqs, Lose(r)
       PROVE  Waits(d)'
  <2>1. Waits(d)
    BY <1>5, <1>10 DEF Lose
  <2>2. CASE r[1] = d
    BY <1>10, <2>1, <2>2, LoseWaits
  <2>3. CASE r[1] # d
    <3>1. \A q \in Reqs \ {r} : phase'[q] = phase[q]
      BY <1>3, <1>10 DEF Lose
    <3>2. saved'[d] = saved[d]
      BY <1>3, <1>10, <2>3, ReqParts DEF Lose
    <3>3. Agree(sessions, sessions', IdsOf(f, d))
      BY <1>10, AgreeAtFirst DEF Lose
    <3> QED
      BY <1>2, <1>10, <2>1, <2>3, <3>1, <3>2, <3>3, OthersWait DEF Lose
  <2> QED
    BY <2>2, <2>3
<1>11. ASSUME NEW r \in Reqs, ArriveWithEmptyCookie(r)
       PROVE  Waits(d)'
  <2>1. Waits(d)
    BY <1>5, <1>11 DEF ArriveWithEmptyCookie
  <2> QED
    BY <1>11, <2>1, EmptyCookieWaits
<1>12. CASE Restart
  <2>1. Waits(d)
    BY <1>5, <1>12 DEF Restart
  <2> QED
    BY <1>12, <2>1, RestartWaits
<1>13. CASE UNCHANGED vars
  <2>1. Waits(d)
    BY <1>5, <1>13 DEF vars
  <2>2. Agree(sessions, sessions', IdsOf(f, d))
    BY <1>13, AgreeAtFirst DEF vars
  <2> QED
    BY <1>2, <1>13, <2>1, <2>2, OthersWait DEF vars
<1> QED
  BY <1>4, <1>6, <1>7, <1>8, <1>9, <1>10, <1>11, <1>12, <1>13 DEF Next

\* A restart forgets every session, although its clients keep their cookies and
\* the server would take over what is in one that it signed itself.
THEOREM NothingOfAnotherRun == Spec => []RestartForgets
<1>1. RunsApart => RestartForgets
  BY DEF RunsApart, Ours, OfRun, RestartForgets
<1> QED
  BY <1>1, InitIInv, NextIInv, InitRuns, NextRuns, PTL DEF Spec

\* Everything that has been shown to hold of the states.
SessionInv == IInv /\ Apart /\ WrittenOnly /\ WaitInv

LEMMA SessionInvariance == Spec => []SessionInv
<1>1. Init => SessionInv
  BY InitIInv, InitApart, InitWritten, InitWaits DEF SessionInv
<1>2. SessionInv /\ [Next]_vars => SessionInv'
  BY NextIInv, NextApart, NextWritten, NextWaits DEF SessionInv
<1> QED
  BY <1>1, <1>2, PTL DEF Spec

\* What a request that arrives alone is given.
LEMMA GivenWhatIsRight ==
    ASSUME SessionInv, [Next]_vars, NEW r \in Reqs, Arrives(r),
           ~overlapped'[r[1]], replayed = {}
    PROVE  /\ saved[r[1]] \subseteq copy'[r].values
           /\ copy'[r].values \cap ended[r[1]] = {}
<1>1. PICK o \in Ops : Arrive(r, o)
  <2>1. phase \in [Reqs -> Phases]
    BY DEF SessionInv, IInv, TypeOK
  <2>2. phase[r] = "none" /\ phase'[r] \in {"queued", "done"}
    BY DEF Arrives
  <2>3. ASSUME NEW q \in Reqs,
               \/ ArriveWithEmptyCookie(q) \/ Handle(q) \/ Store(q)
               \/ Sign(q) \/ Deliver(q) \/ Lose(q)
        PROVE  FALSE
    BY <2>1, <2>2, <2>3 DEF ArriveWithEmptyCookie, Handle, Store, Sign, Deliver, Lose
  <2>4. ASSUME NEW q \in Reqs, NEW o \in Ops, Arrive(q, o)
        PROVE  q = r
    BY <2>1, <2>2, <2>4 DEF Arrive
  <2>5. ~Restart /\ ~UNCHANGED vars
    BY <2>2 DEF Restart, vars
  <2> QED
    BY <2>3, <2>4, <2>5 DEF Next
<1>2. r[1] \in Clients
  BY ReqParts
<1>3. ~overlapped[r[1]] /\ Outstanding(r[1]) = {}
  BY <1>1, ArrivesAlone DEF SessionInv
<1>4. Waits(r[1])
  BY <1>2, <1>3 DEF SessionInv, WaitInv
<1>5. /\ MapWithin(sessions, Reqs) /\ jar[r[1]].values \subseteq Reqs
  BY <1>2 DEF SessionInv, IInv, TypeOK, MapWithin, Session, Cookie
<1>6. copy'[r].values = View(jar[r[1]])
  BY <1>1, <1>5, ArriveShows DEF SessionInv
<1> QED
  BY <1>3, <1>4, <1>6 DEF Waits, JarRight, ViewKept

\* A client that waits for its answers finds every value whose writing was
\* answered: through _handle_request, the handler's copy, updateSession,
\* generateJWT and the cookie, over lost answers, restarts and the requests
\* of other clients, until a stored static reply is sent.
THEOREM SavedValuesAreKept == Spec => KeepsWhatWasSaved
<1>1. SessionInv /\ [Next]_vars =>
        [\A r \in Reqs :
            Arrives(r) /\ ~overlapped'[r[1]] /\ replayed = {}
              => saved[r[1]] \subseteq copy'[r].values]_vars
  BY GivenWhatIsRight
<1> QED
  BY <1>1, SessionInvariance, PTL DEF Spec, KeepsWhatWasSaved

\* For such a client a logout is final: no value of a session it was told is
\* over comes back by a tombstone, an older cookie or a later session.
THEOREM LogoutEndsTheSession == Spec => LogoutIsFinal
<1>1. SessionInv /\ [Next]_vars =>
        [\A r \in Reqs :
            Arrives(r) /\ ~overlapped'[r[1]] /\ replayed = {}
              => copy'[r].values \cap ended[r[1]] = {}]_vars
  BY GivenWhatIsRight
<1> QED
  BY <1>1, SessionInvariance, PTL DEF Spec, LogoutIsFinal

==============================================================================
