------------------------- MODULE TlsConnectionProofs --------------------------
(***************************************************************************)
(* Proofs about TlsConnection, for any number of requests and workers, any *)
(* request limit and any number of retries and failures of SSL_write.      *)
(***************************************************************************)
EXTENDS TlsConnection, FiniteSetTheorems, SequenceTheorems, TLAPS

------------------------------------------------------------------------------
(* Calls and stacks                                                         *)

\* Thread t has still to make a call of this name; it has below the top.
On(t, name) == \E i \in 1 .. Len(stack[t]) : stack[t][i].call = name
Below(t, name) == \E i \in 2 .. Len(stack[t]) : stack[t][i].call = name

Names(calls) == {calls[i].call : i \in 1 .. Len(calls)}

\* The calls any thread may make; the others are for the loop, or for workers.
Basic == {"asyncWrite", "flushSslBuffer", "socketWrite", "retry", "close", "closeSocket"}

LEMMA ThreadFacts ==
    /\ Loop \in Threads /\ Loop \notin Reqs
    /\ \A r \in Reqs : r \in Threads /\ r # Loop
BY MaxRequestsAssumption DEF Threads, Reqs, Loop

LEMMA CallTypes ==
    /\ \A name \in {"flushSslBuffer", "retry", "close", "closeSocket", "read", "count",
                    "route", "respond"} : Call(name) \in Calls /\ Call(name).call = name
    /\ \A a \in Answers : AsyncWriteOf(a) \in Calls /\ AsyncWriteOf(a).call = "asyncWrite"
    /\ \A chunk \in Seq(OutRecords) :
          SocketWriteOf(chunk) \in Calls /\ SocketWriteOf(chunk).call = "socketWrite"
    /\ \A r \in Reqs : OnReadOf(r) \in Calls /\ OnReadOf(r).call = "onRead"
BY DEF Call, AsyncWriteOf, SocketWriteOf, OnReadOf, Calls

LEMMA CallParts ==
    ASSUME NEW c \in Calls
    PROVE  /\ c.call = "asyncWrite" => c.answer \in Answers
           /\ c.call = "socketWrite" => c.chunk \in Seq(OutRecords)
           /\ c.call = "onRead" => c.req \in Reqs
BY DEF Calls

LEMMA Singles ==
    ASSUME NEW S, NEW a \in S
    PROVE  /\ <<a>> \in Seq(S) /\ Len(<<a>>) = 1 /\ <<a>>[1] = a
           /\ \A b \in S : <<a, b>> \in Seq(S) /\ Len(<<a, b>>) = 2
                              /\ <<a, b>>[1] = a /\ <<a, b>>[2] = b
OBVIOUS

\* What a sequence is once its head is replaced by `c`.
LEMMA Spliced ==
    ASSUME NEW S, NEW s \in Seq(S), s # <<>>, NEW c \in Seq(S)
    PROVE  /\ c \o Tail(s) \in Seq(S)
           /\ Len(c \o Tail(s)) = Len(c) + Len(s) - 1
           /\ Len(c) \in Nat /\ Len(s) \in Nat \ {0}
           /\ \A i \in 1 .. Len(c) : (c \o Tail(s))[i] = c[i]
           /\ \A i \in 2 .. Len(s) : (c \o Tail(s))[Len(c) + i - 1] = s[i]
           /\ \A i \in 1 .. Len(c \o Tail(s)) : i > Len(c) =>
                 i - Len(c) + 1 \in 2 .. Len(s) /\ (c \o Tail(s))[i] = s[i - Len(c) + 1]
<1>1. /\ Tail(s) \in Seq(S) /\ Len(Tail(s)) = Len(s) - 1
      /\ \A i \in 1 .. Len(Tail(s)) : Tail(s)[i] = s[i + 1]
  BY HeadTailProperties
<1>2. Len(s) \in Nat \ {0} /\ Len(c) \in Nat
  BY EmptySeq, LenProperties
<1>3. /\ c \o Tail(s) \in Seq(S)
      /\ Len(c \o Tail(s)) = Len(c) + Len(Tail(s))
      /\ \A i \in 1 .. Len(c) + Len(Tail(s)) :
            (c \o Tail(s))[i] = IF i <= Len(c) THEN c[i] ELSE Tail(s)[i - Len(c)]
  BY <1>1, ConcatProperties
<1>4. \A i \in 2 .. Len(s) : (c \o Tail(s))[Len(c) + i - 1] = s[i]
  <2> SUFFICES ASSUME NEW i \in 2 .. Len(s)
               PROVE  (c \o Tail(s))[Len(c) + i - 1] = s[i]
    OBVIOUS
  <2>1. i - 1 \in 1 .. Len(Tail(s)) /\ Len(c) + i - 1 \in 1 .. Len(c) + Len(Tail(s))
    BY <1>1, <1>2
  <2>2. ~(Len(c) + i - 1 <= Len(c)) /\ (Len(c) + i - 1) - Len(c) = i - 1
    BY <1>2
  <2> QED
    BY <1>1, <1>3, <2>1, <2>2
<1>5. \A i \in 1 .. Len(c \o Tail(s)) : i > Len(c) =>
         i - Len(c) + 1 \in 2 .. Len(s) /\ (c \o Tail(s))[i] = s[i - Len(c) + 1]
  <2> SUFFICES ASSUME NEW i \in 1 .. Len(c \o Tail(s)), i > Len(c)
               PROVE  i - Len(c) + 1 \in 2 .. Len(s) /\ (c \o Tail(s))[i] = s[i - Len(c) + 1]
    OBVIOUS
  <2>1. i - Len(c) + 1 \in 2 .. Len(s) /\ Len(c) + (i - Len(c) + 1) - 1 = i
    BY <1>1, <1>2, <1>3
  <2> QED
    BY <1>4, <2>1
<1>6. Len(c \o Tail(s)) = Len(c) + Len(s) - 1
  BY <1>1, <1>2, <1>3
<1>7. ASSUME NEW i \in 1 .. Len(c)
      PROVE  (c \o Tail(s))[i] = c[i]
  <2>1. i \in 1 .. Len(c) + Len(Tail(s)) /\ i <= Len(c)
    BY <1>1, <1>2
  <2> QED
    BY <1>3, <2>1
<1> QED
  BY <1>2, <1>3, <1>4, <1>5, <1>6, <1>7

\* The call on top of the stack of t gives way to `calls`; no other thread moves.
LEMMA GoesOn ==
    ASSUME TypeOK, NEW t \in Threads, stack[t] # <<>>,
           NEW calls \in Seq(Calls), Goes(t, calls)
    PROVE  /\ stack' \in [Threads -> Seq(Calls)]
           /\ stack'[t] = calls \o Tail(stack[t])
           /\ \A u \in Threads \ {t} : stack'[u] = stack[u]
           /\ \A name : On(t, name)' <=> name \in Names(calls) \/ Below(t, name)
           /\ \A name : On(t, name) <=> name = Head(stack[t]).call \/ Below(t, name)
           /\ \A u \in Threads \ {t} : \A name : On(u, name)' <=> On(u, name)
<1>1. PICK s \in Seq(Calls) : s = stack[t]
  BY DEF TypeOK
<1>2. PICK n \in Seq(Calls) : n = calls \o Tail(s)
  BY <1>1, Spliced
<1>3. stack' = [stack EXCEPT ![t] = n]
  BY <1>1, <1>2 DEF Goes, TypeOK
<1>4. /\ stack' \in [Threads -> Seq(Calls)]
      /\ stack'[t] = n
      /\ \A u \in Threads \ {t} : stack'[u] = stack[u]
  BY <1>2, <1>3 DEF TypeOK
<1>5. /\ Len(n) = Len(calls) + Len(s) - 1
      /\ Len(calls) \in Nat /\ Len(s) \in Nat \ {0}
      /\ \A i \in 1 .. Len(calls) : n[i] = calls[i]
      /\ \A i \in 2 .. Len(s) : n[Len(calls) + i - 1] = s[i]
      /\ \A i \in 1 .. Len(n) : i > Len(calls) =>
            i - Len(calls) + 1 \in 2 .. Len(s) /\ n[i] = s[i - Len(calls) + 1]
  BY <1>1, <1>2, Spliced
<1>6. ASSUME NEW name
      PROVE  On(t, name)' <=> name \in Names(calls) \/ Below(t, name)
  <2>1. On(t, name)' <=> \E i \in 1 .. Len(n) : n[i].call = name
    BY <1>4 DEF On
  <2>2. ASSUME NEW i \in 1 .. Len(n), n[i].call = name
        PROVE  name \in Names(calls) \/ Below(t, name)
    <3>1. CASE i \in 1 .. Len(calls)
      BY <1>5, <2>2, <3>1 DEF Names
    <3>2. CASE i > Len(calls)
      <4>1. i - Len(calls) + 1 \in 2 .. Len(s) /\ s[i - Len(calls) + 1].call = name
        BY <1>5, <2>2, <3>2
      <4> QED
        BY <1>1, <4>1 DEF Below
    <3>3. i \in 1 .. Len(calls) \/ i > Len(calls)
      BY <1>5
    <3> QED
      BY <3>1, <3>2, <3>3
  <2>3. ASSUME name \in Names(calls)
        PROVE  \E i \in 1 .. Len(n) : n[i].call = name
    <3>1. PICK i \in 1 .. Len(calls) : calls[i].call = name
      BY <2>3 DEF Names
    <3>2. i \in 1 .. Len(n) /\ n[i].call = name
      BY <1>5, <3>1
    <3> QED
      BY <3>2
  <2>4. ASSUME Below(t, name)
        PROVE  \E i \in 1 .. Len(n) : n[i].call = name
    <3>1. PICK i \in 2 .. Len(s) : s[i].call = name
      BY <1>1, <2>4 DEF Below
    <3>2. Len(calls) + i - 1 \in 1 .. Len(n) /\ n[Len(calls) + i - 1].call = name
      BY <1>5, <3>1
    <3> QED
      BY <3>2
  <2> QED
    BY <2>1, <2>2, <2>3, <2>4
<1>7. ASSUME NEW name
      PROVE  On(t, name) <=> name = Head(stack[t]).call \/ Below(t, name)
  <2>1. Head(s) = s[1] /\ 1 \in 1 .. Len(s)
    BY <1>5
  <2>2. \A i \in 1 .. Len(s) : i = 1 \/ i \in 2 .. Len(s)
    BY <1>5
  <2> QED
    <3>1. ASSUME On(t, name)
          PROVE  name = Head(s).call \/ Below(t, name)
      <4>1. PICK i \in 1 .. Len(s) : s[i].call = name
        BY <1>1, <3>1 DEF On
      <4> QED
        BY <1>1, <2>1, <2>2, <4>1 DEF Below
    <3>2. ASSUME Below(t, name)
          PROVE  On(t, name)
      <4>1. PICK i \in 2 .. Len(s) : s[i].call = name
        BY <1>1, <3>2 DEF Below
      <4>2. i \in 1 .. Len(s)
        BY <1>5
      <4> QED
        BY <1>1, <4>1, <4>2 DEF On
    <3>3. name = Head(s).call => On(t, name)
      BY <1>1, <2>1 DEF On
    <3> QED
      BY <1>1, <3>1, <3>2, <3>3
<1>8. \A u \in Threads \ {t} : \A name : On(u, name)' <=> On(u, name)
  BY <1>4 DEF On
<1> QED
  BY <1>1, <1>2, <1>4, <1>6, <1>7, <1>8

\* The sequences of calls that a call may give way to, and their names.
LEMMA Pushed ==
    /\ <<>> \in Seq(Calls) /\ Names(<<>>) = {}
    /\ \A name \in {"flushSslBuffer", "retry", "close", "closeSocket", "read", "count",
                    "route", "respond"} :
          <<Call(name)>> \in Seq(Calls) /\ Names(<<Call(name)>>) = {name}
    /\ FlushCalls \in Seq(Calls) /\ Names(FlushCalls) = {"flushSslBuffer", "retry"}
    /\ LET c == FlushCalls \o <<Call("closeSocket")>>
       IN  c \in Seq(Calls) /\ Names(c) = {"flushSslBuffer", "retry", "closeSocket"}
    /\ <<Call("route"), Call("respond")>> \in Seq(Calls)
    /\ Names(<<Call("route"), Call("respond")>>) = {"route", "respond"}
    /\ \A chunk \in Seq(OutRecords) :
          LET c == <<SocketWriteOf(chunk), Call("flushSslBuffer")>>
          IN  c \in Seq(Calls) /\ Names(c) = {"socketWrite", "flushSslBuffer"}
    /\ \A a \in Answers :
          /\ <<AsyncWriteOf(a)>> \in Seq(Calls) /\ Names(<<AsyncWriteOf(a)>>) = {"asyncWrite"}
          /\ LET c == <<AsyncWriteOf(a), Call("count")>>
             IN  c \in Seq(Calls) /\ Names(c) = {"asyncWrite", "count"}
    /\ \A r \in Reqs :
          LET c == <<OnReadOf(r), Call("read")>>
          IN  c \in Seq(Calls) /\ Names(c) = {"onRead", "read"}
<1>1. ASSUME NEW a \in Calls, NEW b \in Calls
      PROVE  /\ <<a>> \in Seq(Calls) /\ Names(<<a>>) = {a.call}
             /\ <<a, b>> \in Seq(Calls) /\ Names(<<a, b>>) = {a.call, b.call}
  <2>1. /\ <<a>> \in Seq(Calls) /\ Len(<<a>>) = 1 /\ <<a>>[1] = a
        /\ <<a, b>> \in Seq(Calls) /\ Len(<<a, b>>) = 2 /\ <<a, b>>[1] = a /\ <<a, b>>[2] = b
    BY Singles
  <2>2. Names(<<a>>) = {a.call}
    BY <2>1 DEF Names
  <2>3. Names(<<a, b>>) = {a.call, b.call}
    BY <2>1 DEF Names
  <2> QED
    BY <2>1, <2>2, <2>3
<1>2. <<>> \in Seq(Calls) /\ Names(<<>>) = {}
  BY EmptySeq DEF Names
<1>3. FlushCalls \in Seq(Calls) /\ Names(FlushCalls) = {"flushSslBuffer", "retry"}
  BY <1>1, CallTypes DEF FlushCalls
<1>4. LET c == FlushCalls \o <<Call("closeSocket")>>
      IN  c \in Seq(Calls) /\ Names(c) = {"flushSslBuffer", "retry", "closeSocket"}
  <2>1. <<Call("closeSocket")>> \in Seq(Calls)
    BY <1>1, CallTypes
  <2>2. PICK c : c = FlushCalls \o <<Call("closeSocket")>>
    OBVIOUS
  <2>3. /\ c \in Seq(Calls) /\ Len(c) = 3
        /\ c[1] = Call("flushSslBuffer") /\ c[2] = Call("retry") /\ c[3] = Call("closeSocket")
    BY <1>3, <2>1, <2>2 DEF FlushCalls
  <2>4. Names(c) = {c[1].call, c[2].call, c[3].call}
    BY <2>3 DEF Names
  <2> QED
    BY <2>2, <2>3, <2>4, CallTypes
<1>5. \A name \in {"flushSslBuffer", "retry", "close", "closeSocket", "read", "count",
                    "route", "respond"} :
         <<Call(name)>> \in Seq(Calls) /\ Names(<<Call(name)>>) = {name}
  BY <1>1, CallTypes
<1>6. /\ <<Call("route"), Call("respond")>> \in Seq(Calls)
      /\ Names(<<Call("route"), Call("respond")>>) = {"route", "respond"}
  BY <1>1, CallTypes
<1>7. ASSUME NEW chunk \in Seq(OutRecords)
      PROVE  LET c == <<SocketWriteOf(chunk), Call("flushSslBuffer")>>
             IN  c \in Seq(Calls) /\ Names(c) = {"socketWrite", "flushSslBuffer"}
  <2>1. /\ SocketWriteOf(chunk) \in Calls /\ SocketWriteOf(chunk).call = "socketWrite"
        /\ Call("flushSslBuffer") \in Calls /\ Call("flushSslBuffer").call = "flushSslBuffer"
    BY <1>7, CallTypes
  <2> QED
    BY <1>1, <2>1
<1>8. ASSUME NEW a \in Answers
      PROVE  /\ <<AsyncWriteOf(a)>> \in Seq(Calls) /\ Names(<<AsyncWriteOf(a)>>) = {"asyncWrite"}
             /\ LET c == <<AsyncWriteOf(a), Call("count")>>
                IN  c \in Seq(Calls) /\ Names(c) = {"asyncWrite", "count"}
  BY <1>1, CallTypes
<1>9. ASSUME NEW r \in Reqs
      PROVE  LET c == <<OnReadOf(r), Call("read")>>
             IN  c \in Seq(Calls) /\ Names(c) = {"onRead", "read"}
  <2>1. /\ OnReadOf(r) \in Calls /\ OnReadOf(r).call = "onRead"
        /\ Call("read") \in Calls /\ Call("read").call = "read"
    BY <1>9, CallTypes
  <2> QED
    BY <1>1, <2>1
<1> QED
  BY <1>2, <1>3, <1>4, <1>5, <1>6, <1>7, <1>8, <1>9

\* The pending writes, as calls.
LEMMA Retried ==
    ASSUME NEW p \in Seq(Answers)
    PROVE  LET c == [i \in DOMAIN p |-> AsyncWriteOf(p[i])]
           IN  c \in Seq(Calls) /\ Len(c) = Len(p) /\ Names(c) \subseteq {"asyncWrite"}
<1>1. Len(p) \in Nat /\ DOMAIN p = 1 .. Len(p) /\ \A i \in 1 .. Len(p) : p[i] \in Answers
  BY LenProperties, ElementOfSeq
<1>2. PICK c : c = [i \in 1 .. Len(p) |-> AsyncWriteOf(p[i])]
  OBVIOUS
<1>3. \A i \in 1 .. Len(p) : c[i] \in Calls /\ c[i].call = "asyncWrite"
  BY <1>1, <1>2, CallTypes
<1>4. c \in [1 .. Len(p) -> Calls]
  BY <1>2, <1>3
<1>5. c \in Seq(Calls) /\ Len(c) = Len(p)
  BY <1>1, <1>4
<1>6. Names(c) \subseteq {"asyncWrite"}
  BY <1>3, <1>5 DEF Names
<1> QED
  BY <1>1, <1>2, <1>5, <1>6
LEMMA RecordTypes ==
    /\ Answers \subseteq OutRecords
    /\ \A part \in {"hello", "alert", "notify"} : Control(part) \in OutRecords
    /\ NoEntry \in Entries
BY MaxRequestsAssumption DEF OutRecords, Control, NoEntry, Entries

LEMMA MakeType ==
    ASSUME TypeOK, NEW a \in OutRecords, Make(a)
    PROVE  made' \in Seq(OutRecords) /\ writeBio' \in Seq(OutRecords)
BY AppendProperties DEF TypeOK, Make

LEMMA HeadCall ==
    ASSUME TypeOK, NEW t \in Threads, stack[t] # <<>>
    PROVE  Head(stack[t]) \in Calls /\ stack[t] \in Seq(Calls)
BY HeadTailProperties DEF TypeOK

(***************************************************************************)
(* What a call that any thread may make does: thread t goes on with        *)
(* `calls`; only an asyncWrite that fails closes, and only a close that    *)
(* finds the socket open goes on to the socket; the entry is forgotten in  *)
(* the step that closes the socket.                                        *)
(***************************************************************************)
Effect(t, calls) ==
    LET top == Head(stack[t]).call
    IN  /\ calls \in Seq(Calls) /\ stack[t] # <<>> /\ Goes(t, calls)
        /\ top \in Basic /\ Names(calls) \subseteq Basic
        /\ "close" \in Names(calls) => top = "asyncWrite" /\ (ssl' = "failed" \/ (~Writable /\ ssl' = ssl))
        /\ "closeSocket" \in Names(calls) => top = "close"
        /\ top = "close" => Closing \/ "closeSocket" \in Names(calls)
        /\ top = "closeSocket" => Closing' /\ entry' = NoEntry
        /\ top # "closeSocket" => sock' = sock /\ entry' = entry
        /\ "asyncWrite" \in Names(calls) => pending # <<>>
        /\ pending' = pending \/ pending' = <<>> \/ Writable
        /\ \/ ssl' = ssl /\ failed' = failed
           \/ ssl' = "failed" /\ Writable /\ failed' = Append(failed, t) /\ top = "asyncWrite"
           \/ /\ failed' = failed /\ top = "close" /\ "closeSocket" \in Names(calls)
              /\ \/ ssl = "notified" /\ ssl' = "over"
                 \/ ssl = "ready" /\ ssl' = "shutdown"
        /\ UNCHANGED <<timer, readBio, fetched, sent, overlapped, crashed>>

LEMMA AsyncWriteEffect ==
    ASSUME TypeOK, NEW t \in Threads, AsyncWrite(t)
    PROVE  TypeOK' /\ \E calls : Effect(t, calls)
<1>1. stack[t] # <<>> /\ Head(stack[t]).call = "asyncWrite" /\ Head(stack[t]) \in Calls
  BY HeadCall DEF AsyncWrite, At
<1>2. PICK a \in Answers : a = Head(stack[t]).answer
  BY <1>1, CallParts
<1>3. a \in OutRecords
  BY <1>2, RecordTypes
<1>4. sock' = sock /\ entry' = entry /\ UNCHANGED <<timer, readBio, fetched, sent, wire, overlapped, crashed>>
  BY DEF AsyncWrite
<1>5. CASE Goes(t, <<>>) /\ UNCHANGED <<ssl, made, writeBio, pending, retries, failed>>
  <2>1. Effect(t, <<>>)
    BY <1>1, <1>4, <1>5, Pushed DEF Effect, Basic
  <2>2. stack' \in [Threads -> Seq(Calls)]
    BY <1>1, <1>5, Pushed, GoesOn
  <2> QED
    BY <1>4, <1>5, <2>1, <2>2 DEF TypeOK
<1>6. CASE Taken(t, a)
  <2>1. PICK calls \in Seq(Calls) : calls = <<Call("flushSslBuffer")>> /\ Names(calls) = {"flushSslBuffer"}
    BY Pushed
  <2>2. Effect(t, calls)
    BY <1>1, <1>4, <1>6, <2>1 DEF Effect, Basic, Taken
  <2>3. stack' \in [Threads -> Seq(Calls)]
    BY <1>1, <1>6, <2>1, GoesOn DEF Taken
  <2>4. made' \in Seq(OutRecords) /\ writeBio' \in Seq(OutRecords)
    BY <1>3, <1>6, MakeType DEF Taken
  <2> QED
    BY <1>4, <1>6, <2>2, <2>3, <2>4 DEF TypeOK, Taken
<1>7. CASE Refused(t, a)
  <2>1. Effect(t, <<>>)
    BY <1>1, <1>4, <1>7, Pushed DEF Effect, Basic, Refused
  <2>2. stack' \in [Threads -> Seq(Calls)]
    BY <1>1, <1>7, Pushed, GoesOn DEF Refused
  <2>3. pending' \in Seq(Answers) /\ retries' \in 0 .. MaxRetries
    BY <1>2, <1>7, AppendProperties, FaultsAssumption DEF TypeOK, Refused
  <2> QED
    BY <1>4, <1>7, <2>1, <2>2, <2>3 DEF TypeOK, Refused
<1>8. CASE Fails(t)
  <2>1. PICK calls \in Seq(Calls) : calls = <<Call("close")>> /\ Names(calls) = {"close"}
    BY Pushed
  <2>2. Effect(t, calls)
    BY <1>1, <1>4, <1>8, <2>1 DEF Effect, Basic, Fails
  <2>3. stack' \in [Threads -> Seq(Calls)]
    BY <1>1, <1>8, <2>1, GoesOn DEF Fails
  <2>4. failed' \in Seq(Threads)
    <3>1. failed' = failed \/ failed' = Append(failed, t)
      BY <1>8 DEF Fails
    <3>2. failed \in Seq(Threads)
      BY DEF TypeOK
    <3> QED
      BY <3>1, <3>2, AppendProperties
  <2> QED
    BY <1>4, <1>8, <2>2, <2>3, <2>4 DEF TypeOK, Fails
<1> QED
  BY <1>2, <1>5, <1>6, <1>7, <1>8 DEF AsyncWrite

LEMMA FlushEffect ==
    ASSUME TypeOK, NEW t \in Threads, FlushSslBuffer(t)
    PROVE  TypeOK' /\ \E calls : Effect(t, calls)
<1>1. stack[t] # <<>> /\ Head(stack[t]).call = "flushSslBuffer"
  BY DEF FlushSslBuffer, At
<1>2. /\ sock' = sock /\ entry' = entry /\ ssl' = ssl /\ failed' = failed /\ pending' = pending
      /\ UNCHANGED <<timer, readBio, fetched, sent, made, wire, retries, overlapped, crashed>>
  BY DEF FlushSslBuffer
<1>3. PICK calls \in Seq(Calls) :
         /\ Goes(t, calls)
         /\ Names(calls) \subseteq {"socketWrite", "flushSslBuffer"}
  <2>1. CASE Goes(t, <<>>)
    BY <2>1, Pushed
  <2>2. CASE Goes(t, <<SocketWriteOf(writeBio), Call("flushSslBuffer")>>)
    BY <2>2, Pushed DEF TypeOK
  <2> QED
    BY <2>1, <2>2 DEF FlushSslBuffer
<1>4. Effect(t, calls)
  BY <1>1, <1>2, <1>3 DEF Effect, Basic
<1>5. stack' \in [Threads -> Seq(Calls)]
  BY <1>1, <1>3, GoesOn
<1>6. writeBio' \in Seq(OutRecords)
  BY EmptySeq DEF FlushSslBuffer, TypeOK
<1> QED
  BY <1>2, <1>4, <1>5, <1>6 DEF TypeOK

LEMMA SocketWriteEffect ==
    ASSUME TypeOK, NEW t \in Threads, SocketWrite(t)
    PROVE  TypeOK' /\ \E calls : Effect(t, calls)
<1>1. stack[t] # <<>> /\ Head(stack[t]).call = "socketWrite" /\ Head(stack[t]) \in Calls
  BY HeadCall DEF SocketWrite, At
<1>2. /\ sock' = sock /\ entry' = entry /\ ssl' = ssl /\ failed' = failed /\ pending' = pending
      /\ Goes(t, <<>>)
      /\ UNCHANGED <<timer, readBio, writeBio, fetched, sent, made, retries, overlapped, crashed>>
  BY DEF SocketWrite
<1>3. Effect(t, <<>>)
  BY <1>1, <1>2, Pushed DEF Effect, Basic
<1>4. stack' \in [Threads -> Seq(Calls)]
  BY <1>1, <1>2, Pushed, GoesOn
<1>5. wire' \in Seq(OutRecords)
  BY <1>1, CallParts, ConcatProperties DEF SocketWrite, TypeOK
<1> QED
  BY <1>2, <1>3, <1>4, <1>5 DEF TypeOK

LEMMA RetryEffect ==
    ASSUME TypeOK, NEW t \in Threads, Retry(t)
    PROVE  TypeOK' /\ \E calls : Effect(t, calls)
<1>1. stack[t] # <<>> /\ Head(stack[t]).call = "retry" /\ pending \in Seq(Answers)
  BY DEF Retry, At, TypeOK
<1>2. /\ sock' = sock /\ entry' = entry /\ ssl' = ssl /\ failed' = failed /\ pending' = <<>>
      /\ UNCHANGED <<timer, readBio, writeBio, fetched, sent, made, wire, retries, overlapped, crashed>>
  BY DEF Retry, SwappedAway
<1>3. PICK calls \in Seq(Calls) :
         /\ calls = [i \in DOMAIN pending |-> AsyncWriteOf(pending[i])]
         /\ Len(calls) = Len(pending) /\ Names(calls) \subseteq {"asyncWrite"}
  BY <1>1, Retried
<1>4. Goes(t, calls)
  BY <1>3 DEF Retry
<1>5. Names(calls) # {} => pending # <<>>
  BY <1>3, Pushed, EmptySeq DEF Names
<1>6. Effect(t, calls)
  BY <1>1, <1>2, <1>3, <1>4, <1>5 DEF Effect, Basic
<1>7. stack' \in [Threads -> Seq(Calls)]
  BY <1>1, <1>3, <1>4, GoesOn
<1> QED
  BY <1>2, <1>6, <1>7, EmptySeq DEF TypeOK

LEMMA CloseEffect ==
    ASSUME TypeOK, NEW t \in Threads, Close(t)
    PROVE  TypeOK' /\ \E calls : Effect(t, calls)
<1>1. stack[t] # <<>> /\ Head(stack[t]).call = "close"
  BY DEF Close, At
<1>2. /\ sock' = sock /\ entry' = entry /\ failed' = failed /\ pending' = pending
      /\ UNCHANGED <<timer, readBio, fetched, sent, wire, retries, overlapped, crashed>>
  BY DEF Close
<1>3. PICK calls \in Seq(Calls) :
         /\ Goes(t, calls)
         /\ Names(calls) \subseteq {"flushSslBuffer", "retry", "closeSocket"}
         /\ Closing \/ "closeSocket" \in Names(calls)
         /\ \/ ssl' = ssl
            \/ "closeSocket" \in Names(calls) /\ ssl = "notified" /\ ssl' = "over"
            \/ "closeSocket" \in Names(calls) /\ ssl = "ready" /\ ssl' = "shutdown"
  <2>1. CASE Closing /\ Goes(t, <<>>) /\ ssl' = ssl
    BY <2>1, Pushed
  <2>2. CASE Goes(t, <<Call("closeSocket")>>) /\ (ssl' = ssl \/ (ssl = "notified" /\ ssl' = "over"))
    BY <2>2, Pushed
  <2>3. CASE /\ Goes(t, FlushCalls \o <<Call("closeSocket")>>)
             /\ ssl' = ssl \/ (ssl = "ready" /\ ssl' = "shutdown")
    BY <2>3, Pushed
  <2> QED
    BY <2>1, <2>2, <2>3 DEF Close
<1>4. Effect(t, calls)
  BY <1>1, <1>2, <1>3 DEF Effect, Basic
<1>5. stack' \in [Threads -> Seq(Calls)]
  BY <1>1, <1>3, GoesOn
<1>6. made' \in Seq(OutRecords) /\ writeBio' \in Seq(OutRecords)
  <2>1. CASE made' = made /\ writeBio' = writeBio
    BY <2>1 DEF TypeOK
  <2>2. CASE Make(Control("notify"))
    BY <2>2, MakeType, RecordTypes
  <2> QED
    BY <2>1, <2>2 DEF Close
<1>7. ssl' \in {"handshake", "ready", "notified", "shutdown", "over", "failed"}
  BY <1>3 DEF TypeOK
<1> QED
  BY <1>2, <1>4, <1>5, <1>6, <1>7 DEF TypeOK

LEMMA CloseSocketEffect ==
    ASSUME TypeOK, NEW t \in Threads, CloseSocket(t)
    PROVE  TypeOK' /\ \E calls : Effect(t, calls)
<1>1. stack[t] # <<>> /\ Head(stack[t]).call = "closeSocket"
  BY DEF CloseSocket, At
<1>2. /\ Closing' /\ entry' = NoEntry /\ ssl' = ssl /\ failed' = failed /\ pending' = pending
      /\ Goes(t, <<>>)
      /\ sock' \in {sock, "closing"}
      /\ UNCHANGED <<timer, readBio, writeBio, fetched, sent, made, wire, retries, overlapped, crashed>>
  BY DEF CloseSocket, Closing, Forgotten
<1>3. Effect(t, <<>>)
  BY <1>1, <1>2, Pushed DEF Effect, Basic
<1>4. stack' \in [Threads -> Seq(Calls)]
  BY <1>1, <1>2, Pushed, GoesOn
<1>5. entry' \in Entries
  BY <1>2, RecordTypes
<1> QED
  BY <1>2, <1>3, <1>4, <1>5 DEF TypeOK

LEMMA StepEffect ==
    ASSUME TypeOK, NEW t \in Threads, Step(t)
    PROVE  TypeOK' /\ \E calls : Effect(t, calls)
BY AsyncWriteEffect, FlushEffect, SocketWriteEffect, RetryEffect, CloseEffect, CloseSocketEffect
   DEF Step
------------------------------------------------------------------------------
(***************************************************************************)
(* The invariant                                                           *)
(***************************************************************************)

\* The stack of the loop: SSL_read's loop at the bottom, above it onRead, or
\* the count that follows onRead, and above that calls that any thread makes.
ShapeAt(s, i) ==
    \/ s[i].call \in Basic
    \/ s[i].call = "read" /\ i = Len(s)
    \/ s[i].call = "count" /\ i + 1 = Len(s) /\ s[i + 1].call = "read"
    \/ s[i].call = "onRead" /\ i = 1 /\ Len(s) = 2 /\ s[2].call = "read"

ShapeInv == \A i \in 1 .. Len(stack[Loop]) : ShapeAt(stack[Loop], i)

\* Requests are numbered as they were sent, and no more were counted than have
\* been read.
Counting == On(Loop, "count") \/ On(Loop, "onRead")
Counted == entry.n_requests + (IF Counting THEN 1 ELSE 0)
IsApp(i) == readBio[i].kind = "app"

CountInv ==
    /\ Counted <= sent
    /\ \A i \in 1 .. Len(readBio) : IsApp(i) => readBio[i].req > Counted /\ readBio[i].req <= sent
    /\ \A i, j \in 1 .. Len(readBio) : i < j /\ IsApp(i) /\ IsApp(j) => readBio[i].req < readBio[j].req

\* No request before the end of the handshake: nothing is written, no worker
\* and no file is busy, and what is received starts with the handshake.
HandshakeInv ==
    /\ ssl = "handshake" =>
          /\ fetched = {} /\ pending = <<>> /\ \A r \in Reqs : stack[r] = <<>>
          /\ ~On(Loop, "asyncWrite") /\ ~On(Loop, "onRead") /\ ~On(Loop, "count")
          /\ readBio # <<>> => readBio[1].kind = "hello" /\ stack[Loop] = <<Call("read")>>
    /\ \A i \in 1 .. Len(readBio) : readBio[i].kind = "hello" => i = 1 /\ ssl = "handshake"

ClosesOn(t) == On(t, "close") \/ On(t, "closeSocket")

\* A worker closes only once OpenSSL writes no more; a loop that still reads has
\* seen no end of the connection; and an end leads to a close on the loop.
ClosingInv ==
    /\ \A r \in Reqs : ClosesOn(r) => ssl \in {"shutdown", "over", "failed"}
    /\ On(Loop, "read") => ssl \in {"handshake", "ready", "failed"}
    /\ On(Loop, "read") /\ ClosesOn(Loop) => ssl = "failed"
    /\ ssl \in {"notified", "shutdown", "over"} => Closing \/ ClosesOn(Loop)

\* A socket that is closing has forgotten its entry, or passed the limit.
EntryInv ==
    /\ Closing /\ entry.timeout => OverLimit(entry)
    /\ Active => entry.timeout
    /\ ssl \in {"handshake", "ready"} /\ On(Loop, "read") => entry.timeout

\* While OpenSSL fails on the loop only, it does not fail under onRead.
FailsOnLoop == \A i \in 1 .. Len(failed) : failed[i] = Loop

LiveInv == FailsOnLoop => ~crashed /\ (On(Loop, "onRead") => ssl = "ready")

IInv == TypeOK /\ ShapeInv /\ CountInv /\ HandshakeInv /\ ClosingInv /\ EntryInv /\ LiveInv

------------------------------------------------------------------------------
(* The stack of the loop                                                    *)

LEMMA LoopFacts ==
    ASSUME TypeOK, ShapeInv, stack[Loop] # <<>>
    PROVE  LET top == Head(stack[Loop]).call
           IN  /\ Len(stack[Loop]) \in Nat \ {0} /\ top = stack[Loop][1].call
               /\ top = "read" => Len(stack[Loop]) = 1 /\ \A name : ~Below(Loop, name)
               /\ top \in {"onRead", "count"} =>
                     /\ Len(stack[Loop]) = 2 /\ stack[Loop][2].call = "read"
                     /\ \A name : Below(Loop, name) <=> name = "read"
               /\ ~Below(Loop, "onRead")
               /\ Below(Loop, "count") => Below(Loop, "read")
<1>1. PICK s \in Seq(Calls) : s = stack[Loop]
  BY ThreadFacts DEF TypeOK
<1>2. /\ Len(s) \in Nat \ {0} /\ Head(s) = s[1]
      /\ \A i \in 1 .. Len(s) : ShapeAt(s, i)
  BY <1>1, EmptySeq DEF ShapeInv
<1>3. ShapeAt(s, 1)
  BY <1>2
<1>4. s[1].call = "read" => Len(s) = 1 /\ \A name : ~Below(Loop, name)
  BY <1>1, <1>2, <1>3 DEF ShapeAt, Basic, Below
<1>5. ASSUME s[1].call \in {"onRead", "count"}
      PROVE  /\ Len(s) = 2 /\ s[2].call = "read"
             /\ \A name : Below(Loop, name) <=> name = "read"
  <2>1. Len(s) = 2 /\ s[2].call = "read"
    BY <1>2, <1>3, <1>5 DEF ShapeAt, Basic
  <2> QED
    BY <1>1, <2>1 DEF Below
<1>6. ~Below(Loop, "onRead")
  <2> SUFFICES ASSUME NEW i \in 2 .. Len(s), s[i].call = "onRead"
               PROVE  FALSE
    BY <1>1 DEF Below
  <2>1. i \in 1 .. Len(s) /\ i # 1
    BY <1>2
  <2> QED
    BY <1>2, <2>1 DEF ShapeAt, Basic
<1>7. ASSUME Below(Loop, "count")
      PROVE  Below(Loop, "read")
  <2>1. PICK i \in 2 .. Len(s) : s[i].call = "count"
    BY <1>1, <1>7 DEF Below
  <2>2. i + 1 = Len(s) /\ s[i + 1].call = "read"
    BY <1>2, <2>1 DEF ShapeAt, Basic
  <2>3. i + 1 \in 2 .. Len(s)
    BY <1>2, <2>1, <2>2
  <2> QED
    BY <1>1, <2>2, <2>3 DEF Below
<1> QED
  BY <1>1, <1>2, <1>4, <1>5, <1>6, <1>7

\* The shape is kept if the calls that come on top fit.
LEMMA ShapeGoes ==
    ASSUME TypeOK, ShapeInv, stack[Loop] # <<>>, NEW calls \in Seq(Calls), Goes(Loop, calls),
           \A i \in 1 .. Len(calls) : ShapeAt(stack'[Loop], i)
    PROVE  ShapeInv'
<1>1. PICK s \in Seq(Calls) : s = stack[Loop]
  BY ThreadFacts DEF TypeOK
<1>2. PICK n \in Seq(Calls) : n = calls \o Tail(s)
  BY <1>1, Spliced
<1>3. stack'[Loop] = n
  BY <1>1, <1>2, GoesOn, ThreadFacts
<1>4. /\ Len(n) = Len(calls) + Len(s) - 1
      /\ Len(calls) \in Nat /\ Len(s) \in Nat \ {0}
      /\ \A i \in 2 .. Len(s) : n[Len(calls) + i - 1] = s[i]
      /\ \A i \in 1 .. Len(n) : i > Len(calls) =>
            i - Len(calls) + 1 \in 2 .. Len(s) /\ n[i] = s[i - Len(calls) + 1]
  BY <1>1, <1>2, Spliced
<1>5. ASSUME NEW i \in 1 .. Len(n), i > Len(calls)
      PROVE  ShapeAt(n, i)
  <2>1. PICK j \in 2 .. Len(s) : j = i - Len(calls) + 1 /\ n[i] = s[j]
    BY <1>4, <1>5
  <2>2. j \in 1 .. Len(s) /\ j # 1 /\ ShapeAt(s, j)
    BY <1>1, <1>4, <2>1 DEF ShapeInv
  <2>3. CASE s[j].call \in Basic
    BY <2>1, <2>3 DEF ShapeAt
  <2>4. CASE s[j].call = "read" /\ j = Len(s)
    BY <1>4, <2>1, <2>4 DEF ShapeAt
  <2>5. CASE s[j].call = "count" /\ j + 1 = Len(s) /\ s[j + 1].call = "read"
    <3>1. j + 1 \in 2 .. Len(s) /\ Len(calls) + (j + 1) - 1 = i + 1 /\ i + 1 = Len(n)
      <4>1. Len(calls) \in Nat /\ Len(s) \in Nat /\ Len(n) = Len(calls) + Len(s) - 1
        BY <1>4
      <4>2. j \in 2 .. Len(s) /\ j = i - Len(calls) + 1 /\ j + 1 = Len(s) /\ i \in Int
        BY <2>1, <2>5
      <4> QED
        BY <4>1, <4>2
    <3>2. n[i + 1] = s[j + 1]
      BY <1>4, <3>1
    <3> QED
      BY <2>1, <2>5, <3>1, <3>2 DEF ShapeAt
  <2> QED
    BY <2>2, <2>3, <2>4, <2>5 DEF ShapeAt
<1> QED
  BY <1>3, <1>4, <1>5 DEF ShapeInv

LEMMA ShapeBasic ==
    ASSUME TypeOK, ShapeInv, stack[Loop] # <<>>, NEW calls \in Seq(Calls), Goes(Loop, calls),
           Names(calls) \subseteq Basic
    PROVE  ShapeInv'
<1>1. PICK s \in Seq(Calls) : s = stack[Loop]
  BY ThreadFacts DEF TypeOK
<1>2. stack'[Loop] = calls \o Tail(s)
  BY <1>1, GoesOn, ThreadFacts
<1>3. \A i \in 1 .. Len(calls) : stack'[Loop][i] = calls[i]
  BY <1>1, <1>2, Spliced
<1>4. \A i \in 1 .. Len(calls) : ShapeAt(stack'[Loop], i)
  BY <1>3 DEF Names, ShapeAt
<1> QED
  BY <1>4, ShapeGoes

LEMMA ShapeElsewhere ==
    ASSUME ShapeInv, stack'[Loop] = stack[Loop]
    PROVE  ShapeInv'
BY DEF ShapeInv

\* A stack that is begun anew on an idle loop.
LEMMA Begun ==
    ASSUME TypeOK, NEW calls \in Seq(Calls), stack' = [stack EXCEPT ![Loop] = calls]
    PROVE  /\ stack' \in [Threads -> Seq(Calls)] /\ stack'[Loop] = calls
           /\ \A r \in Reqs : stack'[r] = stack[r]
           /\ \A name : On(Loop, name)' <=> name \in Names(calls)
           /\ \A r \in Reqs : \A name : On(r, name)' <=> On(r, name)
<1>1. /\ stack' \in [Threads -> Seq(Calls)] /\ stack'[Loop] = calls
      /\ \A r \in Reqs : stack'[r] = stack[r]
  BY ThreadFacts DEF TypeOK
<1> QED
  BY <1>1 DEF On, Names

LEMMA IdleFacts ==
    ASSUME LoopIdle
    PROVE  stack[Loop] = <<>> /\ ~crashed /\ \A name : ~On(Loop, name)
BY DEF LoopIdle, On


------------------------------------------------------------------------------
(* What a call of any thread keeps                                          *)

\* What happens to the names of calls, in one place.
LEMMA EffectOn ==
    ASSUME TypeOK, ShapeInv, NEW t \in Threads, NEW calls, Effect(t, calls)
    PROVE  /\ stack' \in [Threads -> Seq(Calls)]
           /\ \A name : On(t, name)' <=> name \in Names(calls) \/ Below(t, name)
           /\ \A name : On(t, name) <=> name = Head(stack[t]).call \/ Below(t, name)
           /\ \A u \in Threads \ {t} : stack'[u] = stack[u]
           /\ \A u \in Threads \ {t} : \A name : On(u, name)' <=> On(u, name)
           /\ t = Loop => ~Below(Loop, "onRead")
<1>1. stack[t] # <<>> /\ calls \in Seq(Calls) /\ Goes(t, calls)
  BY DEF Effect
<1> QED
  BY <1>1, GoesOn, LoopFacts

LEMMA EntryParts ==
    /\ TypeOK => entry.n_requests \in Nat /\ entry.timeout \in BOOLEAN /\ entry.present \in BOOLEAN
    /\ TypeOK' => entry'.n_requests \in Nat /\ entry'.timeout \in BOOLEAN
<1>1. \A e \in Entries : e.n_requests \in Nat /\ e.timeout \in BOOLEAN /\ e.present \in BOOLEAN
  BY MaxRequestsAssumption DEF Entries
<1> QED
  BY <1>1 DEF TypeOK

LEMMA RecordParts ==
    ASSUME TypeOK, NEW i \in 1 .. Len(readBio)
    PROVE  /\ readBio[i].req \in Nat
           /\ IsApp(i) => readBio[i].req \in Reqs
<1>1. readBio[i] \in InRecords
  BY DEF TypeOK
<1> QED
  BY <1>1, MaxRequestsAssumption DEF InRecords, Reqs, IsApp

LEMMA EffectShape ==
    ASSUME TypeOK, ShapeInv, NEW t \in Threads, NEW calls, Effect(t, calls)
    PROVE  ShapeInv'
<1>1. CASE t = Loop
  BY <1>1, ShapeBasic DEF Effect
<1>2. CASE t # Loop
  BY <1>2, EffectOn, ThreadFacts, ShapeElsewhere
<1> QED
  BY <1>1, <1>2

LEMMA EffectCount ==
    ASSUME TypeOK, ShapeInv, CountInv, NEW t \in Threads, NEW calls, Effect(t, calls), TypeOK'
    PROVE  CountInv'
<1>1. readBio' = readBio /\ sent' = sent
  BY DEF Effect
<1>2. Counting' <=> Counting
  <2>1. CASE t = Loop
    BY <2>1, EffectOn DEF Effect, Counting, Basic
  <2>2. CASE t # Loop
    BY <2>2, EffectOn, ThreadFacts DEF Counting
  <2> QED
    BY <2>1, <2>2
<1>3. entry'.n_requests <= entry.n_requests /\ entry.n_requests \in Nat /\ entry'.n_requests \in Nat
  <2>1. entry.n_requests \in Nat /\ entry'.n_requests \in Nat
    BY EntryParts
  <2>2. entry' = NoEntry \/ entry' = entry
    BY DEF Effect
  <2> QED
    BY <2>1, <2>2 DEF NoEntry
<1>4. Counted' \in Nat /\ Counted \in Nat /\ Counted' <= Counted
  BY <1>2, <1>3 DEF Counted
<1>5. sent \in Nat
  BY MaxRequestsAssumption DEF TypeOK
<1>6. ASSUME NEW i \in 1 .. Len(readBio), IsApp(i)
      PROVE  readBio[i].req > Counted' /\ readBio[i].req \in Nat
  <2>1. readBio[i].req \in Nat
    BY <1>6, RecordParts
  <2>2. readBio[i].req > Counted
    BY <1>6 DEF CountInv
  <2> QED
    BY <1>4, <2>1, <2>2
<1>7. \A i : IsApp(i)' <=> IsApp(i)
  BY <1>1 DEF IsApp
<1>8. Counted' <= sent
  BY <1>4, <1>5 DEF CountInv
<1> QED
  BY <1>1, <1>6, <1>7, <1>8 DEF CountInv

LEMMA EffectHandshake ==
    ASSUME TypeOK, ShapeInv, HandshakeInv, NEW t \in Threads, NEW calls, Effect(t, calls)
    PROVE  HandshakeInv'
<1>1. readBio' = readBio /\ fetched' = fetched /\ (ssl' = "handshake" <=> ssl = "handshake")
  <2>1. readBio' = readBio /\ fetched' = fetched /\ (ssl' = "handshake" => ssl = "handshake")
    BY DEF Effect
  <2>2. ssl = "handshake" => ssl' = "handshake"
    BY DEF Effect, Writable
  <2> QED
    BY <2>1, <2>2
<1>2. ASSUME ssl = "handshake"
      PROVE  /\ t = Loop /\ readBio = <<>> /\ fetched = {} /\ pending' = <<>>
             /\ \A r \in Reqs : stack'[r] = <<>>
             /\ ~On(Loop, "asyncWrite")' /\ ~On(Loop, "onRead")' /\ ~On(Loop, "count")'
  <2>1. /\ fetched = {} /\ pending = <<>> /\ \A r \in Reqs : stack[r] = <<>>
        /\ ~On(Loop, "asyncWrite") /\ ~On(Loop, "onRead") /\ ~On(Loop, "count")
        /\ readBio # <<>> => stack[Loop] = <<Call("read")>>
    BY <1>2 DEF HandshakeInv
  <2>2. t = Loop
    BY <2>1 DEF Effect, Threads
  <2>3. readBio = <<>>
    BY <2>1, <2>2, CallTypes, Singles DEF Effect, Basic
  <2>4. pending' = <<>>
    BY <1>2, <2>1 DEF Effect, Writable
  <2>5. \A r \in Reqs : stack'[r] = <<>>
    BY <2>1, <2>2, EffectOn, ThreadFacts
  <2>6. ~On(Loop, "asyncWrite")'
    BY <2>1, <2>2, EffectOn DEF Effect
  <2>7. ~On(Loop, "onRead")' /\ ~On(Loop, "count")'
    BY <2>1, <2>2, EffectOn DEF Effect, Basic
  <2> QED
    BY <2>1, <2>2, <2>3, <2>4, <2>5, <2>6, <2>7
<1> QED
  BY <1>1, <1>2 DEF HandshakeInv

LEMMA EffectClosing ==
    ASSUME TypeOK, ShapeInv, HandshakeInv, ClosingInv, NEW t \in Threads, NEW calls, Effect(t, calls)
    PROVE  ClosingInv'
<1> DEFINE top == Head(stack[t]).call
           Dead(s) == s \in {"shutdown", "over", "failed"}
<1>1. /\ top \in Basic /\ Names(calls) \subseteq Basic
      /\ "close" \in Names(calls) => top = "asyncWrite" /\ (ssl' = "failed" \/ (~Writable /\ ssl' = ssl))
      /\ "closeSocket" \in Names(calls) => top = "close"
      /\ top = "close" => Closing \/ "closeSocket" \in Names(calls)
      /\ top = "closeSocket" => Closing'
      /\ top # "closeSocket" => (Closing' <=> Closing)
      /\ stack[t] # <<>>
  BY DEF Effect, Closing
<1>2. /\ \A name : On(t, name)' <=> name \in Names(calls) \/ Below(t, name)
      /\ \A name : On(t, name) <=> name = top \/ Below(t, name)
      /\ \A u \in Threads \ {t} : \A name : On(u, name)' <=> On(u, name)
  BY EffectOn
<1>3. /\ Dead(ssl) => Dead(ssl')
      /\ ssl = "failed" => ssl' = "failed"
      /\ ssl \in {"notified", "shutdown", "over", "failed"} => ssl' \in {"notified", "shutdown", "over", "failed"}
      /\ ssl' = ssl \/ ssl' = "failed" \/ (top = "close" /\ ssl \in {"notified", "ready"} /\ Dead(ssl'))
  BY DEF Effect, Writable
<1>4. /\ ClosesOn(t)' <=> \/ "close" \in Names(calls) \/ "closeSocket" \in Names(calls)
                          \/ Below(t, "close") \/ Below(t, "closeSocket")
      /\ ClosesOn(t) <=> \/ top \in {"close", "closeSocket"}
                         \/ Below(t, "close") \/ Below(t, "closeSocket")
      /\ \A u \in Threads \ {t} : ClosesOn(u)' <=> ClosesOn(u)
  BY <1>2 DEF ClosesOn
<1>5. ssl = "handshake" => t = Loop /\ top # "asyncWrite"
  BY <1>1, <1>2 DEF HandshakeInv, Threads
<1>6. ssl \in {"handshake", "ready", "notified", "shutdown", "over", "failed"}
  BY DEF TypeOK
<1>7. ASSUME NEW r \in Reqs, ClosesOn(r)'
      PROVE  Dead(ssl')
  <2>1. r \in Threads /\ r # Loop
    BY ThreadFacts
  <2>2. CASE r # t
    BY <1>3, <1>4, <1>7, <2>1, <2>2 DEF ClosingInv
  <2>3. CASE r = t /\ ClosesOn(r)
    BY <1>3, <2>3 DEF ClosingInv
  <2>4. CASE r = t /\ "close" \in Names(calls)
    BY <1>1, <1>5, <1>6, <2>1, <2>4 DEF Writable
  <2> QED
    BY <1>1, <1>4, <1>7, <2>2, <2>3, <2>4
<1>8. On(Loop, "read")' => On(Loop, "read")
  BY <1>1, <1>2, ThreadFacts DEF Basic
<1>9. ASSUME On(Loop, "read")'
      PROVE  ssl' \in {"handshake", "ready", "failed"}
  <2>1. ssl \in {"handshake", "ready", "failed"}
    BY <1>8, <1>9 DEF ClosingInv
  <2>2. CASE top = "close" /\ t = Loop
    <3>1. ssl = "failed"
      BY <1>4, <1>8, <1>9, <2>2 DEF ClosingInv
    <3> QED
      BY <1>3, <3>1
  <2>3. CASE top = "close" /\ t # Loop
    <3>1. Dead(ssl)
      BY <1>4, <2>3 DEF ClosingInv, Threads
    <3> QED
      BY <1>3, <2>1, <3>1
  <2> QED
    BY <1>3, <2>1, <2>2, <2>3
<1>10. ASSUME On(Loop, "read")', ClosesOn(Loop)'
       PROVE  ssl' = "failed"
  <2>1. CASE ClosesOn(Loop)
    BY <1>3, <1>8, <1>10, <2>1 DEF ClosingInv
  <2>2. CASE t = Loop /\ "close" \in Names(calls)
    <3>1. ssl \in {"handshake", "ready", "failed"}
      BY <1>8, <1>10 DEF ClosingInv
    <3> QED
      BY <1>1, <1>5, <2>2, <3>1 DEF Writable
  <2> QED
    BY <1>1, <1>4, <1>10, <2>1, <2>2, ThreadFacts
<1>11. ASSUME ssl' \in {"notified", "shutdown", "over"}
       PROVE  Closing' \/ ClosesOn(Loop)'
  <2>1. CASE Closing
    BY <1>1, <2>1
  <2>2. CASE t = Loop /\ top = "close"
    BY <1>1, <1>4, <2>2
  <2>3. CASE t # Loop /\ top = "close"
    <3>1. Dead(ssl)
      BY <1>4, <2>3 DEF ClosingInv, Threads
    <3>2. ssl \in {"shutdown", "over"}
      BY <1>3, <1>11, <3>1
    <3> QED
      BY <1>1, <1>4, <2>3, <3>2, ThreadFacts DEF ClosingInv
  <2>4. CASE top # "close"
    <3>1. ssl \in {"notified", "shutdown", "over"}
      BY <1>3, <1>11, <2>4
    <3>2. Closing \/ ClosesOn(Loop)
      BY <3>1 DEF ClosingInv
    <3> QED
      BY <1>1, <1>4, <2>4, <3>2, ThreadFacts
  <2> QED
    BY <2>2, <2>3, <2>4
<1> QED
  BY <1>7, <1>9, <1>10, <1>11 DEF ClosingInv

LEMMA EffectEntry ==
    ASSUME TypeOK, ShapeInv, HandshakeInv, ClosingInv, EntryInv, NEW t \in Threads, NEW calls, Effect(t, calls)
    PROVE  EntryInv'
<1>1. CASE Head(stack[t]).call = "closeSocket"
  <2>1. Closing' /\ entry' = NoEntry
    BY <1>1 DEF Effect
  <2>2. ClosesOn(t)
    BY <1>1, EffectOn DEF ClosesOn
  <2>3. On(Loop, "read")' => On(Loop, "read")
    BY EffectOn, ThreadFacts, SMTT(30) DEF Effect, Basic
  <2>4. On(Loop, "read") => ssl \notin {"handshake", "ready"}
    BY <2>2 DEF ClosingInv, Threads
  <2>5. ssl' \in {"handshake", "ready"} => ssl \in {"handshake", "ready"}
    BY DEF Effect
  <2> QED
    BY <2>1, <2>3, <2>4, <2>5 DEF EntryInv, NoEntry, Closing, Active
<1>2. CASE Head(stack[t]).call # "closeSocket"
  <2>1. sock' = sock /\ entry' = entry
    BY <1>2 DEF Effect
  <2>2. On(Loop, "read")' => On(Loop, "read")
    BY EffectOn, ThreadFacts, SMTT(30) DEF Effect, Basic
  <2>3. ssl' \in {"handshake", "ready"} => ssl \in {"handshake", "ready"}
    BY DEF Effect
  <2> QED
    BY <2>1, <2>2, <2>3 DEF EntryInv, Closing, Active, OverLimit
<1> QED
  BY <1>1, <1>2

LEMMA EffectLive ==
    ASSUME TypeOK, ShapeInv, ClosingInv, LiveInv, NEW t \in Threads, NEW calls, Effect(t, calls)
    PROVE  LiveInv'
<1> SUFFICES ASSUME FailsOnLoop'
             PROVE  ~crashed' /\ (On(Loop, "onRead")' => ssl' = "ready")
  BY DEF LiveInv
<1>1. FailsOnLoop /\ (failed' = Append(failed, t) => t = Loop)
  <2>1. CASE failed' = failed
    <3>1. FailsOnLoop
      BY <2>1 DEF FailsOnLoop
    <3>2. failed' # Append(failed, t)
      BY <2>1 DEF TypeOK
    <3> QED
      BY <3>1, <3>2
  <2>2. CASE failed' = Append(failed, t)
    <3>1. /\ Len(failed') = Len(failed) + 1 /\ failed'[Len(failed) + 1] = t
          /\ \A i \in 1 .. Len(failed) : failed'[i] = failed[i]
          /\ Len(failed) \in Nat
      BY <2>2, AppendProperties DEF TypeOK
    <3> QED
      BY <3>1 DEF FailsOnLoop
  <2> QED
    BY <2>1, <2>2 DEF Effect
<1>2. ~crashed /\ crashed' = crashed /\ (On(Loop, "onRead") => ssl = "ready")
  BY <1>1 DEF LiveInv, Effect
<1>3. CASE t = Loop
  <2>1. "onRead" \notin Names(calls)
    BY DEF Effect, Basic
  <2>2. ~On(Loop, "onRead")'
    BY <1>3, <2>1, EffectOn
  <2> QED
    BY <1>2, <2>2
<1>4. CASE t # Loop
  <2>1. On(Loop, "onRead")' => On(Loop, "onRead")
    BY <1>4, EffectOn, ThreadFacts
  <2>2. Head(stack[t]).call = "close" => ssl # "ready"
    BY <1>4, EffectOn DEF ClosingInv, ClosesOn, Threads
  <2> QED
    BY <1>1, <1>2, <1>4, <2>1, <2>2 DEF Effect
<1> QED
  BY <1>3, <1>4

LEMMA StepKeeps ==
    ASSUME IInv, NEW t \in Threads, Step(t)
    PROVE  IInv'
<1>1. TypeOK'
  BY StepEffect DEF IInv
<1>2. PICK calls : Effect(t, calls)
  BY StepEffect DEF IInv
<1>3. ShapeInv' /\ CountInv' /\ HandshakeInv'
  BY <1>1, <1>2, EffectShape, EffectCount, EffectHandshake DEF IInv
<1>4. ClosingInv' /\ EntryInv' /\ LiveInv'
  BY <1>1, <1>2, EffectClosing, EffectEntry, EffectLive DEF IInv
<1> QED
  BY <1>1, <1>3, <1>4 DEF IInv

------------------------------------------------------------------------------
(* What an event keeps                                                      *)

\* An event of the socket that calls nothing.
LEMMA SocketEventKeeps ==
    ASSUME IInv, TypeOK', LoopIdle,
           stack' = stack, ssl' = ssl, readBio' = readBio, pending' = pending, fetched' = fetched,
           sent' = sent, failed' = failed, crashed' = crashed,
           Closing => Closing',
           entry' = entry \/ entry'.n_requests = 0,
           EntryInv'
    PROVE  IInv'
<1>1. ShapeInv'
  BY ShapeElsewhere DEF IInv
<1>2. \A t, name : On(t, name)' <=> On(t, name)
  BY DEF On
<1>3. CountInv'
  <2>1. Counted' \in Nat /\ Counted \in Nat /\ Counted' <= Counted
    BY <1>2, EntryParts DEF Counted, Counting, IInv
  <2>2. sent \in Nat
    BY MaxRequestsAssumption DEF IInv, TypeOK
  <2>3. Counted' <= sent
    BY <2>1, <2>2 DEF CountInv, IInv
  <2>4. ASSUME NEW i \in 1 .. Len(readBio), IsApp(i)
        PROVE  readBio[i].req > Counted'
    <3>1. readBio[i].req \in Nat /\ readBio[i].req > Counted
      BY <2>4, RecordParts DEF CountInv, IInv
    <3> QED
      BY <2>1, <3>1
  <2>5. \A i : IsApp(i)' <=> IsApp(i)
    BY DEF IsApp
  <2>6. CountInv
    BY DEF IInv
  <2> QED
    BY <2>3, <2>4, <2>5, <2>6 DEF CountInv
<1>4. HandshakeInv'
  BY <1>2 DEF HandshakeInv, IInv
<1>5. ClosingInv'
  BY <1>2 DEF ClosingInv, ClosesOn, IInv
<1>6. LiveInv'
  BY <1>2 DEF LiveInv, FailsOnLoop, IInv
<1> QED
  BY <1>1, <1>3, <1>4, <1>5, <1>6 DEF IInv

LEMMA ListenKeeps ==
    ASSUME IInv, ListenEvent
    PROVE  IInv'
<1>1. /\ LoopIdle /\ sock = "new" /\ sock' = "open" /\ timer' = "armed"
      /\ entry' = [present |-> TRUE, timeout |-> TRUE, n_requests |-> 0]
      /\ UNCHANGED <<ssl, readBio, writeBio, pending, stack, fetched, sent, made, wire, retries,
                     failed, overlapped, crashed>>
  BY DEF ListenEvent
<1>2. TypeOK'
  <2>1. entry' \in Entries
    BY <1>1, MaxRequestsAssumption DEF Entries
  <2> QED
    BY <1>1, <2>1 DEF TypeOK, IInv
<1>3. EntryInv'
  BY <1>1 DEF EntryInv, Closing
<1> QED
  BY <1>1, <1>2, <1>3, SocketEventKeeps DEF Closing

LEMMA EndKeeps ==
    ASSUME IInv, EndEvent \/ CloseEvent
    PROVE  IInv'
<1>1. /\ LoopIdle
      /\ \/ sock = "open" /\ sock' = "eof"
         \/ sock = "closing" /\ sock' = "closed"
      /\ UNCHANGED <<timer, entry, ssl, readBio, writeBio, pending, stack, fetched, sent, made,
                     wire, retries, failed, overlapped, crashed>>
  BY DEF EndEvent, CloseEvent
<1>2. TypeOK'
  BY <1>1 DEF TypeOK, IInv
<1>3. EntryInv'
  BY <1>1 DEF EntryInv, Closing, Active, OverLimit, On, IInv
<1>4. Closing => Closing'
  BY <1>1 DEF Closing
<1> QED
  BY <1>1, <1>2, <1>3, <1>4, SocketEventKeeps

\* An event that calls what any thread may call.
LEMMA CallingEventKeeps ==
    ASSUME IInv, TypeOK', LoopIdle, NEW calls \in Seq(Calls), Names(calls) \subseteq Basic,
           stack' = [stack EXCEPT ![Loop] = calls],
           "asyncWrite" \in Names(calls) => ssl # "handshake",
           sock' = sock, entry' = entry, ssl' = ssl, readBio' = readBio, pending' = pending,
           fetched' \subseteq fetched, sent' = sent, failed' = failed, crashed' = crashed
    PROVE  IInv'
<1>1. /\ stack'[Loop] = calls
      /\ \A r \in Reqs : stack'[r] = stack[r]
      /\ \A name : On(Loop, name)' <=> name \in Names(calls)
      /\ \A r \in Reqs : \A name : On(r, name)' <=> On(r, name)
      /\ \A name : ~On(Loop, name)
      /\ stack[Loop] = <<>>
  BY Begun, IdleFacts DEF IInv
<1>2. ShapeInv'
  BY <1>1 DEF ShapeInv, ShapeAt, Names
<1>3. CountInv'
  <2>1. Counted' = Counted
    BY <1>1 DEF Counted, Counting, Basic
  <2>2. \A i : IsApp(i)' <=> IsApp(i)
    BY DEF IsApp
  <2> QED
    BY <2>1, <2>2 DEF CountInv, IInv
<1>4. HandshakeInv'
  <2>1. CASE ssl = "handshake"
    <3>1. readBio = <<>>
      BY <1>1, <2>1, Singles, CallTypes DEF HandshakeInv, IInv
    <3>2. ~On(Loop, "asyncWrite")' /\ ~On(Loop, "onRead")' /\ ~On(Loop, "count")'
      BY <1>1, <2>1 DEF Basic
    <3> QED
      BY <1>1, <2>1, <3>1, <3>2 DEF HandshakeInv, IInv
  <2>2. CASE ssl # "handshake"
    BY <2>2 DEF HandshakeInv, IInv
  <2> QED
    BY <2>1, <2>2
<1>5. ClosingInv'
  <2>1. ~On(Loop, "read")'
    BY <1>1 DEF Basic
  <2>2. ~ClosesOn(Loop) /\ \A r \in Reqs : ClosesOn(r)' <=> ClosesOn(r)
    BY <1>1 DEF ClosesOn
  <2>3. Closing' <=> Closing
    BY DEF Closing
  <2> QED
    BY <2>1, <2>2, <2>3 DEF ClosingInv, IInv
<1>6. EntryInv'
  BY <1>1 DEF EntryInv, Closing, Active, OverLimit, Basic, IInv
<1>7. LiveInv'
  BY <1>1 DEF LiveInv, FailsOnLoop, Basic, IInv
<1> QED
  BY <1>2, <1>3, <1>4, <1>5, <1>6, <1>7 DEF IInv

LEMMA CloseCallKeeps ==
    ASSUME IInv, ErrorEvent \/ TimerEvent
    PROVE  IInv'
<1>1. PICK calls \in Seq(Calls) : calls = <<Call("close")>> /\ Names(calls) = {"close"}
  BY Pushed
<1>2. /\ LoopIdle /\ timer' \in {"none", "armed", "fired"}
      /\ stack' = [stack EXCEPT ![Loop] = calls]
      /\ UNCHANGED <<sock, entry, ssl, readBio, writeBio, pending, fetched, sent, made, wire,
                     retries, failed, overlapped, crashed>>
  BY <1>1 DEF ErrorEvent, TimerEvent, TimerCalls, IInv, TypeOK
<1>3. stack' \in [Threads -> Seq(Calls)]
  BY <1>2, Begun DEF IInv
<1>4. TypeOK'
  BY <1>2, <1>3 DEF TypeOK, IInv
<1>5. Names(calls) \subseteq Basic /\ "asyncWrite" \notin Names(calls)
  BY <1>1 DEF Basic
<1> QED
  BY <1>2, <1>4, <1>5, CallingEventKeeps

LEMMA AsyncKeeps ==
    ASSUME IInv, NEW r \in Reqs, AsyncEvent(r)
    PROVE  IInv'
<1>1. PICK parts \in FileAnswers :
          stack' = IF Active
                   THEN [stack EXCEPT ![Loop] =
                            [i \in DOMAIN parts |-> AsyncWriteOf([req |-> r, part |-> parts[i]])]]
                   ELSE stack
  BY DEF AsyncEvent
<1>2. /\ LoopIdle /\ r \in fetched /\ fetched' = fetched \ {r}
      /\ UNCHANGED <<sock, timer, entry, ssl, readBio, writeBio, pending, sent, made, wire, retries,
                     failed, overlapped, crashed>>
  BY DEF AsyncEvent
<1>3. PICK calls \in Seq(Calls) :
         /\ calls = [i \in DOMAIN parts |-> AsyncWriteOf([req |-> r, part |-> parts[i]])]
         /\ Names(calls) \subseteq {"asyncWrite"}
  <2>1. PICK n \in Nat : /\ DOMAIN parts = 1 .. n
                         /\ \A i \in 1 .. n : parts[i] \in {"whole", "head", "body"}
    <3>1. CASE parts = <<"whole">>
      BY <3>1
    <3>2. CASE parts = <<"head", "body">>
      BY <3>2
    <3> QED
      BY <3>1, <3>2 DEF FileAnswers
  <2>2. PICK c : c = [i \in 1 .. n |-> AsyncWriteOf([req |-> r, part |-> parts[i]])]
    OBVIOUS
  <2>3. \A i \in 1 .. n : [req |-> r, part |-> parts[i]] \in Answers
    BY <2>1 DEF Answers
  <2>4. \A i \in 1 .. n : c[i] \in Calls /\ c[i].call = "asyncWrite"
    BY <2>2, <2>3, CallTypes
  <2>5. c \in Seq(Calls) /\ Len(c) = n
    BY <2>2, <2>4
  <2>6. Names(c) \subseteq {"asyncWrite"}
    BY <2>4, <2>5 DEF Names
  <2> QED
    BY <2>1, <2>2, <2>5, <2>6
<1>4. CASE Active
  <2>1. stack' = [stack EXCEPT ![Loop] = calls]
    BY <1>1, <1>3, <1>4
  <2>2. stack' \in [Threads -> Seq(Calls)]
    BY <2>1, Begun DEF IInv
  <2>3. TypeOK'
    BY <1>2, <2>2 DEF TypeOK, IInv
  <2>4. ssl # "handshake"
    BY <1>2 DEF HandshakeInv, IInv
  <2> QED
    BY <1>2, <1>3, <2>1, <2>3, <2>4, CallingEventKeeps DEF Basic
<1>5. CASE ~Active
  <2>1. stack' = [stack EXCEPT ![Loop] = <<>>]
    BY <1>1, <1>2, <1>5, IdleFacts DEF IInv, TypeOK
  <2>2. stack' = stack
    BY <1>1, <1>5
  <2>3. TypeOK'
    BY <1>2, <2>2 DEF TypeOK, IInv
  <2>4. Names(<<>>) \subseteq Basic /\ "asyncWrite" \notin Names(<<>>) /\ <<>> \in Seq(Calls)
    BY Pushed
  <2> QED
    BY <1>2, <2>1, <2>3, <2>4, CallingEventKeeps
<1> QED
  BY <1>4, <1>5

\* What one read of the socket brings.
LEMMA BatchFacts ==
    ASSUME TypeOK, NEW batch \in Batches
    PROVE  \E m \in {0, 1}, n \in 0 .. MaxRequests - sent :
              /\ batch \in Seq(InRecords) /\ Len(batch) \in Nat \ {0}
              /\ m = 1 <=> ssl = "handshake"
              /\ m = 1 => batch[1].kind = "hello"
              /\ \A i \in 1 .. Len(batch) : batch[i].kind = "hello" => i = 1 /\ m = 1
              /\ \A i \in 1 .. Len(batch) :
                    batch[i].kind = "app" => i \in m + 1 .. m + n /\ batch[i].req = sent + i - m
              /\ Cardinality({i \in DOMAIN batch : batch[i].kind = "app"}) = n
              /\ \A i \in 1 .. n : m + i \in 1 .. Len(batch) /\ batch[m + i].req = sent + i
<1> DEFINE hello == IF ssl = "handshake" THEN <<[kind |-> "hello", req |-> 0]>> ELSE <<>>
           apps(n) == [i \in 1 .. n |-> [kind |-> "app", req |-> sent + i]]
           ends == {<<>>} \cup {<<[kind |-> k, req |-> 0]>> : k \in {"notify", "bad"}}
<1>1. PICK n \in 0 .. MaxRequests - sent, end \in ends :
         batch = hello \o apps(n) \o end /\ Len(batch) \in 1 .. MaxBatch
  <2> DEFINE all == {hello \o apps(n) \o end : n \in 0 .. MaxRequests - sent, end \in ends}
  <2>1. Batches = {b \in all : Len(b) \in 1 .. MaxBatch}
    BY DEF Batches
  <2> HIDE DEF all
  <2>2. batch \in all /\ Len(batch) \in 1 .. MaxBatch
    BY <2>1
  <2> HIDE DEF hello, apps, ends
  <2> QED
    BY <2>2 DEF all
<1>2. sent \in 0 .. MaxRequests /\ MaxRequests \in Nat /\ n \in Nat
  BY MaxRequestsAssumption DEF TypeOK
<1>3. PICK m \in {0, 1} : m = IF ssl = "handshake" THEN 1 ELSE 0
  OBVIOUS
<1>4. /\ hello \in Seq(InRecords) /\ Len(hello) = m
      /\ m = 1 => hello[1].kind = "hello"
  <2>1. CASE ssl = "handshake"
    <3>1. PICK b : b = [kind |-> "hello", req |-> 0]
      OBVIOUS
    <3>2. b \in InRecords /\ b.kind = "hello"
      BY <3>1 DEF InRecords
    <3>3. hello = <<b>> /\ m = 1
      BY <1>3, <2>1, <3>1
    <3> QED
      BY <3>2, <3>3, Singles
  <2>2. CASE ssl # "handshake"
    <3>1. hello = <<>> /\ m = 0
      BY <1>3, <2>2
    <3> QED
      BY <3>1, EmptySeq
  <2> QED
    BY <2>1, <2>2
<1>5. /\ apps(n) \in Seq(InRecords) /\ Len(apps(n)) = n
      /\ \A i \in 1 .. n : apps(n)[i].kind = "app" /\ apps(n)[i].req = sent + i
  <2>1. \A i \in 1 .. n : sent + i \in Reqs
    BY <1>1, <1>2 DEF Reqs
  <2>2. apps(n) \in [1 .. n -> InRecords]
    BY <2>1 DEF InRecords
  <2>3. apps(n) \in Seq(InRecords) /\ Len(apps(n)) = n
    <3> HIDE DEF apps
    <3> QED
      BY <1>2, <2>2
  <2>4. \A i \in 1 .. n : apps(n)[i].kind = "app" /\ apps(n)[i].req = sent + i
    OBVIOUS
  <2> QED
    BY <2>3, <2>4
<1>6. /\ end \in Seq(InRecords) /\ Len(end) \in {0, 1}
      /\ Len(end) = 1 => end[1].kind \in {"notify", "bad"}
  <2>1. CASE end = <<>>
    BY <2>1
  <2>2. CASE \E k \in {"notify", "bad"} : end = <<[kind |-> k, req |-> 0]>>
    BY <2>2 DEF InRecords
  <2> QED
    BY <2>1, <2>2
<1> HIDE DEF hello, apps, ends
<1>7. PICK h \in Seq(InRecords), f \in Seq(InRecords) : h = hello /\ f = apps(n)
  BY <1>4, <1>5
<1>8. /\ batch \in Seq(InRecords) /\ Len(batch) = m + n + Len(end)
      /\ \A i \in 1 .. m + n + Len(end) :
            batch[i] = IF i <= m + n THEN (IF i <= m THEN h[i] ELSE f[i - m]) ELSE end[i - (m + n)]
  <2>1. Len(h) = m /\ Len(f) = n /\ batch = (h \o f) \o end
    BY <1>1, <1>4, <1>5, <1>7
  <2>2. PICK a \in Seq(InRecords) : a = h \o f
    BY <1>7, ConcatProperties
  <2>3. Len(a) = m + n /\ \A i \in 1 .. m + n : a[i] = IF i <= m THEN h[i] ELSE f[i - m]
    BY <1>7, <2>1, <2>2, ConcatProperties
  <2>4. /\ batch \in Seq(InRecords) /\ Len(batch) = m + n + Len(end)
        /\ \A i \in 1 .. m + n + Len(end) : batch[i] = IF i <= m + n THEN a[i] ELSE end[i - (m + n)]
    <3>1. batch = a \o end /\ end \in Seq(InRecords)
      BY <1>6, <2>1, <2>2
    <3>2. /\ a \o end \in Seq(InRecords) /\ Len(a \o end) = Len(a) + Len(end)
          /\ \A i \in 1 .. Len(a) + Len(end) :
                (a \o end)[i] = IF i <= Len(a) THEN a[i] ELSE end[i - Len(a)]
      BY <3>1, ConcatProperties
    <3> QED
      BY <2>3, <3>1, <3>2
  <2>5. ASSUME NEW i \in 1 .. m + n + Len(end), i <= m + n
        PROVE  i \in 1 .. m + n
    BY <1>2, <1>6, <2>5
  <2> QED
    BY <2>3, <2>4, <2>5
<1>9. ASSUME NEW i \in 1 .. Len(batch)
      PROVE  /\ i <= m => i = 1 /\ m = 1 /\ batch[i].kind = "hello"
             /\ i > m /\ i <= m + n => batch[i].kind = "app" /\ batch[i].req = sent + i - m
             /\ i > m + n => batch[i].kind \in {"notify", "bad"}
  <2>1. CASE i <= m
    <3>1. i = 1 /\ m = 1 /\ i \in 1 .. m + n /\ i \in 1 .. m + n + Len(end)
      BY <1>2, <1>6, <2>1
    <3>2. i <= m + n
      BY <1>2, <3>1
    <3>3. batch[i] = h[1]
      BY <1>8, <2>1, <3>1, <3>2
    <3> QED
      BY <1>4, <1>7, <3>1, <3>3
  <2>2. CASE i > m /\ i <= m + n
    <3>1. i - m \in 1 .. n /\ i \in 1 .. m + n /\ i \in 1 .. m + n + Len(end) /\ ~(i <= m) /\ ~(i > m + n)
      BY <1>2, <1>6, <2>2
    <3>2. batch[i] = f[i - m]
      BY <1>8, <2>2, <3>1
    <3>3. sent + (i - m) = sent + i - m
      BY <1>2
    <3> QED
      BY <1>5, <1>7, <2>2, <3>1, <3>2, <3>3
  <2>3. CASE i > m + n
    <3>1. i - (m + n) = 1 /\ Len(end) = 1 /\ ~(i <= m + n) /\ ~(i <= m) /\ i \in 1 .. m + n + Len(end)
      BY <1>2, <1>6, <1>8, <2>3
    <3>2. batch[i] = end[1]
      BY <1>8, <3>1
    <3> QED
      BY <1>6, <3>1, <3>2
  <2>4. i <= m \/ (i > m /\ i <= m + n) \/ i > m + n
    BY <1>2
  <2> QED
    BY <1>2, <2>1, <2>2, <2>3, <2>4
<1>10. Len(batch) \in Nat \ {0} /\ DOMAIN batch = 1 .. Len(batch)
  BY <1>1, <1>8
<1>11. {i \in DOMAIN batch : batch[i].kind = "app"} = m + 1 .. m + n
  <2>1. ASSUME NEW i \in DOMAIN batch, batch[i].kind = "app"
        PROVE  i \in m + 1 .. m + n
    BY <1>2, <1>9, <1>10, <2>1
  <2>2. ASSUME NEW i \in m + 1 .. m + n
        PROVE  i \in DOMAIN batch /\ batch[i].kind = "app"
    <3>1. i \in 1 .. Len(batch) /\ i > m /\ i <= m + n
      BY <1>2, <1>6, <1>8
    <3> QED
      BY <1>9, <1>10, <3>1
  <2> QED
    BY <2>1, <2>2
<1>12. Cardinality(m + 1 .. m + n) = n
  <2>1. m + 1 \in Int /\ m + n \in Int /\ (m + n) - (m + 1) + 1 = n /\ (m + 1 > m + n => n = 0)
    BY <1>2
  <2> QED
    BY <2>1, FS_Interval
<1>13. \A i \in 1 .. Len(batch) :
          batch[i].kind = "app" => i \in m + 1 .. m + n /\ batch[i].req = sent + i - m
  <2> SUFFICES ASSUME NEW i \in 1 .. Len(batch), batch[i].kind = "app"
               PROVE  i \in m + 1 .. m + n /\ batch[i].req = sent + i - m
    OBVIOUS
  <2>1. i \in m + 1 .. m + n /\ i > m /\ i <= m + n
    BY <1>2, <1>10, <1>11
  <2> QED
    BY <1>9, <2>1
<1>14. \A i \in 1 .. Len(batch) : batch[i].kind = "hello" => i = 1 /\ m = 1
  <2> SUFFICES ASSUME NEW i \in 1 .. Len(batch), batch[i].kind = "hello"
               PROVE  i = 1 /\ m = 1
    OBVIOUS
  <2>1. i <= m \/ (i > m /\ i <= m + n) \/ i > m + n
    BY <1>2
  <2> QED
    BY <1>9, <2>1
<1>15. m = 1 => batch[1].kind = "hello"
  BY <1>9, <1>10
<1>16. m = 1 <=> ssl = "handshake"
  BY <1>3
<1>17. ASSUME NEW i \in 1 .. n
       PROVE  m + i \in 1 .. Len(batch) /\ batch[m + i].req = sent + i
  <2>1. m + i \in 1 .. Len(batch) /\ m + i > m /\ m + i <= m + n
    BY <1>2, <1>6, <1>8
  <2>2. batch[m + i].req = sent + (m + i) - m
    BY <1>9, <2>1
  <2> QED
    BY <1>2, <2>1, <2>2
<1> QED
  <2>1. Cardinality({i \in DOMAIN batch : batch[i].kind = "app"}) = n
    BY <1>11, <1>12
  <2>2. batch \in Seq(InRecords)
    BY <1>8
  <2> QED
    BY <1>10, <1>13, <1>14, <1>15, <1>16, <1>17, <2>1, <2>2

LEMMA DataKeeps ==
    ASSUME IInv, NEW batch \in Batches, DataEvent(batch)
    PROVE  IInv'
<1>1. PICK m \in {0, 1}, n \in 0 .. MaxRequests - sent :
         /\ batch \in Seq(InRecords) /\ Len(batch) \in Nat \ {0}
         /\ m = 1 <=> ssl = "handshake"
         /\ m = 1 => batch[1].kind = "hello"
         /\ \A i \in 1 .. Len(batch) : batch[i].kind = "hello" => i = 1 /\ m = 1
         /\ \A i \in 1 .. Len(batch) :
               batch[i].kind = "app" => i \in m + 1 .. m + n /\ batch[i].req = sent + i - m
         /\ Cardinality({i \in DOMAIN batch : batch[i].kind = "app"}) = n
  BY BatchFacts, ZenonT(60) DEF IInv
<1>2. PICK calls \in Seq(Calls) : calls = <<Call("read")>> /\ Names(calls) = {"read"}
  BY Pushed
<1>3. /\ LoopIdle /\ sock = "open" /\ sock' = sock /\ timer' = timer /\ entry' = entry /\ ssl' = ssl
      /\ writeBio' = writeBio /\ pending' = pending /\ fetched' = fetched
      /\ made' = made /\ wire' = wire /\ retries' = retries /\ failed' = failed /\ crashed' = crashed
      /\ readBio' = readBio \o batch
      /\ stack' = [stack EXCEPT ![Loop] = calls]
  BY <1>2 DEF DataEvent
<1>4. sent' = sent + n
  BY <1>1 DEF DataEvent
<1>5. overlapped' \in BOOLEAN
  BY DEF DataEvent, IInv, TypeOK
<1>6. /\ stack' \in [Threads -> Seq(Calls)] /\ stack'[Loop] = calls
      /\ \A r \in Reqs : stack'[r] = stack[r]
      /\ \A name : On(Loop, name)' <=> name = "read"
      /\ \A r \in Reqs : \A name : On(r, name)' <=> On(r, name)
      /\ \A name : ~On(Loop, name)
      /\ stack[Loop] = <<>> /\ ~crashed
  <2>1. stack[Loop] = <<>> /\ ~crashed /\ \A name : ~On(Loop, name)
    BY <1>3, IdleFacts
  <2>2. /\ stack' \in [Threads -> Seq(Calls)] /\ stack'[Loop] = calls
        /\ \A r \in Reqs : stack'[r] = stack[r]
        /\ \A name : On(Loop, name)' <=> name \in Names(calls)
        /\ \A r \in Reqs : \A name : On(r, name)' <=> On(r, name)
    BY <1>3, Begun DEF IInv
  <2>3. \A name : name \in Names(calls) <=> name = "read"
    BY <1>2
  <2> QED
    BY <2>1, <2>2, <2>3
<1>7. readBio \in Seq(InRecords) /\ sent \in Nat /\ MaxRequests \in Nat /\ sent <= MaxRequests
  BY MaxRequestsAssumption DEF IInv, TypeOK
<1>8. /\ readBio' \in Seq(InRecords)
      /\ Len(readBio') = Len(readBio) + Len(batch) /\ Len(readBio) \in Nat
      /\ \A i \in 1 .. Len(readBio) + Len(batch) :
            readBio'[i] = IF i <= Len(readBio) THEN readBio[i] ELSE batch[i - Len(readBio)]
  BY <1>1, <1>3, <1>7, ConcatProperties, LenProperties
<1>9. TypeOK'
  <2>1. sent' \in 0 .. MaxRequests
    BY <1>1, <1>4, <1>7
  <2>2. TypeOK
    BY DEF IInv
  <2> QED
    BY <1>3, <1>5, <1>6, <1>8, <2>1, <2>2 DEF TypeOK
<1>10. ShapeInv'
  <2>1. Len(calls) = 1 /\ calls[1].call = "read"
    BY <1>2, Singles, CallTypes
  <2> QED
    BY <1>6, <2>1 DEF ShapeInv, ShapeAt
<1>11. Counted' = Counted /\ Counted \in Nat /\ Counted <= sent
  <2>1. ~Counting' /\ ~Counting
    BY <1>6 DEF Counting
  <2>2. Counted' = Counted /\ Counted \in Nat
    BY <1>3, <2>1, EntryParts DEF Counted, IInv
  <2> QED
    BY <2>2 DEF CountInv, IInv
<1>12. ASSUME NEW i \in 1 .. Len(readBio'), readBio'[i].kind = "app"
       PROVE  \/ i \in 1 .. Len(readBio) /\ readBio'[i] = readBio[i] /\ IsApp(i) /\ readBio'[i].req \in Nat
                 /\ Counted < readBio'[i].req /\ readBio'[i].req <= sent
              \/ /\ i > Len(readBio)
                 /\ readBio'[i].req = sent + (i - Len(readBio)) - m
                 /\ i - Len(readBio) \in m + 1 .. m + n
  <2>1. CASE i <= Len(readBio)
    <3>1. i \in 1 .. Len(readBio) /\ readBio'[i] = readBio[i]
      BY <1>1, <1>8, <2>1
    <3>2. IsApp(i)
      BY <1>12, <3>1 DEF IsApp
    <3>3. readBio[i].req \in Nat /\ readBio[i].req > Counted /\ readBio[i].req <= sent
      BY <3>1, <3>2, RecordParts DEF CountInv, IInv
    <3> QED
      BY <1>11, <3>1, <3>2, <3>3
  <2>2. CASE i > Len(readBio)
    <3>1. i - Len(readBio) \in 1 .. Len(batch) /\ readBio'[i] = batch[i - Len(readBio)]
      BY <1>1, <1>8, <2>2
    <3> QED
      BY <1>1, <1>12, <2>2, <3>1
  <2> QED
    BY <1>8, <2>1, <2>2
<1>13. CountInv'
  <2>1. Counted' <= sent'
    BY <1>1, <1>4, <1>7, <1>11
  <2>2. ASSUME NEW i \in 1 .. Len(readBio'), readBio'[i].kind = "app"
        PROVE  readBio'[i].req > Counted /\ readBio'[i].req <= sent' /\ readBio'[i].req \in Nat
    <3>1. CASE readBio'[i].req \in Nat /\ Counted < readBio'[i].req /\ readBio'[i].req <= sent
      BY <1>1, <1>4, <1>7, <1>11, <3>1
    <3>2. CASE /\ readBio'[i].req = sent + (i - Len(readBio)) - m
               /\ i - Len(readBio) \in m + 1 .. m + n
      BY <1>1, <1>4, <1>7, <1>8, <1>11, <3>2
    <3> QED
      BY <1>12, <2>2, <3>1, <3>2
  <2>3. ASSUME NEW i \in 1 .. Len(readBio'), NEW j \in 1 .. Len(readBio'), i < j,
               readBio'[i].kind = "app", readBio'[j].kind = "app"
        PROVE  readBio'[i].req < readBio'[j].req
    <3>1. CASE j \in 1 .. Len(readBio)
      <4>1. i \in 1 .. Len(readBio) /\ readBio'[i] = readBio[i] /\ IsApp(i)
            /\ readBio'[j] = readBio[j] /\ IsApp(j)
        BY <1>8, <1>12, <2>3, <3>1
      <4> QED
        BY <2>3, <3>1, <4>1 DEF CountInv, IInv
    <3>2. CASE /\ readBio'[j].req = sent + (j - Len(readBio)) - m
               /\ j - Len(readBio) \in m + 1 .. m + n
      <4>1. readBio'[j].req > sent
        BY <1>1, <1>7, <1>8, <3>2
      <4>2. CASE readBio'[i].req \in Nat /\ readBio'[i].req <= sent
        BY <1>1, <1>7, <1>8, <3>2, <4>1, <4>2
      <4>3. CASE readBio'[i].req = sent + (i - Len(readBio)) - m
        BY <1>1, <1>7, <1>8, <2>3, <3>2, <4>3
      <4> QED
        BY <1>12, <2>3, <4>2, <4>3
    <3> QED
      BY <1>12, <2>3, <3>1, <3>2
  <2> QED
    BY <1>11, <2>1, <2>2, <2>3 DEF CountInv, IsApp
<1>14. ssl = "handshake" => readBio = <<>> /\ Len(readBio) = 0
  BY <1>6, Singles, CallTypes DEF HandshakeInv, IInv
<1>15. ASSUME ssl = "handshake"
       PROVE  readBio'[1].kind = "hello"
  <2>1. Len(readBio) = 0 /\ 1 \in 1 .. Len(readBio) + Len(batch) /\ 1 - Len(readBio) = 1
    BY <1>1, <1>14, <1>15
  <2>2. readBio'[1] = batch[1]
    BY <1>8, <2>1
  <2> QED
    BY <1>1, <1>15, <2>2
<1>16. ASSUME NEW i \in 1 .. Len(readBio'), readBio'[i].kind = "hello"
       PROVE  i = 1 /\ ssl = "handshake"
  <2>1. CASE i <= Len(readBio)
    <3>1. i \in 1 .. Len(readBio) /\ readBio[i].kind = "hello"
      BY <1>1, <1>8, <1>16, <2>1
    <3> QED
      BY <3>1 DEF HandshakeInv, IInv
  <2>2. CASE i > Len(readBio)
    <3>1. i - Len(readBio) \in 1 .. Len(batch) /\ readBio'[i] = batch[i - Len(readBio)]
      BY <1>1, <1>8, <2>2
    <3>2. i - Len(readBio) = 1 /\ ssl = "handshake"
      BY <1>1, <1>16, <3>1
    <3> QED
      BY <1>8, <1>14, <3>2
  <2> QED
    BY <1>8, <2>1, <2>2
<1>17. HandshakeInv'
  <2>1. ssl = "handshake" => fetched = {} /\ pending = <<>> /\ \A r \in Reqs : stack[r] = <<>>
    BY DEF HandshakeInv, IInv
  <2>2. stack'[Loop] = <<Call("read")>>
    BY <1>2, <1>6
  <2>3. ~On(Loop, "asyncWrite")' /\ ~On(Loop, "onRead")' /\ ~On(Loop, "count")'
    BY <1>6
  <2> QED
    BY <1>3, <1>6, <1>15, <1>16, <2>1, <2>2, <2>3 DEF HandshakeInv
<1>18. ClosingInv'
  <2>1. ~ClosesOn(Loop) /\ ~ClosesOn(Loop)' /\ \A r \in Reqs : ClosesOn(r)' <=> ClosesOn(r)
    BY <1>6 DEF ClosesOn
  <2>2. ~Closing /\ ~Closing'
    BY <1>3 DEF Closing
  <2>3. ssl \in {"handshake", "ready", "failed"}
    BY <2>1, <2>2 DEF ClosingInv, IInv, TypeOK
  <2> QED
    BY <1>3, <2>1, <2>2, <2>3 DEF ClosingInv, IInv
<1>19. EntryInv'
  BY <1>3 DEF EntryInv, Closing, Active, IInv
<1>20. LiveInv'
  BY <1>3, <1>6 DEF LiveInv, FailsOnLoop, IInv
<1> QED
  BY <1>9, <1>10, <1>13, <1>17, <1>18, <1>19, <1>20 DEF IInv

------------------------------------------------------------------------------
(* What SSL_read and its handlers keep                                      *)

LEMMA ReadFacts ==
    ASSUME IInv, readBio # <<>>
    PROVE  /\ Head(readBio) = readBio[1] /\ readBio[1] \in InRecords /\ 1 \in 1 .. Len(readBio)
           /\ Tail(readBio) \in Seq(InRecords)
           /\ \A i \in 1 .. Len(Tail(readBio)) :
                 i + 1 \in 1 .. Len(readBio) /\ i + 1 # 1 /\ Tail(readBio)[i] = readBio[i + 1]
           /\ \A i \in 1 .. Len(Tail(readBio)) : readBio[i + 1].kind # "hello"
<1>1. PICK b \in Seq(InRecords) : b = readBio
  BY DEF IInv, TypeOK
<1>2. Len(b) \in Nat \ {0} /\ Head(b) = b[1] /\ Tail(b) \in Seq(InRecords)
      /\ Len(Tail(b)) = Len(b) - 1 /\ \A i \in 1 .. Len(Tail(b)) : Tail(b)[i] = b[i + 1]
  BY <1>1, EmptySeq, HeadTailProperties
<1>3. \A i \in 1 .. Len(Tail(b)) : i + 1 \in 1 .. Len(b) /\ i + 1 # 1
  BY <1>2
<1>4. 1 \in 1 .. Len(b) /\ b[1] \in InRecords
  BY <1>2
<1>5. \A i \in 1 .. Len(b) : i # 1 => b[i].kind # "hello"
  BY <1>1 DEF HandshakeInv, IInv
<1> QED
  BY <1>1, <1>2, <1>3, <1>4, <1>5

\* When the requests that wait to be read are the same, or one less.
LEMMA ReadCount ==
    ASSUME IInv, TypeOK', sent' = sent,
           readBio' = readBio \/ (readBio # <<>> /\ readBio' = Tail(readBio)),
           Counted' <= sent,
           \A i \in 1 .. Len(readBio') : IsApp(i)' => readBio'[i].req > Counted'
    PROVE  CountInv'
<1>1. CASE readBio' = readBio
  BY <1>1 DEF CountInv, IsApp, IInv
<1>2. CASE readBio # <<>> /\ readBio' = Tail(readBio)
  <2>1. \A i \in 1 .. Len(readBio') : i + 1 \in 1 .. Len(readBio) /\ readBio'[i] = readBio[i + 1]
    BY <1>2, ReadFacts
  <2>2. \A i \in 1 .. Len(readBio') : IsApp(i)' <=> IsApp(i + 1)
    BY <2>1 DEF IsApp
  <2>3. \A i, j \in 1 .. Len(readBio') : i < j => i + 1 < j + 1
    BY DEF IInv, TypeOK
  <2> QED
    BY <2>1, <2>2, <2>3 DEF CountInv, IInv
<1> QED
  BY <1>1, <1>2

\* SSL_read that ends the loop: with an error, or to wait for more.
LEMMA ReadEnds ==
    ASSUME IInv, TypeOK', At(Loop, "read"), NEW calls \in Seq(Calls), Goes(Loop, calls),
           Names(calls) \subseteq {"close", "flushSslBuffer", "retry"},
           \/ readBio' = readBio /\ ssl' = ssl
           \/ readBio # <<>> /\ readBio' = Tail(readBio),
           ssl' = "handshake" => readBio' = <<>> /\ ssl = "handshake",
           \/ ssl' = ssl \/ ssl' = "failed"
           \/ ssl = "ready" /\ ssl' = "notified" /\ "close" \in Names(calls),
           sock' = sock, entry' = entry, pending' = pending, fetched' = fetched,
           sent' = sent, failed' = failed, crashed' = crashed
    PROVE  IInv'
<1>1. /\ stack[Loop] # <<>> /\ Head(stack[Loop]).call = "read"
      /\ \A name : ~Below(Loop, name)
  BY LoopFacts DEF At, IInv
<1>2. /\ \A name : On(Loop, name)' <=> name \in Names(calls)
      /\ \A name : On(Loop, name) <=> name = "read"
      /\ \A u \in Threads \ {Loop} : stack'[u] = stack[u]
      /\ \A u \in Threads \ {Loop} : \A name : On(u, name)' <=> On(u, name)
  BY <1>1, GoesOn, ThreadFacts DEF IInv
<1>3. ShapeInv'
  BY <1>1, ShapeBasic DEF IInv, Basic
<1>4. CountInv'
  <2>1. ~Counting' /\ ~Counting
    BY <1>2 DEF Counting
  <2>2. Counted' = Counted
    BY <2>1 DEF Counted
  <2>3. \A i \in 1 .. Len(readBio') : IsApp(i)' => readBio'[i].req > Counted
    <3>1. CASE readBio' = readBio
      BY <3>1 DEF CountInv, IsApp, IInv
    <3>2. CASE readBio # <<>> /\ readBio' = Tail(readBio)
      BY <3>2, ReadFacts DEF CountInv, IsApp, IInv
    <3> QED
      BY <3>1, <3>2
  <2>4. Counted <= sent
    BY DEF CountInv, IInv
  <2> QED
    BY <2>2, <2>3, <2>4, ReadCount
<1>5. HandshakeInv'
  <2>1. ~On(Loop, "asyncWrite")' /\ ~On(Loop, "onRead")' /\ ~On(Loop, "count")'
    BY <1>2
  <2>2. ASSUME NEW i \in 1 .. Len(readBio'), readBio'[i].kind = "hello"
        PROVE  i = 1 /\ ssl' = "handshake"
    <3>1. CASE readBio' = readBio /\ ssl' = ssl
      BY <2>2, <3>1 DEF HandshakeInv, IInv
    <3>2. CASE readBio # <<>> /\ readBio' = Tail(readBio)
      BY <2>2, <3>2, ReadFacts
    <3> QED
      BY <3>1, <3>2
  <2>3. ssl' = "handshake" => fetched' = {} /\ pending' = <<>> /\ \A r \in Reqs : stack'[r] = <<>>
    BY <1>2, ThreadFacts DEF HandshakeInv, IInv
  <2> QED
    BY <2>1, <2>2, <2>3 DEF HandshakeInv
<1>6. ClosingInv'
  <2>1. ssl \in {"handshake", "ready", "failed"}
    BY <1>2 DEF ClosingInv, IInv
  <2>2. ~On(Loop, "read")' /\ \A r \in Reqs : ClosesOn(r)' <=> ClosesOn(r)
    BY <1>2, ThreadFacts DEF ClosesOn
  <2>3. \A r \in Reqs : ClosesOn(r) => ssl = "failed" /\ ssl' = "failed"
    BY <2>1 DEF ClosingInv, IInv
  <2>4. "close" \in Names(calls) => ClosesOn(Loop)'
    BY <1>2 DEF ClosesOn
  <2> QED
    BY <2>1, <2>2, <2>3, <2>4 DEF ClosingInv
<1>7. EntryInv'
  BY <1>2 DEF EntryInv, Closing, Active, OverLimit, IInv
<1>8. LiveInv'
  BY <1>2 DEF LiveInv, FailsOnLoop, IInv
<1> QED
  BY <1>3, <1>4, <1>5, <1>6, <1>7, <1>8 DEF IInv

\* SSL_read that goes on: the end of the handshake.
LEMMA HelloKeeps ==
    ASSUME IInv, TypeOK', At(Loop, "read"), readBio # <<>>, readBio[1].kind = "hello",
           readBio' = Tail(readBio), ssl' = "ready", stack' = stack,
           sock' = sock, entry' = entry, pending' = pending, fetched' = fetched,
           sent' = sent, failed' = failed, crashed' = crashed
    PROVE  IInv'
<1>1. /\ stack[Loop] # <<>> /\ Head(stack[Loop]).call = "read"
      /\ \A name : ~Below(Loop, name)
  BY LoopFacts DEF At, IInv
<1>2. /\ ssl = "handshake" /\ stack[Loop] = <<Call("read")>>
      /\ \A r \in Reqs : stack[r] = <<>>
  BY ReadFacts DEF HandshakeInv, IInv
<1>3. \A t, name : On(t, name)' <=> On(t, name)
  BY DEF On
<1>4. \A name : On(Loop, name) <=> name = "read"
  BY <1>2, Singles, CallTypes DEF On
<1>5. ShapeInv'
  BY ShapeElsewhere DEF IInv
<1>6. CountInv'
  <2>1. Counted' = Counted
    BY <1>3 DEF Counted, Counting
  <2>2. \A i \in 1 .. Len(readBio') : IsApp(i)' => readBio'[i].req > Counted
    BY ReadFacts DEF CountInv, IsApp, IInv
  <2>3. Counted <= sent
    BY DEF CountInv, IInv
  <2> QED
    BY <2>1, <2>2, <2>3, ReadCount
<1>7. HandshakeInv'
  BY ReadFacts DEF HandshakeInv, IInv
<1>8. ClosingInv'
  <2>1. ASSUME NEW t \in Threads
        PROVE  ~ClosesOn(t)'
    <3>1. CASE t = Loop
      BY <1>3, <1>4, <3>1 DEF ClosesOn
    <3>2. CASE t \in Reqs
      BY <1>2, <1>3, <3>2 DEF ClosesOn, On
    <3> QED
      BY <3>1, <3>2 DEF Threads
  <2> QED
    BY <2>1, ThreadFacts DEF ClosingInv
<1>9. EntryInv'
  BY <1>2, <1>3, <1>4 DEF EntryInv, Closing, Active, OverLimit, IInv
<1>10. LiveInv'
  BY <1>3 DEF LiveInv, FailsOnLoop, IInv
<1> QED
  BY <1>5, <1>6, <1>7, <1>8, <1>9, <1>10 DEF IInv

\* SSL_read that hands a request to onRead.
LEMMA AppKeeps ==
    ASSUME IInv, TypeOK', At(Loop, "read"), Readable, readBio # <<>>, IsApp(1),
           NEW r \in Reqs, r = readBio[1].req,
           readBio' = Tail(readBio), Goes(Loop, <<OnReadOf(r), Call("read")>>),
           ssl' = ssl, sock' = sock, entry' = entry, pending' = pending, fetched' = fetched,
           sent' = sent, failed' = failed, crashed' = crashed
    PROVE  IInv'
<1>1. /\ stack[Loop] # <<>> /\ Head(stack[Loop]).call = "read"
      /\ Len(stack[Loop]) = 1 /\ \A name : ~Below(Loop, name)
  BY LoopFacts DEF At, IInv
<1>2. PICK calls \in Seq(Calls) :
         calls = <<OnReadOf(r), Call("read")>> /\ Names(calls) = {"onRead", "read"}
  BY Pushed
<1>3. /\ stack'[Loop] = calls \o Tail(stack[Loop])
      /\ \A name : On(Loop, name)' <=> name \in {"onRead", "read"}
      /\ \A name : On(Loop, name) <=> name = "read"
      /\ \A u \in Threads \ {Loop} : stack'[u] = stack[u]
      /\ \A u \in Threads \ {Loop} : \A name : On(u, name)' <=> On(u, name)
  BY <1>1, <1>2, GoesOn, ThreadFacts DEF IInv
<1>4. ssl = "ready"
  <2>1. ssl # "handshake"
    BY ReadFacts DEF HandshakeInv, IsApp, IInv
  <2>2. ssl \in {"handshake", "ready", "failed"}
    BY <1>3 DEF ClosingInv, IInv
  <2> QED
    BY <2>1, <2>2 DEF Readable
<1>5. ShapeInv'
  <2>1. PICK s \in Seq(Calls) : s = stack[Loop]
    BY ThreadFacts DEF IInv, TypeOK
  <2>2. /\ Len(calls) = 2 /\ calls[1].call = "onRead" /\ calls[2].call = "read"
    BY <1>2, CallTypes, Singles
  <2>3. /\ Len(calls \o Tail(s)) = 2
        /\ (calls \o Tail(s))[1] = calls[1] /\ (calls \o Tail(s))[2] = calls[2]
    <3>1. s # <<>> /\ Len(s) = 1 /\ s \in Seq(Calls) /\ calls \in Seq(Calls)
      BY <1>1, <2>1
    <3>2. /\ Len(calls \o Tail(s)) = Len(calls) + Len(s) - 1
          /\ \A i \in 1 .. Len(calls) : (calls \o Tail(s))[i] = calls[i]
      BY ONLY <3>1, Spliced
    <3>3. Len(calls) = 2
      BY <2>2
    <3> QED
      BY ONLY <3>1, <3>2, <3>3
  <2>4. PICK n : n = stack'[Loop]
    OBVIOUS
  <2>5. Len(n) = 2 /\ n[1].call = "onRead" /\ n[2].call = "read"
    BY <1>3, <2>1, <2>2, <2>3, <2>4
  <2>6. \A i \in 1 .. Len(n) : i = 1 \/ i = 2
    BY <2>5
  <2>7. \A i \in 1 .. Len(n) : ShapeAt(n, i)
    BY <2>5, <2>6 DEF ShapeAt
  <2> QED
    BY <2>4, <2>7 DEF ShapeInv
<1>6. CountInv'
  <2>1. Counting' /\ ~Counting
    BY <1>3 DEF Counting
  <2>2. entry.n_requests \in Nat /\ Counted = entry.n_requests /\ Counted' = entry.n_requests + 1
    BY <2>1, EntryParts DEF Counted, IInv
  <2>3. readBio[1].req > Counted /\ readBio[1].req <= sent /\ readBio[1].req \in Nat /\ sent \in Nat
    BY ReadFacts, RecordParts, MaxRequestsAssumption, SMTT(30) DEF CountInv, IInv, TypeOK
  <2>4. Counted' <= sent
    BY <2>2, <2>3
  <2>5. ASSUME NEW i \in 1 .. Len(readBio'), IsApp(i)'
        PROVE  readBio'[i].req > Counted'
    <3>1. i + 1 \in 1 .. Len(readBio) /\ readBio'[i] = readBio[i + 1] /\ 1 < i + 1
      BY ReadFacts
    <3>2. IsApp(i + 1)
      BY <2>5, <3>1 DEF IsApp
    <3>3. readBio[1].req < readBio[i + 1].req /\ readBio[i + 1].req \in Nat
      BY <3>1, <3>2, ReadFacts, RecordParts DEF CountInv, IInv
    <3>4. readBio[1].req >= entry.n_requests + 1
      BY <2>2, <2>3
    <3> QED
      BY ONLY <2>2, <2>3, <3>1, <3>3, <3>4
  <2> QED
    BY <2>4, <2>5, ReadCount
<1>7. HandshakeInv'
  BY <1>4, ReadFacts DEF HandshakeInv, IInv
<1>8. ClosingInv'
  <2>1. ~ClosesOn(Loop)' /\ \A q \in Reqs : ClosesOn(q)' <=> ClosesOn(q)
    BY <1>3, ThreadFacts DEF ClosesOn
  <2> QED
    BY <1>4, <2>1 DEF ClosingInv, IInv
<1>9. EntryInv'
  BY <1>3 DEF EntryInv, Closing, Active, OverLimit, IInv
<1>10. LiveInv'
  BY <1>4 DEF LiveInv, FailsOnLoop, IInv
<1> QED
  BY <1>5, <1>6, <1>7, <1>8, <1>9, <1>10 DEF IInv

LEMMA SslReadKeeps ==
    ASSUME IInv, SslRead
    PROVE  IInv'
<1>1. /\ At(Loop, "read")
      /\ sock' = sock /\ timer' = timer /\ entry' = entry /\ pending' = pending /\ fetched' = fetched
      /\ sent' = sent /\ wire' = wire /\ retries' = retries /\ failed' = failed
      /\ overlapped' = overlapped /\ crashed' = crashed
  BY DEF SslRead
<1>2. TypeOK
  BY DEF IInv
<1>3. stack[Loop] # <<>>
  BY <1>1 DEF At
<1>4. ASSUME stack' \in [Threads -> Seq(Calls)], readBio' \in Seq(InRecords),
             ssl' \in {"handshake", "ready", "notified", "shutdown", "over", "failed"},
             made' \in Seq(OutRecords), writeBio' \in Seq(OutRecords)
      PROVE  TypeOK'
  BY <1>1, <1>2, <1>4 DEF TypeOK
<1>5. made \in Seq(OutRecords) /\ writeBio \in Seq(OutRecords) /\ readBio \in Seq(InRecords)
      /\ ssl \in {"handshake", "ready", "notified", "shutdown", "over", "failed"}
  BY <1>2 DEF TypeOK
<1>6. PICK closes \in Seq(Calls) : closes = <<Call("close")>> /\ Names(closes) = {"close"}
  BY Pushed
<1>7. CASE ~Readable /\ Goes(Loop, closes) /\ ssl' = ssl /\ readBio' = readBio /\ made' = made /\ writeBio' = writeBio
  <2>1. TypeOK'
    BY <1>2, <1>3, <1>4, <1>5, <1>7, GoesOn, ThreadFacts
  <2>2. ssl # "handshake"
    BY <1>7 DEF Readable
  <2> QED
    BY <1>1, <1>6, <1>7, <2>1, <2>2, ReadEnds
<1>8. CASE Readable /\ readBio = <<>> /\ Goes(Loop, FlushCalls) /\ ssl' = ssl /\ readBio' = readBio
           /\ made' = made /\ writeBio' = writeBio
  <2>1. PICK calls \in Seq(Calls) : calls = FlushCalls /\ Names(calls) = {"flushSslBuffer", "retry"}
    BY Pushed
  <2>2. TypeOK'
    BY <1>2, <1>3, <1>4, <1>5, <1>8, <2>1, GoesOn, ThreadFacts
  <2> QED
    BY <1>1, <1>8, <2>1, <2>2, ReadEnds
<1>9. CASE Readable /\ readBio # <<>> /\ readBio' = Tail(readBio)
  <2>1. readBio' \in Seq(InRecords) /\ Head(readBio) = readBio[1]
    BY <1>9, ReadFacts
  <2>2. CASE readBio[1].kind = "hello" /\ ssl' = "ready" /\ Make(Control("hello")) /\ stack' = stack
    <3>1. stack' \in [Threads -> Seq(Calls)]
      BY <1>2, <2>2 DEF TypeOK
    <3>2. TypeOK'
      BY <1>2, <1>4, <2>1, <2>2, <3>1, MakeType, RecordTypes
    <3> QED
      BY <1>1, <1>9, <2>2, <3>2, HelloKeeps
  <2>3. CASE /\ readBio[1].kind = "app" /\ Goes(Loop, <<OnReadOf(readBio[1].req), Call("read")>>)
             /\ ssl' = ssl /\ made' = made /\ writeBio' = writeBio
    <3>1. IsApp(1) /\ readBio[1].req \in Reqs
      BY <1>2, <1>9, <2>3, ReadFacts, RecordParts DEF IsApp
    <3>2. TypeOK'
      <4>1. PICK calls \in Seq(Calls) : calls = <<OnReadOf(readBio[1].req), Call("read")>>
        BY <3>1, Pushed
      <4> QED
        BY <1>2, <1>3, <1>4, <1>5, <2>1, <2>3, <4>1, GoesOn, ThreadFacts
    <3> QED
      BY <1>1, <1>9, <2>3, <3>1, <3>2, AppKeeps
  <2>4. CASE /\ readBio[1].kind = "notify" /\ ssl' = IF ssl = "shutdown" THEN "over" ELSE "notified"
             /\ Goes(Loop, closes) /\ made' = made /\ writeBio' = writeBio
    <3>1. TypeOK'
      BY <1>2, <1>3, <1>4, <1>5, <2>1, <2>4, GoesOn, ThreadFacts
    <3>2. ssl = "ready"
      <4>1. ssl # "handshake"
        BY <1>9, <2>4 DEF HandshakeInv, IInv
      <4>2. On(Loop, "read")
        BY <1>1, <1>2, <1>3, <1>6, <2>4, GoesOn, ThreadFacts DEF At
      <4> QED
        BY <1>9, <4>1, <4>2 DEF Readable, ClosingInv, IInv
    <3> QED
      BY <1>1, <1>6, <1>9, <2>4, <3>1, <3>2, ReadEnds
  <2>5. CASE readBio[1].kind = "bad" /\ ssl' = "failed" /\ Make(Control("alert")) /\ Goes(Loop, closes)
    <3>1. TypeOK'
      <4>1. made' \in Seq(OutRecords) /\ writeBio' \in Seq(OutRecords)
        BY <1>2, <2>5, MakeType, RecordTypes
      <4> QED
        BY <1>2, <1>3, <1>4, <2>1, <2>5, <4>1, GoesOn, ThreadFacts
    <3> QED
      BY <1>1, <1>6, <1>9, <2>5, <3>1, ReadEnds
  <2> QED
    BY <1>6, <1>9, <2>1, <2>2, <2>3, <2>4, <2>5 DEF SslRead
<1> QED
  BY <1>6, <1>7, <1>8, <1>9 DEF SslRead

------------------------------------------------------------------------------
(* What onRead and the workers keep                                         *)

\* onRead that goes on to count; it may start a worker or leave a file to be
\* fetched, after the timer was found.
LEMMA OnReadGoes ==
    ASSUME IInv, TypeOK', At(Loop, "onRead"), NEW calls \in Seq(Calls),
           Names(calls) \subseteq {"asyncWrite", "count"}, "count" \in Names(calls),
           \A i \in 1 .. Len(calls) : calls[i].call = "count" => i = Len(calls),
           stack'[Loop] = calls \o Tail(stack[Loop]),
           \A r \in Reqs : stack'[r] = stack[r] \/ ~ClosesOn(r)',
           ssl' = ssl, sock' = sock, entry' = entry, pending' = pending, readBio' = readBio,
           sent' = sent, failed' = failed, crashed' = crashed
    PROVE  IInv'
<1>1. PICK s \in Seq(Calls) : s = stack[Loop]
  BY ThreadFacts DEF IInv, TypeOK
<1>2. s # <<>> /\ s[1].call = "onRead" /\ Len(s) = 2 /\ s[2].call = "read"
  BY <1>1, LoopFacts DEF At, IInv
<1>3. PICK n \in Seq(Calls) : n = calls \o Tail(s) /\ n = stack'[Loop]
  BY <1>1, <1>2, Spliced
<1>4. /\ Len(n) = Len(calls) + 1 /\ Len(calls) \in Nat
      /\ \A i \in 1 .. Len(calls) : n[i] = calls[i]
      /\ n[Len(calls) + 1] = s[2]
  <2>1. /\ Len(n) = Len(calls) + Len(s) - 1 /\ Len(calls) \in Nat
        /\ \A i \in 1 .. Len(calls) : n[i] = calls[i]
        /\ \A i \in 2 .. Len(s) : n[Len(calls) + i - 1] = s[i]
    <3>1. /\ Len(calls \o Tail(s)) = Len(calls) + Len(s) - 1 /\ Len(calls) \in Nat
          /\ \A i \in 1 .. Len(calls) : (calls \o Tail(s))[i] = calls[i]
          /\ \A i \in 2 .. Len(s) : (calls \o Tail(s))[Len(calls) + i - 1] = s[i]
      <4>1. s # <<>> /\ s \in Seq(Calls) /\ calls \in Seq(Calls)
        BY <1>2
      <4> QED
        BY ONLY <4>1, Spliced
    <3> QED
      BY <1>3, <3>1
  <2>2. 2 \in 2 .. Len(s) /\ Len(calls) + 2 - 1 = Len(calls) + 1 /\ Len(calls) + Len(s) - 1 = Len(calls) + 1
    BY <1>2, <2>1
  <2> QED
    BY <2>1, <2>2
<1>5. \A i \in 1 .. Len(n) : i \in 1 .. Len(calls) \/ i = Len(calls) + 1
  BY <1>4
<1>6. \A i \in 1 .. Len(calls) : i \in 1 .. Len(n)
  BY <1>4
<1>7. Len(calls) + 1 \in 1 .. Len(n)
  BY <1>4
<1>8. On(Loop, "onRead") /\ On(Loop, "read")
  <2>1. 1 \in 1 .. Len(s) /\ 2 \in 1 .. Len(s)
    BY <1>2
  <2> QED
    BY <1>1, <1>2, <2>1 DEF On
<1>9. \A name : On(Loop, name)' <=> name \in Names(calls) \/ name = "read"
  <2> SUFFICES ASSUME NEW name
               PROVE  On(Loop, name)' <=> name \in Names(calls) \/ name = "read"
    OBVIOUS
  <2>1. On(Loop, name)' <=> \E i \in 1 .. Len(n) : n[i].call = name
    BY <1>3 DEF On
  <2>2. name \in Names(calls) <=> \E i \in 1 .. Len(calls) : calls[i].call = name
    BY DEF Names
  <2>3. n[Len(calls) + 1].call = "read"
    BY <1>2, <1>4
  <2>4. \A i \in 1 .. Len(calls) : n[i] = calls[i]
    BY <1>4
  <2> QED
    BY ONLY <2>1, <2>2, <2>3, <2>4, <1>5, <1>6, <1>7
<1>10. /\ ssl # "handshake"
       /\ ~On(Loop, "close")' /\ ~On(Loop, "closeSocket")' /\ ~On(Loop, "onRead")'
  <2>1. ssl # "handshake"
    BY <1>8 DEF HandshakeInv, IInv
  <2>2. "close" \notin Names(calls) /\ "closeSocket" \notin Names(calls) /\ "onRead" \notin Names(calls)
    OBVIOUS
  <2> QED
    BY <1>9, <2>1, <2>2
<1>11. ShapeInv'
  <2>1. ASSUME NEW i \in 1 .. Len(n)
        PROVE  ShapeAt(n, i)
    <3>1. CASE i \in 1 .. Len(calls) /\ calls[i].call = "asyncWrite"
      BY <1>4, <3>1 DEF ShapeAt, Basic
    <3>2. CASE i \in 1 .. Len(calls) /\ calls[i].call = "count"
      <4>1. i + 1 = Len(n) /\ n[i + 1].call = "read" /\ n[i].call = "count"
        BY <1>2, <1>4, <3>2
      <4> QED
        BY <4>1 DEF ShapeAt
    <3>3. CASE i = Len(calls) + 1
      BY <1>2, <1>4, <3>3 DEF ShapeAt
    <3>4. i \in 1 .. Len(calls) => calls[i].call \in {"asyncWrite", "count"}
      BY DEF Names
    <3> QED
      BY <1>5, <3>1, <3>2, <3>3, <3>4
  <2> QED
    BY <1>3, <2>1 DEF ShapeInv
<1>12. CountInv'
  <2>1. Counting' /\ Counting
    BY <1>8, <1>9 DEF Counting
  <2>2. Counted' = Counted
    BY <2>1 DEF Counted
  <2> QED
    BY <2>2 DEF CountInv, IsApp, IInv
<1>13. HandshakeInv'
  BY <1>10 DEF HandshakeInv, IInv
<1>14. ClosingInv'
  <2>1. ~ClosesOn(Loop)'
    BY <1>10 DEF ClosesOn
  <2>2. ssl \in {"handshake", "ready", "failed"}
    BY <1>8 DEF ClosingInv, IInv
  <2>3. ASSUME NEW r \in Reqs, ClosesOn(r)'
        PROVE  ssl \in {"shutdown", "over", "failed"}
    <3>1. stack'[r] = stack[r]
      BY <2>3
    <3>2. ClosesOn(r)
      BY <2>3, <3>1 DEF ClosesOn, On
    <3> QED
      BY <3>2 DEF ClosingInv, IInv
  <2> QED
    BY <2>1, <2>2, <2>3 DEF ClosingInv
<1>15. EntryInv'
  BY <1>8, <1>9 DEF EntryInv, Closing, Active, OverLimit, IInv
<1>16. LiveInv'
  BY <1>10 DEF LiveInv, FailsOnLoop, IInv
<1> QED
  BY <1>11, <1>12, <1>13, <1>14, <1>15, <1>16 DEF IInv

\* The timer of the entry is null: only after SSL_write failed on a worker.
LEMMA CrashKeeps ==
    ASSUME IInv, TypeOK', At(Loop, "onRead"), ~entry.timeout, crashed',
           stack' = stack, fetched' = fetched, ssl' = ssl, sock' = sock, entry' = entry,
           pending' = pending, readBio' = readBio, sent' = sent, failed' = failed
    PROVE  IInv'
<1>1. On(Loop, "onRead") /\ On(Loop, "read")
  <2>1. PICK s \in Seq(Calls) : s = stack[Loop]
    BY ThreadFacts DEF IInv, TypeOK
  <2>2. s[1].call = "onRead" /\ Len(s) = 2 /\ s[2].call = "read"
    BY <2>1, LoopFacts DEF At, IInv
  <2>3. 1 \in 1 .. Len(s) /\ 2 \in 1 .. Len(s)
    BY <2>2
  <2> QED
    BY <2>1, <2>2, <2>3 DEF On
<1>2. \A t, name : On(t, name)' <=> On(t, name)
  BY DEF On
<1>3. ssl # "ready"
  BY <1>1 DEF EntryInv, IInv
<1>4. ~FailsOnLoop'
  BY <1>1, <1>3 DEF LiveInv, FailsOnLoop, IInv
<1>5. ShapeInv'
  BY ShapeElsewhere DEF IInv
<1>6. CountInv'
  BY <1>2 DEF CountInv, Counted, Counting, IsApp, IInv
<1>7. HandshakeInv'
  BY <1>2 DEF HandshakeInv, IInv
<1>8. ClosingInv'
  BY <1>2 DEF ClosingInv, ClosesOn, Closing, IInv
<1>9. EntryInv'
  BY <1>2 DEF EntryInv, Closing, Active, OverLimit, IInv
<1>10. LiveInv'
  BY <1>4 DEF LiveInv
<1> QED
  BY <1>5, <1>6, <1>7, <1>8, <1>9, <1>10 DEF IInv

LEMMA OnReadKeeps ==
    ASSUME IInv, OnRead
    PROVE  IInv'
<1>1. /\ At(Loop, "onRead")
      /\ sock' = sock /\ entry' = entry /\ ssl' = ssl /\ readBio' = readBio /\ writeBio' = writeBio
      /\ pending' = pending /\ sent' = sent /\ made' = made /\ wire' = wire /\ retries' = retries
      /\ failed' = failed /\ overlapped' = overlapped
  BY DEF OnRead
<1>2. TypeOK /\ stack[Loop] # <<>>
  BY <1>1 DEF IInv, At
<1>3. PICK r \in Reqs : r = Head(stack[Loop]).req
  BY <1>1, <1>2, HeadCall, CallParts, ThreadFacts DEF At
<1>4. ASSUME stack' \in [Threads -> Seq(Calls)], timer' \in {"none", "armed", "fired"},
             crashed' \in BOOLEAN, fetched' \subseteq Reqs
      PROVE  TypeOK'
  BY <1>1, <1>2, <1>4 DEF TypeOK
<1>5. fetched \subseteq Reqs /\ timer \in {"none", "armed", "fired"} /\ crashed \in BOOLEAN
      /\ stack \in [Threads -> Seq(Calls)]
  BY <1>2 DEF TypeOK
<1>6. CASE ~entry.timeout /\ crashed' = TRUE /\ timer' = timer /\ stack' = stack /\ fetched' = fetched
  BY <1>1, <1>4, <1>5, <1>6, CrashKeeps
<1>7. PICK count \in Seq(Calls) :
         /\ count = <<Call("count")>> /\ Names(count) = {"count"} /\ Len(count) = 1
  BY Pushed, CallTypes, Singles
<1>8. CASE timer' = "armed" /\ crashed' = crashed /\ Goes(Loop, count) /\ fetched' \in {fetched, fetched \cup {r}}
  <2>1. /\ stack' \in [Threads -> Seq(Calls)]
        /\ stack'[Loop] = count \o Tail(stack[Loop])
        /\ \A u \in Reqs : stack'[u] = stack[u]
    BY <1>2, <1>8, GoesOn, ThreadFacts
  <2>2. TypeOK'
    BY <1>4, <1>5, <1>8, <2>1
  <2>3. \A i \in 1 .. Len(count) : i = Len(count)
    BY <1>7
  <2> QED
    BY <1>1, <1>7, <1>8, <2>1, <2>2, <2>3, OnReadGoes
<1>9. CASE /\ timer' = "armed" /\ crashed' = crashed /\ fetched' = fetched
           /\ Goes(Loop, <<AsyncWriteOf([req |-> r, part |-> "whole"]), Call("count")>>)
  <2>1. PICK a \in Answers : a = [req |-> r, part |-> "whole"]
    BY DEF Answers
  <2>2. PICK calls \in Seq(Calls) :
           /\ calls = <<AsyncWriteOf(a), Call("count")>> /\ Names(calls) = {"asyncWrite", "count"}
    BY Pushed
  <2>3. Len(calls) = 2 /\ calls[1].call = "asyncWrite"
    BY <2>2, CallTypes, Singles
  <2>4. /\ stack' \in [Threads -> Seq(Calls)]
        /\ stack'[Loop] = calls \o Tail(stack[Loop])
        /\ \A u \in Reqs : stack'[u] = stack[u]
    BY <1>2, <1>9, <2>1, <2>2, GoesOn, ThreadFacts
  <2>5. TypeOK'
    BY <1>4, <1>5, <1>9, <2>4
  <2>6. \A i \in 1 .. Len(calls) : calls[i].call = "count" => i = Len(calls)
    BY <2>3
  <2> QED
    BY <1>1, <1>9, <2>2, <2>4, <2>5, <2>6, OnReadGoes
<1>10. CASE /\ timer' = "armed" /\ crashed' = crashed /\ fetched' = fetched
            /\ stack' = [stack EXCEPT ![Loop] = <<Call("count")>> \o Tail(@),
                                      ![r] = <<Call("route"), Call("respond")>>]
  <2>1. PICK work \in Seq(Calls) : /\ work = <<Call("route"), Call("respond")>>
                                   /\ Names(work) = {"route", "respond"}
    BY Pushed
  <2>2. PICK n \in Seq(Calls) : n = count \o Tail(stack[Loop])
    BY <1>2, <1>5, <1>7, Spliced, ThreadFacts
  <2>3. stack' = [stack EXCEPT ![Loop] = n, ![r] = work]
    BY <1>7, <1>10, <2>1, <2>2
  <2>4. /\ stack' \in [Threads -> Seq(Calls)] /\ stack'[Loop] = n /\ stack'[r] = work
        /\ \A u \in Reqs : u # r => stack'[u] = stack[u]
    BY <1>5, <2>3, ThreadFacts
  <2>5. ~ClosesOn(r)'
    BY <2>1, <2>4 DEF ClosesOn, On, Names
  <2>6. TypeOK'
    BY <1>4, <1>5, <1>10, <2>4
  <2>7. \A i \in 1 .. Len(count) : i = Len(count)
    BY <1>7
  <2>8. \A u \in Reqs : stack'[u] = stack[u] \/ ~ClosesOn(u)'
    BY <2>4, <2>5
  <2> QED
    BY <1>1, <1>7, <1>10, <2>2, <2>4, <2>6, <2>7, <2>8, OnReadGoes
<1> QED
  BY <1>3, <1>6, <1>7, <1>8, <1>9, <1>10 DEF OnRead

LEMMA CountKeeps ==
    ASSUME IInv, CountRequest
    PROVE  IInv'
<1>1. /\ At(Loop, "count") /\ Goes(Loop, <<>>)
      /\ timer' = timer /\ ssl' = ssl /\ readBio' = readBio /\ writeBio' = writeBio
      /\ pending' = pending /\ fetched' = fetched /\ sent' = sent /\ made' = made /\ wire' = wire
      /\ retries' = retries /\ failed' = failed /\ overlapped' = overlapped /\ crashed' = crashed
  BY DEF CountRequest
<1>2. TypeOK /\ stack[Loop] # <<>> /\ Head(stack[Loop]).call = "count"
  BY <1>1 DEF IInv, At
<1>3. /\ \A name : Below(Loop, name) <=> name = "read"
  BY <1>2, LoopFacts DEF IInv
<1>4. /\ stack' \in [Threads -> Seq(Calls)]
      /\ \A name : On(Loop, name)' <=> name = "read"
      /\ \A name : On(Loop, name) <=> name = "count" \/ name = "read"
      /\ \A u \in Reqs : stack'[u] = stack[u]
      /\ \A u \in Reqs : \A name : On(u, name)' <=> On(u, name)
  <2>1. PICK calls \in Seq(Calls) : calls = <<>> /\ Names(calls) = {}
    BY Pushed
  <2>2. /\ stack' \in [Threads -> Seq(Calls)]
        /\ \A name : On(Loop, name)' <=> name \in Names(calls) \/ Below(Loop, name)
        /\ \A name : On(Loop, name) <=> name = "count" \/ Below(Loop, name)
        /\ \A u \in Threads \ {Loop} : stack'[u] = stack[u]
        /\ \A u \in Threads \ {Loop} : \A name : On(u, name)' <=> On(u, name)
    BY <1>1, <1>2, <2>1, GoesOn, ThreadFacts
  <2>3. \A name : name \notin Names(calls)
    BY <2>1
  <2> QED
    BY <1>3, <2>2, <2>3, ThreadFacts
<1>5. PICK counted : counted = [EntryAt EXCEPT !.n_requests = @ + 1]
  OBVIOUS
<1>6. /\ entry' = counted
      /\ sock' = IF OverLimit(counted) /\ ~Closing THEN "closing" ELSE sock
  BY <1>5 DEF CountRequest, LeftAtLimit
<1>7. /\ counted.n_requests = entry.n_requests + 1 /\ counted.timeout = entry.timeout
      /\ counted.present = TRUE /\ entry.n_requests \in Nat
      /\ counted = [present |-> TRUE, timeout |-> entry.timeout, n_requests |-> entry.n_requests + 1]
  BY <1>2, <1>5, EntryParts DEF EntryAt, TypeOK, Entries
<1>8. Counting /\ ~Counting'
  BY <1>4 DEF Counting
<1>9. Counted = entry.n_requests + 1 /\ Counted' = entry.n_requests + 1 /\ Counted <= sent
  BY <1>6, <1>7, <1>8 DEF Counted, CountInv, IInv
<1>10. TypeOK'
  <2>1. sent \in 0 .. MaxRequests /\ MaxRequests \in Nat /\ entry.timeout \in BOOLEAN
    BY <1>2, EntryParts, MaxRequestsAssumption DEF TypeOK
  <2>2. entry.n_requests + 1 \in 0 .. MaxRequests
    BY <1>7, <1>9, <2>1
  <2>3. entry' \in Entries
    BY <1>6, <1>7, <2>1, <2>2 DEF Entries
  <2>4. sock' \in {"new", "open", "eof", "closing", "closed"}
    BY <1>2, <1>6 DEF TypeOK
  <2> QED
    BY <1>1, <1>2, <1>4, <2>3, <2>4 DEF TypeOK
<1>11. ShapeInv'
  BY <1>1, <1>2, Pushed, ShapeBasic DEF IInv
<1>12. CountInv'
  <2>1. Counted' = Counted
    BY <1>9
  <2> QED
    BY <1>1, <2>1 DEF CountInv, IsApp, IInv
<1>13. HandshakeInv'
  <2>1. ssl # "handshake"
    BY <1>4 DEF HandshakeInv, IInv
  <2> QED
    BY <1>1, <2>1 DEF HandshakeInv, IInv
<1>14. Closing => Closing'
  BY <1>6 DEF Closing
<1>15. ClosingInv'
  <2>1. ~ClosesOn(Loop)' /\ ~ClosesOn(Loop) /\ \A r \in Reqs : ClosesOn(r)' <=> ClosesOn(r)
    BY <1>4 DEF ClosesOn
  <2> QED
    BY <1>1, <1>4, <1>14, <2>1 DEF ClosingInv, IInv
<1>16. EntryInv'
  <2>1. OverLimit(entry) => OverLimit(counted)
    BY <1>7, MaxKeepAliveAssumption DEF OverLimit
  <2>2. Closing' => Closing \/ OverLimit(counted)
    BY <1>6 DEF Closing
  <2>3. Active' => Active
    BY <1>6 DEF Active
  <2>4. OverLimit(entry)' <=> OverLimit(counted)
    BY <1>6 DEF OverLimit
  <2>5. entry'.timeout = entry.timeout
    BY <1>6, <1>7
  <2> QED
    BY <1>1, <1>4, <2>1, <2>2, <2>3, <2>4, <2>5 DEF EntryInv, IInv
<1>17. LiveInv'
  BY <1>1, <1>4 DEF LiveInv, FailsOnLoop, IInv
<1> QED
  BY <1>10, <1>11, <1>12, <1>13, <1>15, <1>16, <1>17 DEF IInv

\* A worker takes up its task: the entry and its answer.
LEMMA WorkerKeeps ==
    ASSUME IInv, NEW r \in Reqs, Route(r) \/ Respond(r)
    PROVE  IInv'
<1>1. PICK a \in Answers : a = [req |-> r, part |-> "whole"]
  BY DEF Answers
<1>2. /\ stack[r] # <<>>
      /\ sock' = sock /\ timer' = timer /\ ssl' = ssl /\ readBio' = readBio /\ writeBio' = writeBio
      /\ pending' = pending /\ fetched' = fetched /\ sent' = sent /\ made' = made /\ wire' = wire
      /\ retries' = retries /\ failed' = failed /\ overlapped' = overlapped /\ crashed' = crashed
  BY DEF Route, Respond, At
<1>3. PICK calls \in Seq(Calls) : Goes(r, calls) /\ Names(calls) \subseteq {"asyncWrite"}
  <2>1. CASE Goes(r, <<>>)
    BY <2>1, Pushed
  <2>2. CASE Goes(r, <<AsyncWriteOf(a)>>)
    BY <2>2, Pushed
  <2>3. Goes(r, <<>>) \/ Goes(r, <<AsyncWriteOf(a)>>)
    BY <1>1 DEF Route, Respond
  <2> QED
    BY <2>1, <2>2, <2>3
<1>4. TypeOK /\ r \in Threads /\ r # Loop
  BY ThreadFacts DEF IInv
<1>5. /\ stack' \in [Threads -> Seq(Calls)]
      /\ stack'[Loop] = stack[Loop]
      /\ \A name : On(r, name)' <=> name \in Names(calls) \/ Below(r, name)
      /\ \A name : Below(r, name) => On(r, name)
      /\ \A u \in Threads \ {r} : \A name : On(u, name)' <=> On(u, name)
  BY <1>2, <1>3, <1>4, GoesOn, ThreadFacts
<1>6. /\ entry' \in Entries /\ entry'.timeout = entry.timeout /\ entry'.n_requests = entry.n_requests
  <2>1. CASE entry' = entry
    BY <1>4, <2>1 DEF TypeOK
  <2>2. CASE entry' = EntryAt
    BY <1>4, <2>2 DEF TypeOK, Entries, EntryAt
  <2> QED
    BY <2>1, <2>2 DEF Route, Respond
<1>7. \A name : On(Loop, name)' <=> On(Loop, name)
  BY <1>4, <1>5, ThreadFacts
<1>8. TypeOK'
  BY <1>2, <1>4, <1>5, <1>6 DEF TypeOK
<1>9. ShapeInv'
  BY <1>5, ShapeElsewhere DEF IInv
<1>10. CountInv'
  <2>1. Counted' = Counted
    BY <1>6, <1>7 DEF Counted, Counting
  <2> QED
    BY <1>2, <2>1 DEF CountInv, IsApp, IInv
<1>11. HandshakeInv'
  <2>1. ssl # "handshake"
    BY <1>2 DEF HandshakeInv, IInv
  <2> QED
    BY <1>2, <2>1 DEF HandshakeInv, IInv
<1>12. ClosingInv'
  <2>1. \A u \in Threads : ClosesOn(u)' => ClosesOn(u)
    BY <1>3, <1>5 DEF ClosesOn
  <2>2. ClosesOn(Loop)' <=> ClosesOn(Loop)
    BY <1>7 DEF ClosesOn
  <2>3. Closing' <=> Closing
    BY <1>2 DEF Closing
  <2> QED
    BY <1>2, <1>7, <2>1, <2>2, <2>3, ThreadFacts DEF ClosingInv, IInv
<1>13. EntryInv'
  BY <1>2, <1>6, <1>7 DEF EntryInv, Closing, Active, OverLimit, IInv
<1>14. LiveInv'
  BY <1>2, <1>7 DEF LiveInv, FailsOnLoop, IInv
<1> QED
  BY <1>8, <1>9, <1>10, <1>11, <1>12, <1>13, <1>14 DEF IInv

------------------------------------------------------------------------------
(***************************************************************************)
(* The theorems                                                            *)
(***************************************************************************)

LEMMA Starts ==
    ASSUME Init
    PROVE  IInv
<1>1. /\ sock = "new" /\ timer = "none" /\ entry = NoEntry /\ ssl = "handshake"
      /\ readBio = <<>> /\ writeBio = <<>> /\ pending = <<>> /\ fetched = {} /\ sent = 0
      /\ made = <<>> /\ wire = <<>> /\ retries = 0 /\ failed = <<>>
      /\ overlapped = FALSE /\ crashed = FALSE
      /\ stack = [t \in Threads |-> <<>>]
  BY DEF Init
<1>2. stack \in [Threads -> Seq(Calls)] /\ \A t \in Threads : stack[t] = <<>>
  BY <1>1, Pushed
<1>3. \A t \in Threads : \A name : ~On(t, name)
  BY <1>2 DEF On
<1>4. TypeOK
  <2>1. 0 \in 0 .. MaxRequests /\ 0 \in 0 .. MaxRetries
    BY MaxRequestsAssumption, FaultsAssumption
  <2> QED
    BY <1>1, <1>2, <2>1, EmptySeq, RecordTypes DEF TypeOK
<1>5. ShapeInv
  BY <1>2, ThreadFacts DEF ShapeInv
<1>6. CountInv
  <2>1. Counted = 0
    BY <1>1, <1>3, ThreadFacts DEF Counted, Counting, NoEntry
  <2> QED
    BY <1>1, <2>1 DEF CountInv
<1>7. HandshakeInv
  BY <1>1, <1>2, <1>3, ThreadFacts DEF HandshakeInv
<1>8. ClosingInv
  BY <1>1, <1>3, ThreadFacts DEF ClosingInv, ClosesOn
<1>9. EntryInv
  BY <1>1, <1>3, ThreadFacts DEF EntryInv, Closing, Active, NoEntry
<1>10. LiveInv
  BY <1>1, <1>3, ThreadFacts DEF LiveInv
<1> QED
  BY <1>4, <1>5, <1>6, <1>7, <1>8, <1>9, <1>10 DEF IInv

LEMMA NextKeeps ==
    ASSUME IInv, [Next]_vars
    PROVE  IInv'
<1>1. CASE Event
  BY <1>1, ListenKeeps, DataKeeps, EndKeeps, CloseCallKeeps, AsyncKeeps DEF Event
<1>2. CASE LoopStep
  BY <1>2, StepKeeps, SslReadKeeps, OnReadKeeps, CountKeeps, ThreadFacts DEF LoopStep
<1>3. CASE \E r \in Reqs : WorkerStep(r)
  BY <1>3, StepKeeps, WorkerKeeps, ThreadFacts DEF WorkerStep
<1>4. CASE UNCHANGED vars
  <2>1. TypeOK'
    BY <1>4 DEF vars, IInv, TypeOK
  <2>2. ShapeInv'
    BY <1>4 DEF vars, IInv, ShapeInv
  <2>3. \A t, name : On(t, name)' <=> On(t, name)
    BY <1>4 DEF vars, On
  <2>4. CountInv'
    BY <1>4, <2>3 DEF vars, IInv, CountInv, Counted, Counting, IsApp
  <2>5. HandshakeInv'
    BY <1>4, <2>3 DEF vars, IInv, HandshakeInv
  <2>6. ClosingInv'
    BY <1>4, <2>3 DEF vars, IInv, ClosingInv, ClosesOn, Closing
  <2>7. EntryInv'
    BY <1>4, <2>3 DEF vars, IInv, EntryInv, Closing, OverLimit, Active
  <2>8. LiveInv'
    BY <1>4, <2>3 DEF vars, IInv, LiveInv, FailsOnLoop
  <2> QED
    BY <2>1, <2>2, <2>4, <2>5, <2>6, <2>7, <2>8 DEF IInv
<1> QED
  BY <1>1, <1>2, <1>3, <1>4 DEF Next

THEOREM Inductive == Spec => []IInv
BY Starts, NextKeeps, PTL DEF Spec

\* The calls on every stack, the records in the BIOs and the counters stay what
\* the code can produce: n_requests of an entry never exceeds what was sent.
THEOREM TypeCorrect == Spec => []TypeOK
<1>1. IInv => TypeOK
  BY DEF IInv
<1> QED
  BY <1>1, Inductive, PTL

\* onRead finds the timer of its entry, and the process survives, unless
\* SSL_write failed on a worker, for any number of requests and workers.
THEOREM LiveConnectionHasTimer == Spec => []LiveHasTimer
<1>1. ASSUME IInv
      PROVE  LiveHasTimer
  <2>1. (\A i \in DOMAIN failed : failed[i] = Loop) => FailsOnLoop
    BY <1>1 DEF FailsOnLoop, IInv, TypeOK
  <2> QED
    BY <1>1, <2>1 DEF LiveHasTimer, LiveInv, EntryInv, IInv
<1> QED
  BY <1>1, Inductive, PTL

\* Whatever stays in `clients` after a connection was closed, came with a late
\* thread or was left at the request limit.
THEOREM LeftoversAreExplained == Spec => []LeftoversExplained
<1>1. IInv => LeftoversExplained
  BY DEF IInv, EntryInv, LeftoversExplained, Closing
<1> QED
  BY <1>1, Inductive, PTL

------------------------------------------------------------------------------
(***************************************************************************)
(* No answer is lost or repeated.  A request is known from the moment      *)
(* onRead has it, and due until its answer is handed to asyncWrite; from   *)
(* then on the answer is kept in one place: a stack, the pending writes,   *)
(* or what OpenSSL has made.                                               *)
(***************************************************************************)
In(s, x) == \E i \in 1 .. Len(s) : s[i] = x

Inj(s) == \A i, j \in 1 .. Len(s) : s[i] = s[j] => i = j

\* The calls s write a; they hold record x between the BIO and the socket.
Writes(s, a) == \E i \in 1 .. Len(s) : s[i].call = "asyncWrite" /\ s[i].answer = a
Holds(s, x) == \E i \in 1 .. Len(s) : s[i].call = "socketWrite" /\ In(s[i].chunk, x)

Once(s) ==
    \A i, j \in 1 .. Len(s) :
        s[i].call = "asyncWrite" /\ s[j].call = "asyncWrite" /\ s[i].answer = s[j].answer => i = j

Kept(a) == (\E t \in Threads : Writes(stack[t], a)) \/ In(pending, a) \/ In(made, a)

UniqueInv ==
    /\ \A t \in Threads : Once(stack[t])
    /\ \A t, u \in Threads : t # u => \A a : ~(Writes(stack[t], a) /\ Writes(stack[u], a))
    /\ \A t \in Threads : \A a : Writes(stack[t], a) => ~In(pending, a) /\ ~In(made, a)
    /\ \A a : In(pending, a) => ~In(made, a)
    /\ Inj(pending) /\ Inj(made)

\* TLS speaks for itself once in each role, and what it says ends its use.
ControlInv ==
    /\ In(made, Control("hello")) => ssl # "handshake"
    /\ In(made, Control("notify")) => ssl \in {"shutdown", "over", "failed"}
    /\ In(made, Control("alert")) => ssl = "failed"

Working(r) == On(r, "respond")
OnReading(r) == In(stack[Loop], OnReadOf(r))
Due(r) == r \in fetched \/ OnReading(r) \/ Working(r)

DueInv ==
    \A r \in Reqs :
        /\ \/ stack[r] \in {<<Call("route"), Call("respond")>>, <<Call("respond")>>}
           \/ \A name : On(r, name) => name \in Basic
        /\ Due(r) => \A a : Kept(a) => a.req # r
        /\ OnReading(r) => r \notin fetched /\ stack[r] = <<>>
        /\ r \in fetched => stack[r] = <<>>

Known(r) == Due(r) \/ stack[r] # <<>> \/ \E a : Kept(a) /\ a.req = r

ReadInv ==
    /\ \A r \in Reqs : Known(r) =>
          r <= sent /\ \A i \in 1 .. Len(readBio) : IsApp(i) => readBio[i].req > r
    /\ sock = "new" => sent = 0

HeldInv ==
    ~Closing => \A x : In(made, x) <=> \/ In(wire, x) \/ In(writeBio, x)
                                       \/ \E t \in Threads : Holds(stack[t], x)

Live == ssl \in {"handshake", "ready"} /\ Active /\ ~crashed

InBio(r) == \E i \in 1 .. Len(readBio) : readBio[i].req = r

Part(r, part) == [req |-> r, part |-> part]

Ready(r) == Kept(Part(r, "whole")) \/ (Kept(Part(r, "head")) /\ Kept(Part(r, "body")))

ConserveInv == Live => \A r \in 1 .. sent : InBio(r) \/ Due(r) \/ Ready(r)

KeptInv == UniqueInv /\ ControlInv /\ DueInv /\ ReadInv /\ HeldInv /\ ConserveInv

------------------------------------------------------------------------------
(* Sequences                                                                *)

LEMMA EmptyHasNone ==
    /\ \A x : ~In(<<>>, x) /\ ~Writes(<<>>, x) /\ ~Holds(<<>>, x)
    /\ Once(<<>>) /\ Inj(<<>>)
BY DEF In, Writes, Holds, Once, Inj

LEMMA InAppend ==
    ASSUME NEW S, NEW s \in Seq(S), NEW e \in S
    PROVE  /\ \A x : In(Append(s, e), x) <=> In(s, x) \/ x = e
           /\ Inj(s) /\ ~In(s, e) => Inj(Append(s, e))
<1>1. PICK n : n = Append(s, e)
  OBVIOUS
<1>2. /\ Len(s) \in Nat /\ Len(n) = Len(s) + 1 /\ n[Len(n)] = e
      /\ \A i \in 1 .. Len(s) : n[i] = s[i]
  BY <1>1, AppendProperties, LenProperties
<1>3. \A x : In(n, x) <=> In(s, x) \/ x = e
  BY <1>2 DEF In
<1>4. ASSUME Inj(s), ~In(s, e), NEW i \in 1 .. Len(n), NEW j \in 1 .. Len(n), n[i] = n[j]
      PROVE  i = j
  BY <1>2, <1>4 DEF Inj, In
<1> QED
  BY <1>1, <1>3, <1>4 DEF Inj

LEMMA InConcat ==
    ASSUME NEW S, NEW s \in Seq(S), NEW q \in Seq(S)
    PROVE  \A x : In(s \o q, x) <=> In(s, x) \/ In(q, x)
<1>1. PICK n : n = s \o q
  OBVIOUS
<1>2. /\ Len(s) \in Nat /\ Len(q) \in Nat /\ Len(n) = Len(s) + Len(q)
      /\ \A i \in 1 .. Len(s) + Len(q) : n[i] = IF i <= Len(s) THEN s[i] ELSE q[i - Len(s)]
  BY <1>1, ConcatProperties, LenProperties
<1>3. \A i \in 1 .. Len(s) : i \in 1 .. Len(n) /\ n[i] = s[i]
  BY <1>2
<1>4. \A i \in 1 .. Len(q) : Len(s) + i \in 1 .. Len(n) /\ n[Len(s) + i] = q[i]
  <2> SUFFICES ASSUME NEW i \in 1 .. Len(q)
               PROVE  Len(s) + i \in 1 .. Len(n) /\ n[Len(s) + i] = q[i]
    OBVIOUS
  <2>1. Len(s) + i \in 1 .. Len(s) + Len(q) /\ ~(Len(s) + i <= Len(s)) /\ Len(s) + i - Len(s) = i
    BY <1>2
  <2> QED
    BY <1>2, <2>1
<1>5. ASSUME NEW i \in 1 .. Len(n)
      PROVE  In(s, n[i]) \/ In(q, n[i])
  <2>1. CASE i <= Len(s)
    BY <1>2, <2>1 DEF In
  <2>2. CASE ~(i <= Len(s))
    <3>1. i - Len(s) \in 1 .. Len(q) /\ n[i] = q[i - Len(s)]
      BY <1>2, <2>2
    <3> QED
      BY <3>1 DEF In
  <2> QED
    BY <2>1, <2>2
<1>6. \A x : In(n, x) => In(s, x) \/ In(q, x)
  BY <1>5 DEF In
<1>7. \A x : In(s, x) => In(n, x)
  BY <1>3 DEF In
<1>8. \A x : In(q, x) => In(n, x)
  BY <1>4 DEF In
<1> QED
  BY <1>1, <1>6, <1>7, <1>8

LEMMA InTail ==
    ASSUME NEW S, NEW s \in Seq(S), s # <<>>
    PROVE  /\ \A x : In(s, x) <=> x = Head(s) \/ In(Tail(s), x)
           /\ Tail(s) \in Seq(S) /\ Head(s) = s[1] /\ Len(s) \in Nat \ {0}
           /\ Len(Tail(s)) = Len(s) - 1 /\ \A i \in 1 .. Len(Tail(s)) : Tail(s)[i] = s[i + 1]
<1>1. /\ Tail(s) \in Seq(S) /\ Len(Tail(s)) = Len(s) - 1
      /\ \A i \in 1 .. Len(Tail(s)) : Tail(s)[i] = s[i + 1]
  BY HeadTailProperties
<1>2. Len(s) \in Nat \ {0} /\ Head(s) = s[1]
  BY EmptySeq, LenProperties
<1>3. PICK q : q = Tail(s)
  OBVIOUS
<1>4. ASSUME NEW i \in 1 .. Len(s)
      PROVE  s[i] = s[1] \/ In(q, s[i])
  <2>1. i = 1 \/ (i - 1 \in 1 .. Len(q) /\ q[i - 1] = s[i])
    <3>1. i # 1 => i - 1 \in 1 .. Len(q) /\ (i - 1) + 1 = i
      BY <1>1, <1>2, <1>3
    <3> QED
      BY <1>1, <1>3, <3>1
  <2> QED
    BY <2>1 DEF In
<1>5. ASSUME NEW i \in 1 .. Len(q)
      PROVE  In(s, q[i])
  <2>1. i + 1 \in 1 .. Len(s) /\ q[i] = s[i + 1]
    BY <1>1, <1>2, <1>3, <1>5
  <2> QED
    BY <2>1 DEF In
<1>6. In(s, s[1])
  BY <1>2 DEF In
<1>7. \A x : In(s, x) => x = s[1] \/ In(q, x)
  BY <1>4 DEF In
<1>8. \A x : In(q, x) => In(s, x)
  BY <1>5 DEF In
<1> QED
  BY <1>1, <1>2, <1>3, <1>6, <1>7, <1>8

LEMMA WritesIn ==
    ASSUME NEW s
    PROVE  /\ \A a : Writes(s, a) <=> \E c : In(s, c) /\ c.call = "asyncWrite" /\ c.answer = a
           /\ \A x : Holds(s, x) <=> \E c : In(s, c) /\ c.call = "socketWrite" /\ In(c.chunk, x)
BY DEF Writes, Holds, In

LEMMA OnceParts ==
    ASSUME NEW s \in Seq(Calls), s # <<>>, Once(s)
    PROVE  /\ Once(Tail(s))
           /\ Head(s).call = "asyncWrite" => ~Writes(Tail(s), Head(s).answer)
<1>1. PICK q : q = Tail(s)
  OBVIOUS
<1>2. /\ Head(s) = s[1] /\ Len(s) \in Nat \ {0} /\ Len(q) = Len(s) - 1
      /\ \A i \in 1 .. Len(q) : q[i] = s[i + 1]
  BY <1>1, InTail
<1>3. \A i \in 1 .. Len(q) : i + 1 \in 1 .. Len(s) /\ i + 1 # 1 /\ q[i] = s[i + 1]
  BY <1>2
<1>4. Once(q)
  <2> SUFFICES ASSUME NEW i \in 1 .. Len(q), NEW j \in 1 .. Len(q),
                      q[i].call = "asyncWrite", q[j].call = "asyncWrite", q[i].answer = q[j].answer
               PROVE  i = j
    BY DEF Once
  <2>1. i + 1 = j + 1
    BY <1>3 DEF Once
  <2> QED
    BY <1>2, <2>1
<1>5. s[1].call = "asyncWrite" => ~Writes(q, s[1].answer)
  <2>1. 1 \in 1 .. Len(s)
    BY <1>2
  <2> QED
    BY <1>3, <2>1 DEF Once, Writes
<1> QED
  BY <1>1, <1>2, <1>4, <1>5

LEMMA OnceConcat ==
    ASSUME NEW c \in Seq(Calls), NEW q \in Seq(Calls), Once(c), Once(q),
           \A a : ~(Writes(c, a) /\ Writes(q, a))
    PROVE  Once(c \o q)
<1>1. PICK n : n = c \o q
  OBVIOUS
<1>2. /\ Len(c) \in Nat /\ Len(q) \in Nat /\ Len(n) = Len(c) + Len(q)
      /\ \A i \in 1 .. Len(c) + Len(q) : n[i] = IF i <= Len(c) THEN c[i] ELSE q[i - Len(c)]
  BY <1>1, ConcatProperties, LenProperties
<1>3. \A i \in 1 .. Len(n) : \/ i \in 1 .. Len(c) /\ n[i] = c[i]
                             \/ i - Len(c) \in 1 .. Len(q) /\ n[i] = q[i - Len(c)]
  <2> SUFFICES ASSUME NEW i \in 1 .. Len(n)
               PROVE  \/ i \in 1 .. Len(c) /\ n[i] = c[i]
                      \/ i - Len(c) \in 1 .. Len(q) /\ n[i] = q[i - Len(c)]
    OBVIOUS
  <2>1. i <= Len(c) \/ i - Len(c) \in 1 .. Len(q)
    BY <1>2
  <2> QED
    BY <1>2, <2>1
<1>4. SUFFICES ASSUME NEW i \in 1 .. Len(n), NEW j \in 1 .. Len(n),
                      n[i].call = "asyncWrite", n[j].call = "asyncWrite", n[i].answer = n[j].answer
               PROVE  i = j
  BY <1>1 DEF Once
<1>5. CASE i \in 1 .. Len(c) /\ n[i] = c[i] /\ j \in 1 .. Len(c) /\ n[j] = c[j]
  BY <1>4, <1>5 DEF Once
<1>6. CASE /\ i - Len(c) \in 1 .. Len(q) /\ n[i] = q[i - Len(c)]
           /\ j - Len(c) \in 1 .. Len(q) /\ n[j] = q[j - Len(c)]
  <2>1. i - Len(c) = j - Len(c)
    BY <1>4, <1>6 DEF Once
  <2> QED
    BY <1>2, <2>1
<1>7. CASE i \in 1 .. Len(c) /\ n[i] = c[i] /\ j - Len(c) \in 1 .. Len(q) /\ n[j] = q[j - Len(c)]
  <2>1. Writes(c, n[i].answer) /\ Writes(q, n[j].answer)
    BY <1>4, <1>7 DEF Writes
  <2> QED
    BY <1>4, <2>1
<1>8. CASE j \in 1 .. Len(c) /\ n[j] = c[j] /\ i - Len(c) \in 1 .. Len(q) /\ n[i] = q[i - Len(c)]
  <2>1. Writes(c, n[j].answer) /\ Writes(q, n[i].answer)
    BY <1>4, <1>8 DEF Writes
  <2> QED
    BY <1>4, <2>1
<1> QED
  BY <1>3, <1>5, <1>6, <1>7, <1>8


\* What is written, held and called once the call on top gives way to others.
Replaces(n, s, calls, rest) ==
    /\ \A c : In(n, c) <=> In(calls, c) \/ In(rest, c)
    /\ \A c : In(s, c) <=> c = Head(s) \/ In(rest, c)
    /\ \A a : Writes(n, a) <=> Writes(calls, a) \/ Writes(rest, a)
    /\ \A a : Writes(s, a) <=>
          (Head(s).call = "asyncWrite" /\ Head(s).answer = a) \/ Writes(rest, a)
    /\ \A x : Holds(n, x) <=> Holds(calls, x) \/ Holds(rest, x)
    /\ \A x : Holds(s, x) <=>
          (Head(s).call = "socketWrite" /\ In(Head(s).chunk, x)) \/ Holds(rest, x)
    /\ Once(s) => Once(rest) /\ (Head(s).call = "asyncWrite" => ~Writes(rest, Head(s).answer))
    /\ Once(calls) /\ Once(rest) /\ (\A a : ~(Writes(calls, a) /\ Writes(rest, a))) => Once(n)

LEMMA Replaced ==
    ASSUME NEW s \in Seq(Calls), s # <<>>, NEW calls \in Seq(Calls),
           NEW rest \in Seq(Calls), rest = Tail(s), NEW n \in Seq(Calls), n = calls \o rest
    PROVE  Replaces(n, s, calls, rest)
<1>1. rest = Tail(s) /\ n = calls \o rest
  OBVIOUS
<1>2. PICK h : h = Head(s)
  OBVIOUS
<1>3. \A c : In(n, c) <=> In(calls, c) \/ In(rest, c)
  <2>1. calls \in Seq(Calls) /\ rest \in Seq(Calls) /\ n = calls \o rest
    BY <1>1
  <2> QED
    BY ONLY <2>1, InConcat
<1>4. \A c : In(s, c) <=> c = h \/ In(rest, c)
  BY <1>2, InTail
<1> DEFINE W(q, a) == \E c : In(q, c) /\ c.call = "asyncWrite" /\ c.answer = a
           H(q, x) == \E c : In(q, c) /\ c.call = "socketWrite" /\ In(c.chunk, x)
<1>5. \A q \in {n, s, calls, rest} : /\ \A a : Writes(q, a) <=> W(q, a)
                                     /\ \A x : Holds(q, x) <=> H(q, x)
  BY WritesIn
<1>6. \A a : W(n, a) <=> W(calls, a) \/ W(rest, a)
  BY <1>3
<1>7. \A a : W(s, a) <=> (h.call = "asyncWrite" /\ h.answer = a) \/ W(rest, a)
  BY <1>4
<1>8. \A x : H(n, x) <=> H(calls, x) \/ H(rest, x)
  BY <1>3
<1>9. \A x : H(s, x) <=> (h.call = "socketWrite" /\ In(h.chunk, x)) \/ H(rest, x)
  BY <1>4
<1> HIDE DEF W, H
<1>10. /\ \A a : Writes(n, a) <=> Writes(calls, a) \/ Writes(rest, a)
       /\ \A a : Writes(s, a) <=> (h.call = "asyncWrite" /\ h.answer = a) \/ Writes(rest, a)
  BY <1>5, <1>6, <1>7
<1>11. /\ \A x : Holds(n, x) <=> Holds(calls, x) \/ Holds(rest, x)
       /\ \A x : Holds(s, x) <=> (h.call = "socketWrite" /\ In(h.chunk, x)) \/ Holds(rest, x)
  BY <1>5, <1>8, <1>9
<1>12. Once(s) => Once(rest) /\ (h.call = "asyncWrite" => ~Writes(rest, h.answer))
  BY <1>2, OnceParts
<1>13. Once(calls) /\ Once(rest) /\ (\A a : ~(Writes(calls, a) /\ Writes(rest, a))) => Once(n)
  BY <1>1, OnceConcat
<1> QED
  BY <1>2, <1>3, <1>4, <1>10, <1>11, <1>12, <1>13 DEF Replaces

LEMMA Flow ==
    ASSUME TypeOK, NEW t \in Threads, stack[t] # <<>>, NEW calls \in Seq(Calls), Goes(t, calls)
    PROVE  \E rest \in Seq(Calls) :
              /\ \A u \in Threads \ {t} : stack'[u] = stack[u]
              /\ \A c : In(stack'[t], c) <=> In(calls, c) \/ In(rest, c)
              /\ \A c : In(stack[t], c) <=> c = Head(stack[t]) \/ In(rest, c)
              /\ \A a : Writes(stack'[t], a) <=> Writes(calls, a) \/ Writes(rest, a)
              /\ \A a : Writes(stack[t], a) <=>
                    \/ Head(stack[t]).call = "asyncWrite" /\ Head(stack[t]).answer = a
                    \/ Writes(rest, a)
              /\ \A x : Holds(stack'[t], x) <=> Holds(calls, x) \/ Holds(rest, x)
              /\ \A x : Holds(stack[t], x) <=>
                    \/ Head(stack[t]).call = "socketWrite" /\ In(Head(stack[t]).chunk, x)
                    \/ Holds(rest, x)
              /\ Once(stack[t]) =>
                    /\ Once(rest)
                    /\ Head(stack[t]).call = "asyncWrite" => ~Writes(rest, Head(stack[t]).answer)
              /\ Once(calls) /\ Once(rest) /\ (\A a : ~(Writes(calls, a) /\ Writes(rest, a)))
                    => Once(stack'[t])
              /\ rest = Tail(stack[t])
<1>1. PICK s \in Seq(Calls) : s = stack[t]
  BY DEF TypeOK
<1>2. PICK rest \in Seq(Calls) : rest = Tail(s)
  BY <1>1, InTail
<1>3. PICK n \in Seq(Calls) : n = calls \o rest
  BY ConcatProperties
<1>4. n = stack'[t] /\ \A u \in Threads \ {t} : stack'[u] = stack[u]
  BY <1>1, <1>2, <1>3, GoesOn
<1>5. s # <<>> /\ s \in Seq(Calls) /\ calls \in Seq(Calls)
  BY <1>1
<1>6. Replaces(n, s, calls, rest)
  BY <1>2, <1>3, <1>5, Replaced
<1> QED
  BY <1>1, <1>2, <1>4, <1>6 DEF Replaces

\* Calls without an asyncWrite write nothing; without a socketWrite, hold nothing.
LEMMA NamesSay ==
    ASSUME NEW calls
    PROVE  /\ "asyncWrite" \notin Names(calls) => Once(calls) /\ \A a : ~Writes(calls, a)
           /\ "socketWrite" \notin Names(calls) => \A x : ~Holds(calls, x)
           /\ "onRead" \notin Names(calls) => \A r : ~In(calls, OnReadOf(r))
BY DEF Names, Once, Writes, Holds, In, OnReadOf

LEMMA OneWrite ==
    ASSUME NEW a \in Answers
    PROVE  /\ Once(<<AsyncWriteOf(a)>>) /\ \A b : Writes(<<AsyncWriteOf(a)>>, b) <=> b = a
           /\ Once(<<AsyncWriteOf(a), Call("count")>>)
           /\ \A b : Writes(<<AsyncWriteOf(a), Call("count")>>, b) <=> b = a
<1>1. /\ Len(<<AsyncWriteOf(a)>>) = 1 /\ <<AsyncWriteOf(a)>>[1] = AsyncWriteOf(a)
      /\ Len(<<AsyncWriteOf(a), Call("count")>>) = 2
      /\ <<AsyncWriteOf(a), Call("count")>>[1] = AsyncWriteOf(a)
      /\ <<AsyncWriteOf(a), Call("count")>>[2] = Call("count")
  BY CallTypes, Singles
<1>2. /\ AsyncWriteOf(a).call = "asyncWrite" /\ AsyncWriteOf(a).answer = a
      /\ Call("count").call = "count"
  BY DEF AsyncWriteOf, Call
<1>3. PICK s, q : s = <<AsyncWriteOf(a)>> /\ q = <<AsyncWriteOf(a), Call("count")>>
  OBVIOUS
<1>4. /\ Len(s) = 1 /\ s[1].call = "asyncWrite" /\ s[1].answer = a
      /\ Len(q) = 2 /\ q[1].call = "asyncWrite" /\ q[1].answer = a /\ q[2].call = "count"
  BY <1>1, <1>2, <1>3
<1>5. Once(s) /\ \A b : Writes(s, b) <=> b = a
  BY <1>4 DEF Once, Writes
<1>6. Once(q) /\ \A b : Writes(q, b) <=> b = a
  BY <1>4 DEF Once, Writes
<1> QED
  BY <1>3, <1>5, <1>6

\* The answers to r, and no others, are a request's own.
LEMMA AnswerTypes ==
    /\ TypeOK => /\ \A a : In(pending, a) => a \in Answers
                 /\ \A t \in Threads : \A a : Writes(stack[t], a) => a \in Answers
                 /\ \A a : In(made, a) => a \in OutRecords
    /\ \A a \in Answers : a.req # 0 /\ a.req \in Reqs
    /\ \A part : Control(part).req = 0
<1>1. \A a \in Answers : a.req # 0 /\ a.req \in Reqs
  BY MaxRequestsAssumption DEF Answers, Reqs
<1>2. ASSUME TypeOK
      PROVE  /\ \A a : In(pending, a) => a \in Answers
             /\ \A a : In(made, a) => a \in OutRecords
  BY <1>2 DEF TypeOK, In
<1>3. ASSUME TypeOK, NEW t \in Threads, NEW a, Writes(stack[t], a)
      PROVE  a \in Answers
  <2>1. PICK s \in Seq(Calls) : s = stack[t]
    BY <1>3 DEF TypeOK
  <2>2. PICK i \in 1 .. Len(s) : s[i].call = "asyncWrite" /\ s[i].answer = a
    BY <1>3, <2>1 DEF Writes
  <2>3. s[i] \in Calls
    BY <2>1, <2>2, ElementOfSeq
  <2> QED
    BY <2>2, <2>3, CallParts
<1> QED
  BY <1>1, <1>2, <1>3 DEF Control

------------------------------------------------------------------------------
(* What keeps each part                                                     *)

\* No answer comes to a stack, and at most a record of TLS itself is made.
LEMMA UniqueFewer ==
    ASSUME TypeOK, UniqueInv, \A t \in Threads : Once(stack'[t]),
           \A t \in Threads : \A a : Writes(stack'[t], a) => Writes(stack[t], a),
           pending' = pending,
           \/ made' = made
           \/ \E part : /\ made' = Append(made, Control(part)) /\ ~In(made, Control(part))
                        /\ Control(part) \in OutRecords
    PROVE  UniqueInv'
<1>1. CASE made' = made
  BY <1>1 DEF UniqueInv
<1>2. ASSUME NEW part, made' = Append(made, Control(part)), ~In(made, Control(part)),
             Control(part) \in OutRecords
      PROVE  UniqueInv'
  <2>1. Inj(made') /\ \A a : In(made', a) <=> In(made, a) \/ a = Control(part)
    BY <1>2, InAppend DEF UniqueInv, TypeOK
  <2>2. ~In(pending, Control(part)) /\ \A t \in Threads : ~Writes(stack[t], Control(part))
    BY AnswerTypes
  <2> QED
    BY <2>1, <2>2 DEF UniqueInv
<1> QED
  BY <1>1, <1>2

\* No request comes to be due, and the answers kept are not those of due requests.
LEMMA DueFewer ==
    ASSUME DueInv,
           \A r \in Reqs : \/ stack'[r] = stack[r] \/ stack'[r] = <<Call("respond")>>
                           \/ \A name : On(r, name)' => name \in Basic,
           \A r \in Reqs : /\ Due(r)' => Due(r)
                           /\ OnReading(r)' => OnReading(r)
                           /\ r \in fetched' => r \in fetched
                           /\ stack[r] = <<>> => stack'[r] = <<>>,
           \A a : Kept(a)' => Kept(a) \/ ~(a.req \in Reqs /\ Due(a.req)')
    PROVE  DueInv'
<1>1. ASSUME NEW r \in Reqs
      PROVE  \/ stack'[r] \in {<<Call("route"), Call("respond")>>, <<Call("respond")>>}
             \/ \A name : On(r, name)' => name \in Basic
  <2>1. CASE stack'[r] = stack[r]
    BY <2>1 DEF DueInv, On
  <2> QED
    BY <2>1
<1>2. ASSUME NEW r \in Reqs, Due(r)', NEW a, Kept(a)'
      PROVE  a.req # r
  BY <1>2 DEF DueInv
<1>3. ASSUME NEW r \in Reqs
      PROVE  /\ OnReading(r)' => r \notin fetched' /\ stack'[r] = <<>>
             /\ r \in fetched' => stack'[r] = <<>>
  BY DEF DueInv
<1> QED
  BY <1>1, <1>2, <1>3 DEF DueInv

\* No request comes to be known, and what is to be read is read no later.
LEMMA ReadFewer ==
    ASSUME TypeOK, ReadInv, sent' = sent, sock' = "new" => sock = "new",
           \A r \in Reqs : Known(r)' => Known(r),
           \A i \in 1 .. Len(readBio') : \E j \in 1 .. Len(readBio) : readBio'[i] = readBio[j]
    PROVE  ReadInv'
<1>1. ASSUME NEW r \in Reqs, Known(r)'
      PROVE  r <= sent' /\ \A i \in 1 .. Len(readBio') : IsApp(i)' => readBio'[i].req > r
  <2>1. Known(r)
    BY <1>1
  <2> QED
    BY <2>1 DEF ReadInv, IsApp
<1> QED
  BY <1>1 DEF ReadInv

------------------------------------------------------------------------------
(* The calls of any thread                                                  *)

\* They neither begin nor end the handling of a request.
LEMMA EffectDue ==
    ASSUME IInv, DueInv, NEW t \in Threads, NEW calls, Effect(t, calls)
    PROVE  /\ fetched' = fetched
           /\ \A r \in Reqs :
                 /\ stack'[r] = stack[r] \/ \A name : On(r, name)' => name \in Basic
                 /\ OnReading(r)' <=> OnReading(r)
                 /\ Due(r)' <=> Due(r)
                 /\ stack[r] = <<>> => stack'[r] = <<>>
<1>1. /\ stack[t] # <<>> /\ calls \in Seq(Calls) /\ Goes(t, calls) /\ fetched' = fetched
      /\ Head(stack[t]).call \in Basic /\ Names(calls) \subseteq Basic
  BY DEF Effect
<1>2. PICK rest \in Seq(Calls) :
         /\ \A u \in Threads \ {t} : stack'[u] = stack[u]
         /\ \A c : In(stack'[t], c) <=> In(calls, c) \/ In(rest, c)
         /\ \A c : In(stack[t], c) <=> c = Head(stack[t]) \/ In(rest, c)
  BY <1>1, Flow, ZenonT(60) DEF IInv
<1>3. \A r \in Reqs : OnReading(r)' <=> OnReading(r)
  <2>1. CASE t = Loop
    <3>1. "onRead" \notin Names(calls)
      BY <1>1 DEF Basic
    <3>2. \A r \in Reqs : ~In(calls, OnReadOf(r)) /\ OnReadOf(r) # Head(stack[t])
      BY <1>1, <3>1, NamesSay, CallTypes DEF Basic
    <3> QED
      BY <1>2, <2>1, <3>2 DEF OnReading
  <2>2. CASE t # Loop
    BY <1>2, <2>2, ThreadFacts DEF OnReading
  <2> QED
    BY <2>1, <2>2
<1>4. ASSUME NEW r \in Reqs
      PROVE  /\ stack'[r] = stack[r] \/ \A name : On(r, name)' => name \in Basic
             /\ Working(r)' <=> Working(r)
             /\ stack[r] = <<>> => stack'[r] = <<>>
  <2>1. CASE t = r
    <3>1. /\ \A name : On(t, name)' <=> name \in Names(calls) \/ Below(t, name)
          /\ \A name : On(t, name) <=> name = Head(stack[t]).call \/ Below(t, name)
      BY <1>1, GoesOn DEF IInv
    <3>2. stack[t] # <<Call("route"), Call("respond")>> /\ stack[t] # <<Call("respond")>>
      <4>1. Call("route") \in Calls /\ Call("respond") \in Calls
        BY CallTypes
      <4>2. Head(<<Call("route"), Call("respond")>>) = Call("route") /\ Head(<<Call("respond")>>) = Call("respond")
        BY <4>1
      <4> QED
        BY <1>1, <4>2, CallTypes DEF Basic
    <3>3. \A name : On(t, name) => name \in Basic
      BY <2>1, <3>2 DEF DueInv
    <3>4. \A name : On(t, name)' => name \in Basic
      BY <1>1, <3>1, <3>3
    <3> QED
      BY <1>1, <2>1, <3>3, <3>4 DEF Working, Basic
  <2>2. CASE t # r
    BY <1>2, <2>2, ThreadFacts DEF Working, On
  <2> QED
    BY <2>1, <2>2
<1> QED
  BY <1>1, <1>3, <1>4 DEF Due

\* What remains to be shown of such a call: where the answers are.
LEMMA EffectKept ==
    ASSUME IInv, TypeOK', KeptInv, NEW t \in Threads, NEW calls, Effect(t, calls),
           \A a : Kept(a)' => Kept(a) \/ a.req = 0,
           Live' => \A a : Kept(a) => Kept(a)',
           UniqueInv', ControlInv', HeldInv'
    PROVE  KeptInv'
<1>1. /\ fetched' = fetched
      /\ \A r \in Reqs :
            /\ stack'[r] = stack[r] \/ \A name : On(r, name)' => name \in Basic
            /\ OnReading(r)' <=> OnReading(r)
            /\ Due(r)' <=> Due(r)
            /\ stack[r] = <<>> => stack'[r] = <<>>
  BY EffectDue DEF KeptInv
<1>2. 0 \notin Reqs
  BY MaxRequestsAssumption DEF Reqs
<1>3. DueInv'
  BY <1>1, <1>2, DueFewer DEF KeptInv
<1>4. /\ readBio' = readBio /\ sent' = sent /\ crashed' = crashed
      /\ sock' = sock \/ Closing'
  BY DEF Effect
<1>5. ReadInv'
  <2>1. \A r \in Reqs : Known(r)' => Known(r)
    BY <1>1, <1>2 DEF Known
  <2>2. sock' = "new" => sock = "new"
    BY <1>4 DEF Closing, Effect
  <2>3. readBio' = readBio /\ sent' = sent
    BY DEF Effect
  <2> QED
    BY <2>1, <2>2, <2>3, ReadFewer DEF KeptInv, IInv
<1>6. ConserveInv'
  <2>1. Live' => Live
    <3>1. ssl' = ssl \/ ssl' \in {"failed", "over", "shutdown"}
      BY DEF Effect
    <3>2. sock' = sock \/ Closing'
      BY DEF Effect
    <3>3. crashed' = crashed
      BY DEF Effect
    <3> QED
      BY <3>1, <3>2, <3>3 DEF Live, Active, Closing
  <2>2. readBio' = readBio /\ sent' = sent
    BY DEF Effect
  <2>3. sent \in Nat /\ 1 .. sent \subseteq Reqs
    BY MaxRequestsAssumption DEF IInv, TypeOK, Reqs
  <2> QED
    BY <1>1, <2>1, <2>2, <2>3 DEF ConserveInv, KeptInv, InBio, Ready
<1> QED
  BY <1>3, <1>5, <1>6 DEF KeptInv

\* A call that gives way to calls that write nothing.
LEMMA Quiet ==
    ASSUME TypeOK, UniqueInv, NEW t \in Threads, stack[t] # <<>>, NEW calls \in Seq(Calls),
           "asyncWrite" \notin Names(calls), Goes(t, calls)
    PROVE  \A u \in Threads :
              /\ Once(stack'[u])
              /\ \A a : Writes(stack'[u], a) => Writes(stack[u], a)
              /\ Head(stack[t]).call # "asyncWrite" =>
                    \A a : Writes(stack'[u], a) <=> Writes(stack[u], a)
<1>1. PICK rest \in Seq(Calls) :
         /\ \A u \in Threads \ {t} : stack'[u] = stack[u]
         /\ \A a : Writes(stack'[t], a) <=> Writes(calls, a) \/ Writes(rest, a)
         /\ \A a : Writes(stack[t], a) <=>
               \/ Head(stack[t]).call = "asyncWrite" /\ Head(stack[t]).answer = a
               \/ Writes(rest, a)
         /\ Once(stack[t]) => Once(rest)
         /\ Once(calls) /\ Once(rest) /\ (\A a : ~(Writes(calls, a) /\ Writes(rest, a)))
               => Once(stack'[t])
  BY Flow, ZenonT(60)
<1>2. Once(calls) /\ \A a : ~Writes(calls, a)
  BY NamesSay
<1> QED
  BY <1>1, <1>2 DEF UniqueInv

\* The same, and nothing is held in between.
LEMMA QuietHeld ==
    ASSUME TypeOK, NEW t \in Threads, stack[t] # <<>>, NEW calls \in Seq(Calls),
           "socketWrite" \notin Names(calls), Goes(t, calls), Head(stack[t]).call # "socketWrite"
    PROVE  \A u \in Threads : \A x : Holds(stack'[u], x) <=> Holds(stack[u], x)
<1>1. PICK rest \in Seq(Calls) :
         /\ \A u \in Threads \ {t} : stack'[u] = stack[u]
         /\ \A x : Holds(stack'[t], x) <=> Holds(calls, x) \/ Holds(rest, x)
         /\ \A x : Holds(stack[t], x) <=>
               \/ Head(stack[t]).call = "socketWrite" /\ In(Head(stack[t]).chunk, x)
               \/ Holds(rest, x)
  BY Flow, ZenonT(60)
<1>2. \A x : ~Holds(calls, x)
  BY NamesSay
<1> QED
  BY <1>1, <1>2

\* A thread that writes is past the handshake.
LEMMA WriterPast ==
    ASSUME IInv, NEW t \in Threads, stack[t] # <<>>, Head(stack[t]).call = "asyncWrite"
    PROVE  ssl # "handshake"
<1>1. CASE t = Loop
  <2>1. On(Loop, "asyncWrite")
    <3>1. PICK s \in Seq(Calls) : s = stack[Loop]
      BY ThreadFacts DEF IInv, TypeOK
    <3>2. 1 \in 1 .. Len(s) /\ Head(s) = s[1]
      BY <1>1, <3>1, InTail
    <3> QED
      BY <1>1, <3>1, <3>2 DEF On
  <2> QED
    BY <2>1 DEF HandshakeInv, IInv
<1>2. CASE t # Loop
  <2>1. t \in Reqs
    BY <1>2 DEF Threads
  <2> QED
    BY <2>1 DEF HandshakeInv, IInv
<1> QED
  BY <1>1, <1>2

LEMMA DroppedKept ==
    ASSUME IInv, KeptInv, NEW t \in Threads, AsyncWrite(t),
           NEW calls \in Seq(Calls), Goes(t, calls), Names(calls) \subseteq {"close"},
           ssl' = ssl \/ ssl' = "failed", ~Live',
           UNCHANGED <<made, writeBio, pending>>
    PROVE  KeptInv'
<1>1. TypeOK' /\ \E cs : Effect(t, cs)
  BY AsyncWriteEffect DEF IInv
<1>2. /\ stack[t] # <<>> /\ Head(stack[t]).call = "asyncWrite" /\ ssl # "handshake"
      /\ sock' = sock /\ wire' = wire
  BY WriterPast DEF AsyncWrite, At
<1>3. "asyncWrite" \notin Names(calls) /\ "socketWrite" \notin Names(calls)
  OBVIOUS
<1>4. \A u \in Threads : Once(stack'[u]) /\ \A a : Writes(stack'[u], a) => Writes(stack[u], a)
  BY <1>2, <1>3, Quiet DEF KeptInv, IInv
<1>5. \A u \in Threads : \A x : Holds(stack'[u], x) <=> Holds(stack[u], x)
  BY <1>2, <1>3, QuietHeld DEF IInv
<1>6. UniqueInv'
  BY <1>4, UniqueFewer DEF KeptInv, IInv
<1>7. ControlInv'
  BY <1>2 DEF KeptInv, ControlInv
<1>8. HeldInv'
  BY <1>2, <1>5 DEF KeptInv, HeldInv, Closing
<1>9. \A a : Kept(a)' => Kept(a) \/ a.req = 0
  BY <1>4 DEF Kept
<1> QED
  BY <1>1, <1>6, <1>7, <1>8, <1>9, EffectKept

LEMMA TakenKept ==
    ASSUME IInv, KeptInv, NEW t \in Threads, AsyncWrite(t), ~Closing,
           NEW a, a = Head(stack[t]).answer, Taken(t, a)
    PROVE  KeptInv'
<1>1. TypeOK' /\ \E cs : Effect(t, cs)
  BY AsyncWriteEffect DEF IInv
<1>2. /\ stack[t] # <<>> /\ Head(stack[t]).call = "asyncWrite"
      /\ sock' = sock /\ wire' = wire /\ ssl' = ssl /\ pending' = pending
  BY DEF AsyncWrite, At, Taken
<1>3. a \in Answers /\ a \in OutRecords
  BY <1>2, HeadCall, CallParts, RecordTypes DEF IInv
<1>4. PICK calls \in Seq(Calls) : calls = <<Call("flushSslBuffer")>> /\ Names(calls) = {"flushSslBuffer"}
  BY Pushed
<1>5. PICK rest \in Seq(Calls) :
         /\ \A u \in Threads \ {t} : stack'[u] = stack[u]
         /\ \A b : Writes(stack'[t], b) <=> Writes(calls, b) \/ Writes(rest, b)
         /\ \A b : Writes(stack[t], b) <=>
               \/ Head(stack[t]).call = "asyncWrite" /\ Head(stack[t]).answer = b
               \/ Writes(rest, b)
         /\ Once(stack[t]) =>
               /\ Once(rest)
               /\ Head(stack[t]).call = "asyncWrite" => ~Writes(rest, Head(stack[t]).answer)
  BY <1>2, <1>4, Flow, ZenonT(60) DEF IInv, Taken
<1>6. \A b : ~Writes(calls, b)
  BY <1>4, NamesSay
<1>7. /\ \A b : Writes(stack'[t], b) <=> Writes(stack[t], b) /\ b # a
      /\ Writes(stack[t], a)
  BY <1>2, <1>5, <1>6 DEF KeptInv, UniqueInv
<1>8. \A u \in Threads : Once(stack'[u])
  BY <1>2, <1>4, Quiet DEF KeptInv, IInv, Taken
<1>9. ~In(made, a) /\ ~In(pending, a) /\ \A u \in Threads \ {t} : ~Writes(stack[u], a)
  BY <1>7 DEF KeptInv, UniqueInv
<1>10. Inj(made') /\ \A b : In(made', b) <=> In(made, b) \/ b = a
  <2>1. made \in Seq(OutRecords) /\ Inj(made) /\ made' = Append(made, a)
    BY DEF KeptInv, UniqueInv, IInv, TypeOK, Taken, Make
  <2> QED
    BY ONLY <1>3, <1>9, <2>1, InAppend
<1>11. \A b : In(writeBio', b) <=> In(writeBio, b) \/ b = a
  <2>1. writeBio \in Seq(OutRecords) /\ writeBio' = Append(writeBio, a)
    BY DEF IInv, TypeOK, Taken, Make
  <2> QED
    BY ONLY <1>3, <2>1, InAppend
<1>12. UniqueInv'
  <2>1. \A u, v \in Threads : u # v => \A b : ~(Writes(stack'[u], b) /\ Writes(stack'[v], b))
    BY <1>5, <1>7 DEF KeptInv, UniqueInv
  <2>2. \A u \in Threads : \A b : Writes(stack'[u], b) => ~In(pending, b) /\ ~In(made', b)
    BY <1>5, <1>7, <1>9, <1>10 DEF KeptInv, UniqueInv
  <2>3. \A b : In(pending, b) => ~In(made', b)
    BY <1>9, <1>10 DEF KeptInv, UniqueInv
  <2> QED
    BY <1>2, <1>8, <1>10, <2>1, <2>2, <2>3 DEF UniqueInv, KeptInv
<1>13. ControlInv'
  <2>1. \A part : Control(part) # a
    BY <1>3, AnswerTypes
  <2> QED
    BY <1>2, <1>10, <2>1 DEF ControlInv, KeptInv
<1>14. HeldInv'
  <2>1. \A u \in Threads : \A x : Holds(stack'[u], x) <=> Holds(stack[u], x)
    <3>1. Goes(t, calls)
      BY <1>4 DEF Taken
    <3> QED
      BY <1>2, <1>4, <3>1, QuietHeld DEF IInv
  <2> QED
    BY <1>2, <1>10, <1>11, <2>1 DEF HeldInv, KeptInv, Closing
<1>15. \A b : Kept(b)' <=> Kept(b)
  BY <1>2, <1>5, <1>7, <1>10 DEF Kept
<1> QED
  BY <1>1, <1>12, <1>13, <1>14, <1>15, EffectKept

LEMMA RefusedKept ==
    ASSUME IInv, KeptInv, NEW t \in Threads, AsyncWrite(t), ~Closing,
           NEW a, a = Head(stack[t]).answer, Refused(t, a)
    PROVE  KeptInv'
<1>1. TypeOK' /\ \E cs : Effect(t, cs)
  BY AsyncWriteEffect DEF IInv
<1>2. /\ stack[t] # <<>> /\ Head(stack[t]).call = "asyncWrite" /\ Goes(t, <<>>)
      /\ sock' = sock /\ wire' = wire /\ ssl' = ssl /\ made' = made /\ writeBio' = writeBio
  BY DEF AsyncWrite, At, Refused
<1>3. a \in Answers /\ a \in OutRecords
  BY <1>2, HeadCall, CallParts, RecordTypes DEF IInv
<1>4. PICK calls \in Seq(Calls) : calls = <<>> /\ Names(calls) = {} /\ Goes(t, calls)
  BY <1>2, Pushed
<1>5. PICK rest \in Seq(Calls) :
         /\ \A u \in Threads \ {t} : stack'[u] = stack[u]
         /\ \A b : Writes(stack'[t], b) <=> Writes(calls, b) \/ Writes(rest, b)
         /\ \A b : Writes(stack[t], b) <=>
               \/ Head(stack[t]).call = "asyncWrite" /\ Head(stack[t]).answer = b
               \/ Writes(rest, b)
         /\ Once(stack[t]) =>
               /\ Once(rest)
               /\ Head(stack[t]).call = "asyncWrite" => ~Writes(rest, Head(stack[t]).answer)
  BY <1>2, <1>4, Flow, ZenonT(60) DEF IInv
<1>6. \A b : ~Writes(calls, b)
  BY <1>4, NamesSay
<1>7. /\ \A b : Writes(stack'[t], b) <=> Writes(stack[t], b) /\ b # a
      /\ Writes(stack[t], a)
  BY <1>2, <1>5, <1>6 DEF KeptInv, UniqueInv
<1>8. \A u \in Threads : Once(stack'[u])
  BY <1>2, <1>4, Quiet DEF KeptInv, IInv
<1>9. ~In(made, a) /\ ~In(pending, a) /\ \A u \in Threads \ {t} : ~Writes(stack[u], a)
  BY <1>7 DEF KeptInv, UniqueInv
<1>10. Inj(pending') /\ \A b : In(pending', b) <=> In(pending, b) \/ b = a
  BY <1>3, <1>9, InAppend DEF KeptInv, UniqueInv, IInv, TypeOK, Refused
<1>11. UniqueInv'
  <2>1. \A u, v \in Threads : u # v => \A b : ~(Writes(stack'[u], b) /\ Writes(stack'[v], b))
    BY <1>5, <1>7 DEF KeptInv, UniqueInv
  <2>2. \A u \in Threads : \A b : Writes(stack'[u], b) => ~In(pending', b) /\ ~In(made, b)
    BY <1>5, <1>7, <1>9, <1>10 DEF KeptInv, UniqueInv
  <2>3. \A b : In(pending', b) => ~In(made, b)
    BY <1>9, <1>10 DEF KeptInv, UniqueInv
  <2> QED
    BY <1>2, <1>8, <1>10, <2>1, <2>2, <2>3 DEF UniqueInv, KeptInv
<1>12. ControlInv'
  BY <1>2 DEF ControlInv, KeptInv
<1>13. HeldInv'
  <2>1. \A u \in Threads : \A x : Holds(stack'[u], x) <=> Holds(stack[u], x)
    BY <1>2, <1>4, QuietHeld DEF IInv
  <2> QED
    BY <1>2, <2>1 DEF HeldInv, KeptInv, Closing
<1>14. \A b : Kept(b)' <=> Kept(b)
  BY <1>2, <1>5, <1>7, <1>10 DEF Kept
<1> QED
  BY <1>1, <1>11, <1>12, <1>13, <1>14, EffectKept

LEMMA AsyncWriteKept ==
    ASSUME IInv, KeptInv, NEW t \in Threads, AsyncWrite(t)
    PROVE  KeptInv'
<1>1. stack[t] # <<>> /\ Head(stack[t]).call = "asyncWrite" /\ ssl # "handshake"
  BY WriterPast DEF AsyncWrite, At
<1>2. sock' = sock
  BY DEF AsyncWrite
<1>3. CASE Closing /\ Goes(t, <<>>) /\ UNCHANGED <<ssl, made, writeBio, pending, retries, failed>>
  <2>1. ~Live'
    BY <1>2, <1>3 DEF Live, Active, Closing
  <2>2. PICK calls \in Seq(Calls) : calls = <<>> /\ Names(calls) = {} /\ Goes(t, calls)
    BY <1>3, Pushed
  <2> QED
    BY <1>3, <2>1, <2>2, DroppedKept
<1>4. CASE Fails(t)
  <2>1. ~Live'
    BY <1>1, <1>4 DEF Live, Fails, Writable, IInv, TypeOK
  <2>2. PICK calls \in Seq(Calls) : calls = <<Call("close")>> /\ Names(calls) = {"close"}
    BY Pushed
  <2>3. Goes(t, calls) /\ (ssl' = ssl \/ ssl' = "failed") /\ UNCHANGED <<made, writeBio, pending>>
    BY <1>4, <2>2 DEF Fails
  <2> QED
    BY <2>1, <2>2, <2>3, DroppedKept
<1> QED
  BY <1>3, <1>4, TakenKept, RefusedKept DEF AsyncWrite

LEMMA FlushKept ==
    ASSUME IInv, KeptInv, NEW t \in Threads, FlushSslBuffer(t)
    PROVE  KeptInv'
<1>1. TypeOK' /\ \E cs : Effect(t, cs)
  BY FlushEffect DEF IInv
<1>2. /\ stack[t] # <<>> /\ Head(stack[t]).call = "flushSslBuffer"
      /\ sock' = sock /\ wire' = wire /\ ssl' = ssl /\ made' = made /\ pending' = pending
  BY DEF FlushSslBuffer, At
<1>3. PICK calls \in Seq(Calls) :
         /\ Goes(t, calls) /\ "asyncWrite" \notin Names(calls)
         /\ \A x : In(writeBio', x) \/ Holds(calls, x) <=> In(writeBio, x)
  <2>1. CASE Goes(t, <<>>) /\ writeBio' = writeBio
    BY <2>1, Pushed, EmptyHasNone
  <2>2. CASE Goes(t, <<SocketWriteOf(writeBio), Call("flushSslBuffer")>>) /\ writeBio' = <<>>
    <3>1. PICK calls : calls = <<SocketWriteOf(writeBio), Call("flushSslBuffer")>>
      OBVIOUS
    <3>2. calls \in Seq(Calls) /\ Names(calls) = {"socketWrite", "flushSslBuffer"}
      BY <3>1, Pushed DEF IInv, TypeOK
    <3>3. /\ Len(calls) = 2 /\ calls[1] = SocketWriteOf(writeBio)
          /\ calls[2] = Call("flushSslBuffer")
      BY <3>1
    <3>4. /\ SocketWriteOf(writeBio).call = "socketWrite" /\ SocketWriteOf(writeBio).chunk = writeBio
          /\ Call("flushSslBuffer").call = "flushSslBuffer"
      BY DEF SocketWriteOf, Call
    <3>5. \A x : Holds(calls, x) <=> In(writeBio, x)
      BY <3>3, <3>4 DEF Holds
    <3>6. \A x : ~In(writeBio', x)
      BY <2>2, EmptyHasNone
    <3> QED
      BY <2>2, <3>1, <3>2, <3>5, <3>6
  <2> QED
    BY <2>1, <2>2 DEF FlushSslBuffer
<1>4. \A u \in Threads : Once(stack'[u]) /\ \A a : Writes(stack'[u], a) <=> Writes(stack[u], a)
  BY <1>2, <1>3, Quiet DEF KeptInv, IInv
<1>5. UniqueInv'
  BY <1>2, <1>4, UniqueFewer DEF KeptInv, IInv
<1>6. ControlInv'
  BY <1>2 DEF KeptInv, ControlInv
<1>7. HeldInv'
  <2>1. PICK rest \in Seq(Calls) :
           /\ \A u \in Threads \ {t} : stack'[u] = stack[u]
           /\ \A x : Holds(stack'[t], x) <=> Holds(calls, x) \/ Holds(rest, x)
           /\ \A x : Holds(stack[t], x) <=>
                 \/ Head(stack[t]).call = "socketWrite" /\ In(Head(stack[t]).chunk, x)
                 \/ Holds(rest, x)
    <3>1. TypeOK /\ t \in Threads /\ stack[t] # <<>> /\ calls \in Seq(Calls) /\ Goes(t, calls)
      BY <1>2, <1>3 DEF IInv
    <3> QED
      BY ONLY <3>1, Flow, ZenonT(60)
  <2>2. ASSUME NEW x
        PROVE  \/ In(writeBio', x) \/ \E u \in Threads : Holds(stack'[u], x)
               <=> \/ In(writeBio, x) \/ \E u \in Threads : Holds(stack[u], x)
    <3>1. Holds(stack[t], x) <=> Holds(rest, x)
      BY <1>2, <2>1
    <3>2. \A u \in Threads : u # t => (Holds(stack'[u], x) <=> Holds(stack[u], x))
      BY <2>1
    <3> QED
      BY <1>3, <2>1, <3>1, <3>2
  <2>3. ~Closing' => ~Closing
    BY <1>2 DEF Closing
  <2> QED
    BY <1>2, <2>2, <2>3 DEF KeptInv, HeldInv
<1>8. \A a : Kept(a)' <=> Kept(a)
  BY <1>2, <1>4 DEF Kept
<1> QED
  BY <1>1, <1>5, <1>6, <1>7, <1>8, EffectKept

LEMMA SocketWriteKept ==
    ASSUME IInv, KeptInv, NEW t \in Threads, SocketWrite(t)
    PROVE  KeptInv'
<1>1. TypeOK' /\ \E cs : Effect(t, cs)
  BY SocketWriteEffect DEF IInv
<1>2. /\ stack[t] # <<>> /\ Head(stack[t]).call = "socketWrite" /\ Goes(t, <<>>)
      /\ sock' = sock /\ ssl' = ssl /\ made' = made /\ writeBio' = writeBio /\ pending' = pending
  BY DEF SocketWrite, At
<1>3. PICK calls \in Seq(Calls) : calls = <<>> /\ Names(calls) = {} /\ Goes(t, calls)
  BY <1>2, Pushed
<1>4. \A u \in Threads : Once(stack'[u]) /\ \A a : Writes(stack'[u], a) <=> Writes(stack[u], a)
  BY <1>2, <1>3, Quiet DEF KeptInv, IInv
<1>5. UniqueInv'
  BY <1>2, <1>4, UniqueFewer DEF KeptInv, IInv
<1>6. ControlInv'
  BY <1>2 DEF KeptInv, ControlInv
<1>7. HeldInv'
  <2>1. CASE Closing
    BY <1>2, <2>1 DEF HeldInv, Closing
  <2>2. CASE ~Closing
    <3>1. PICK rest \in Seq(Calls) :
             /\ \A u \in Threads \ {t} : stack'[u] = stack[u]
             /\ \A x : Holds(stack'[t], x) <=> Holds(calls, x) \/ Holds(rest, x)
             /\ \A x : Holds(stack[t], x) <=>
                   \/ Head(stack[t]).call = "socketWrite" /\ In(Head(stack[t]).chunk, x)
                   \/ Holds(rest, x)
      <4>1. TypeOK /\ t \in Threads /\ stack[t] # <<>> /\ calls \in Seq(Calls) /\ Goes(t, calls)
        BY <1>2, <1>3 DEF IInv
      <4> QED
        BY ONLY <4>1, Flow, ZenonT(60)
    <3>2. PICK chunk \in Seq(OutRecords) : chunk = Head(stack[t]).chunk
      BY <1>2, HeadCall, CallParts DEF IInv
    <3>3. \A x : In(wire', x) <=> In(wire, x) \/ In(chunk, x)
      <4>1. wire' = wire \o chunk /\ wire \in Seq(OutRecords)
        BY <2>2, <3>2 DEF SocketWrite, IInv, TypeOK
      <4> QED
        BY <4>1, InConcat
    <3>4. \A x : ~Holds(calls, x)
      BY <1>3, NamesSay
    <3>5. ASSUME NEW x
          PROVE  \/ In(wire', x) \/ \E u \in Threads : Holds(stack'[u], x)
                 <=> \/ In(wire, x) \/ \E u \in Threads : Holds(stack[u], x)
      <4>1. Holds(stack[t], x) <=> In(chunk, x) \/ Holds(rest, x)
        BY <1>2, <3>1, <3>2
      <4>2. Holds(stack'[t], x) <=> Holds(rest, x)
        BY <3>1, <3>4
      <4>3. \A u \in Threads : u # t => (Holds(stack'[u], x) <=> Holds(stack[u], x))
        BY <3>1
      <4> QED
        BY <3>3, <4>1, <4>2, <4>3
    <3> QED
      BY <1>2, <2>2, <3>5 DEF KeptInv, HeldInv
  <2> QED
    BY <2>1, <2>2
<1>8. \A a : Kept(a)' <=> Kept(a)
  BY <1>2, <1>4 DEF Kept
<1> QED
  BY <1>1, <1>5, <1>6, <1>7, <1>8, EffectKept

\* The pending writes, as calls, write just those.
LEMMA RetriedWrites ==
    ASSUME NEW p \in Seq(Answers), Inj(p)
    PROVE  LET c == [i \in DOMAIN p |-> AsyncWriteOf(p[i])]
           IN  Once(c) /\ (\A a : Writes(c, a) <=> In(p, a)) /\ \A x : ~Holds(c, x)
<1>1. PICK c : c = [i \in DOMAIN p |-> AsyncWriteOf(p[i])]
  OBVIOUS
<1>2. c \in Seq(Calls) /\ Len(c) = Len(p)
  BY <1>1, Retried
<1>3. \A i \in 1 .. Len(p) : c[i].call = "asyncWrite" /\ c[i].answer = p[i]
  BY <1>1 DEF AsyncWriteOf
<1>4. \A x : ~Holds(c, x)
  BY <1>2, <1>3 DEF Holds
<1>5. \A a : Writes(c, a) <=> In(p, a)
  BY <1>2, <1>3 DEF Writes, In
<1>6. Once(c)
  BY <1>2, <1>3 DEF Once, Inj
<1> QED
  BY <1>1, <1>4, <1>5, <1>6

LEMMA RetryKept ==
    ASSUME IInv, KeptInv, NEW t \in Threads, Retry(t)
    PROVE  KeptInv'
<1>1. TypeOK' /\ \E cs : Effect(t, cs)
  BY RetryEffect DEF IInv
<1>2. /\ stack[t] # <<>> /\ Head(stack[t]).call = "retry" /\ pending' = <<>>
      /\ sock' = sock /\ wire' = wire /\ ssl' = ssl /\ made' = made /\ writeBio' = writeBio
  BY DEF Retry, At, SwappedAway
<1>3. PICK calls : calls = [i \in DOMAIN pending |-> AsyncWriteOf(pending[i])]
  OBVIOUS
<1>4. pending \in Seq(Answers) /\ Inj(pending)
  BY DEF IInv, TypeOK, KeptInv, UniqueInv
<1>5. /\ calls \in Seq(Calls) /\ Goes(t, calls)
      /\ Once(calls) /\ (\A a : Writes(calls, a) <=> In(pending, a)) /\ \A x : ~Holds(calls, x)
  BY <1>3, <1>4, Retried, RetriedWrites DEF Retry
<1>6. PICK rest \in Seq(Calls) :
         /\ \A u \in Threads \ {t} : stack'[u] = stack[u]
         /\ \A a : Writes(stack'[t], a) <=> Writes(calls, a) \/ Writes(rest, a)
         /\ \A a : Writes(stack[t], a) <=>
               \/ Head(stack[t]).call = "asyncWrite" /\ Head(stack[t]).answer = a
               \/ Writes(rest, a)
         /\ \A x : Holds(stack'[t], x) <=> Holds(calls, x) \/ Holds(rest, x)
         /\ \A x : Holds(stack[t], x) <=>
               \/ Head(stack[t]).call = "socketWrite" /\ In(Head(stack[t]).chunk, x)
               \/ Holds(rest, x)
         /\ Once(stack[t]) => Once(rest)
         /\ Once(calls) /\ Once(rest) /\ (\A a : ~(Writes(calls, a) /\ Writes(rest, a)))
               => Once(stack'[t])
  BY <1>2, <1>5, Flow, ZenonT(60) DEF IInv
<1>7. /\ \A a : Writes(stack[t], a) <=> Writes(rest, a)
      /\ \A a : Writes(stack'[t], a) <=> In(pending, a) \/ Writes(stack[t], a)
      /\ \A x : Holds(stack'[t], x) <=> Holds(stack[t], x)
  BY <1>2, <1>5, <1>6
<1>8. \A a : ~In(pending', a)
  BY <1>2, EmptyHasNone
<1>9. UniqueInv'
  <2>1. \A a : ~(Writes(calls, a) /\ Writes(rest, a))
    BY <1>5, <1>7 DEF KeptInv, UniqueInv
  <2>2. \A u \in Threads : Once(stack'[u])
    BY <1>5, <1>6, <2>1 DEF KeptInv, UniqueInv
  <2>3. \A u, v \in Threads : u # v => \A a : ~(Writes(stack'[u], a) /\ Writes(stack'[v], a))
    BY <1>6, <1>7 DEF KeptInv, UniqueInv
  <2>4. \A u \in Threads : \A a : Writes(stack'[u], a) => ~In(made, a)
    BY <1>6, <1>7 DEF KeptInv, UniqueInv
  <2>5. Inj(pending')
    BY <1>2, EmptyHasNone
  <2> QED
    BY <1>2, <1>8, <2>2, <2>3, <2>4, <2>5 DEF UniqueInv, KeptInv
<1>10. ControlInv'
  BY <1>2 DEF ControlInv, KeptInv
<1>11. HeldInv'
  BY <1>2, <1>6, <1>7 DEF HeldInv, KeptInv, Closing
<1>12. \A a : Kept(a)' <=> Kept(a)
  <2> SUFFICES ASSUME NEW a
               PROVE  Kept(a)' <=> Kept(a)
    OBVIOUS
  <2>1. (\E u \in Threads : Writes(stack'[u], a))
           <=> In(pending, a) \/ \E u \in Threads : Writes(stack[u], a)
    BY <1>6, <1>7
  <2> QED
    BY <1>2, <1>8, <2>1 DEF Kept
<1> QED
  BY <1>1, <1>9, <1>10, <1>11, <1>12, EffectKept

\* SSL_shutdown says goodbye once.
LEMMA CloseKept ==
    ASSUME IInv, KeptInv, NEW t \in Threads, Close(t)
    PROVE  KeptInv'
<1>1. TypeOK' /\ \E cs : Effect(t, cs)
  BY CloseEffect DEF IInv
<1>2. /\ stack[t] # <<>> /\ Head(stack[t]).call = "close"
      /\ sock' = sock /\ wire' = wire /\ pending' = pending
  BY DEF Close, At
<1>3. PICK calls \in Seq(Calls) :
         Goes(t, calls) /\ "asyncWrite" \notin Names(calls) /\ "socketWrite" \notin Names(calls)
  <2>1. CASE Goes(t, <<>>)
    BY <2>1, Pushed
  <2>2. CASE Goes(t, <<Call("closeSocket")>>)
    BY <2>2, Pushed
  <2>3. CASE Goes(t, FlushCalls \o <<Call("closeSocket")>>)
    BY <2>3, Pushed
  <2> QED
    BY <2>1, <2>2, <2>3 DEF Close
<1>4. /\ \A u \in Threads : Once(stack'[u]) /\ \A a : Writes(stack'[u], a) <=> Writes(stack[u], a)
      /\ \A u \in Threads : \A x : Holds(stack'[u], x) <=> Holds(stack[u], x)
  BY <1>2, <1>3, Quiet, QuietHeld DEF KeptInv, IInv
<1>5. \/ made' = made /\ writeBio' = writeBio /\ ssl' = ssl
      \/ /\ Make(Control("notify"))
         /\ \/ ssl = "notified" /\ ssl' = "over"
            \/ ssl = "ready" /\ ssl' = "shutdown"
  BY DEF Close
<1>6. CASE made' = made /\ writeBio' = writeBio /\ ssl' = ssl
  <2>1. UniqueInv'
    BY <1>2, <1>4, <1>6, UniqueFewer DEF KeptInv, IInv
  <2>2. ControlInv'
    BY <1>6 DEF KeptInv, ControlInv
  <2>3. HeldInv'
    BY <1>2, <1>4, <1>6 DEF KeptInv, HeldInv, Closing
  <2>4. \A a : Kept(a)' <=> Kept(a)
    BY <1>2, <1>4, <1>6 DEF Kept
  <2> QED
    BY <1>1, <2>1, <2>2, <2>3, <2>4, EffectKept
<1>7. CASE /\ Make(Control("notify"))
           /\ \/ ssl = "notified" /\ ssl' = "over"
              \/ ssl = "ready" /\ ssl' = "shutdown"
  <2>1. PICK e \in OutRecords : e = Control("notify")
    BY RecordTypes
  <2>2. ~In(made, e)
    BY <1>7, <2>1 DEF KeptInv, ControlInv
  <2>3. /\ \A x : In(made', x) <=> In(made, x) \/ x = e
        /\ \A x : In(writeBio', x) <=> In(writeBio, x) \/ x = e
    BY <1>7, <2>1, InAppend DEF IInv, TypeOK, Make
  <2>4. UniqueInv'
    BY <1>2, <1>4, <1>7, <2>1, <2>2, UniqueFewer DEF KeptInv, IInv, Make
  <2>5. ControlInv'
    <3>1. Control("hello") # e /\ Control("alert") # e
      BY <2>1 DEF Control
    <3> QED
      BY <1>7, <2>1, <2>3, <3>1 DEF KeptInv, ControlInv
  <2>6. HeldInv'
    BY <1>2, <1>4, <2>3 DEF KeptInv, HeldInv, Closing
  <2>7. \A a : Kept(a)' <=> Kept(a) \/ a = e
    BY <1>2, <1>4, <2>3 DEF Kept
  <2>8. e.req = 0
    BY <2>1 DEF Control
  <2> QED
    BY <1>1, <2>4, <2>5, <2>6, <2>7, <2>8, EffectKept
<1> QED
  BY <1>5, <1>6, <1>7

LEMMA CloseSocketKept ==
    ASSUME IInv, KeptInv, NEW t \in Threads, CloseSocket(t)
    PROVE  KeptInv'
<1>1. TypeOK' /\ \E cs : Effect(t, cs)
  BY CloseSocketEffect DEF IInv
<1>2. /\ stack[t] # <<>> /\ Head(stack[t]).call = "closeSocket" /\ Goes(t, <<>>)
      /\ wire' = wire /\ ssl' = ssl /\ made' = made /\ writeBio' = writeBio /\ pending' = pending
      /\ Closing'
  BY DEF CloseSocket, At, Closing
<1>3. PICK calls \in Seq(Calls) : calls = <<>> /\ Names(calls) = {} /\ Goes(t, calls)
  BY <1>2, Pushed
<1>4. \A u \in Threads : Once(stack'[u]) /\ \A a : Writes(stack'[u], a) <=> Writes(stack[u], a)
  BY <1>2, <1>3, Quiet DEF KeptInv, IInv
<1>5. UniqueInv'
  BY <1>2, <1>4, UniqueFewer DEF KeptInv, IInv
<1>6. ControlInv'
  BY <1>2 DEF KeptInv, ControlInv
<1>7. HeldInv'
  BY <1>2 DEF HeldInv
<1>8. \A a : Kept(a)' <=> Kept(a)
  BY <1>2, <1>4 DEF Kept
<1> QED
  BY <1>1, <1>5, <1>6, <1>7, <1>8, EffectKept

LEMMA StepKept ==
    ASSUME IInv, KeptInv, NEW t \in Threads, Step(t)
    PROVE  KeptInv'
BY AsyncWriteKept, FlushKept, SocketWriteKept, RetryKept, CloseKept, CloseSocketKept DEF Step

------------------------------------------------------------------------------
(* Events                                                                   *)

\* An idle loop begins with a call that writes nothing, or with none.
LEMMA EventKept ==
    ASSUME IInv, KeptInv, LoopIdle, NEW calls \in Seq(Calls),
           Names(calls) \subseteq {"close", "read"}, stack' = [stack EXCEPT ![Loop] = calls],
           ssl' = ssl, pending' = pending, made' = made, writeBio' = writeBio, wire' = wire,
           fetched' \subseteq fetched, Closing => Closing'
    PROVE  /\ UniqueInv' /\ ControlInv' /\ DueInv' /\ HeldInv'
           /\ \A a : Kept(a)' <=> Kept(a)
           /\ \A r \in Reqs : /\ Due(r)' => Due(r)
                              /\ Known(r)' => Known(r)
                              /\ fetched' = fetched => (Due(r)' <=> Due(r))
<1>1. /\ stack'[Loop] = calls /\ \A r \in Reqs : stack'[r] = stack[r]
      /\ \A r \in Reqs : \A name : On(r, name)' <=> On(r, name)
      /\ stack[Loop] = <<>>
  BY Begun, IdleFacts DEF IInv
<1>2. "asyncWrite" \notin Names(calls) /\ "socketWrite" \notin Names(calls) /\ "onRead" \notin Names(calls)
  OBVIOUS
<1>3. /\ Once(calls) /\ (\A a : ~Writes(calls, a)) /\ (\A x : ~Holds(calls, x))
      /\ (\A r : ~In(calls, OnReadOf(r)))
  BY <1>2, NamesSay
<1>4. /\ (\A a : ~Writes(stack[Loop], a)) /\ (\A x : ~Holds(stack[Loop], x))
      /\ \A r : ~In(stack[Loop], OnReadOf(r))
  BY <1>1, EmptyHasNone
<1>5. \A t \in Threads : t = Loop \/ t \in Reqs
  BY DEF Threads
<1>6. /\ \A t \in Threads : \A a : Writes(stack'[t], a) <=> Writes(stack[t], a)
      /\ \A t \in Threads : \A x : Holds(stack'[t], x) <=> Holds(stack[t], x)
  BY <1>1, <1>3, <1>4, <1>5
<1>7. \A t \in Threads : Once(stack'[t])
  BY <1>1, <1>3, <1>5, ThreadFacts DEF KeptInv, UniqueInv
<1>8. UniqueInv'
  BY <1>6, <1>7, UniqueFewer DEF KeptInv, IInv
<1>9. ControlInv'
  BY DEF KeptInv, ControlInv
<1>10. HeldInv'
  BY <1>6 DEF KeptInv, HeldInv
<1>11. \A a : Kept(a)' <=> Kept(a)
  BY <1>6 DEF Kept
<1>12. \A r \in Reqs : (OnReading(r)' <=> OnReading(r)) /\ (Working(r)' <=> Working(r))
  BY <1>1, <1>3, <1>4 DEF OnReading, Working
<1>13. \A r \in Reqs : /\ Due(r)' => Due(r)
                       /\ fetched' = fetched => (Due(r)' <=> Due(r))
  BY <1>12 DEF Due
<1>14. DueInv'
  BY <1>1, <1>11, <1>12, <1>13, DueFewer DEF KeptInv
<1>15. \A r \in Reqs : Known(r)' => Known(r)
  BY <1>1, <1>11, <1>13 DEF Known
<1> QED
  BY <1>8, <1>9, <1>10, <1>11, <1>13, <1>14, <1>15

LEMMA IdleStack ==
    ASSUME IInv, LoopIdle, stack' = stack
    PROVE  stack' = [stack EXCEPT ![Loop] = <<>>]
BY IdleFacts DEF IInv, TypeOK

LEMMA SocketEventKept ==
    ASSUME IInv, KeptInv, ListenEvent \/ EndEvent \/ CloseEvent
    PROVE  KeptInv'
<1>1. /\ LoopIdle /\ (Closing => Closing')
      /\ UNCHANGED <<ssl, readBio, writeBio, pending, stack, fetched, sent, made, wire, crashed>>
      /\ sock' # "new" /\ (sock = "new" \/ ~Active')
  BY DEF ListenEvent, EndEvent, CloseEvent, Closing, Active
<1>2. PICK calls \in Seq(Calls) : calls = <<>> /\ Names(calls) = {}
  BY Pushed
<1>3. stack' = [stack EXCEPT ![Loop] = calls]
  BY <1>1, <1>2, IdleStack
<1>4. /\ UniqueInv' /\ ControlInv' /\ DueInv' /\ HeldInv'
      /\ \A r \in Reqs : Known(r)' => Known(r)
  BY <1>1, <1>2, <1>3, EventKept
<1>5. ReadInv'
  BY <1>1, <1>4, ReadFewer DEF KeptInv, IInv
<1>6. ConserveInv'
  <2>1. CASE sock = "new"
    <3>1. sent' = 0
      BY <1>1, <2>1 DEF KeptInv, ReadInv
    <3> QED
      BY <3>1 DEF ConserveInv
  <2>2. CASE ~Active'
    BY <2>2 DEF ConserveInv, Live
  <2> QED
    BY <1>1, <2>1, <2>2
<1> QED
  BY <1>4, <1>5, <1>6 DEF KeptInv

LEMMA CloseCallKept ==
    ASSUME IInv, KeptInv, ErrorEvent \/ TimerEvent
    PROVE  KeptInv'
<1>1. PICK calls \in Seq(Calls) : calls = <<Call("close")>> /\ Names(calls) = {"close"}
  BY Pushed
<1>2. /\ LoopIdle /\ stack' = [stack EXCEPT ![Loop] = calls]
      /\ UNCHANGED <<sock, ssl, readBio, writeBio, pending, fetched, sent, made, wire, crashed>>
  BY <1>1 DEF ErrorEvent, TimerEvent, TimerCalls
<1>3. /\ UniqueInv' /\ ControlInv' /\ DueInv' /\ HeldInv'
      /\ \A a : Kept(a)' <=> Kept(a)
      /\ \A r \in Reqs : (Known(r)' => Known(r)) /\ (Due(r)' <=> Due(r))
  BY <1>1, <1>2, EventKept DEF Closing
<1>4. ReadInv'
  BY <1>2, <1>3, ReadFewer DEF KeptInv, IInv
<1>5. ConserveInv'
  <2>1. sent \in Nat /\ 1 .. sent \subseteq Reqs
    BY MaxRequestsAssumption DEF IInv, TypeOK, Reqs
  <2> QED
    BY <1>2, <1>3, <2>1 DEF KeptInv, ConserveInv, Live, Active, InBio, Ready
<1> QED
  BY <1>3, <1>4, <1>5 DEF KeptInv

LEMMA DataKept ==
    ASSUME IInv, KeptInv, NEW batch \in Batches, DataEvent(batch)
    PROVE  KeptInv'
<1>1. PICK m \in {0, 1}, n \in 0 .. MaxRequests - sent :
         /\ batch \in Seq(InRecords) /\ Len(batch) \in Nat \ {0}
         /\ \A i \in 1 .. Len(batch) :
               batch[i].kind = "app" => i \in m + 1 .. m + n /\ batch[i].req = sent + i - m
         /\ Cardinality({i \in DOMAIN batch : batch[i].kind = "app"}) = n
         /\ \A i \in 1 .. n : m + i \in 1 .. Len(batch) /\ batch[m + i].req = sent + i
  BY BatchFacts DEF IInv
<1>2. PICK calls \in Seq(Calls) : calls = <<Call("read")>> /\ Names(calls) = {"read"}
  BY Pushed
<1>3. /\ LoopIdle /\ sock = "open" /\ readBio' = readBio \o batch
      /\ stack' = [stack EXCEPT ![Loop] = calls]
      /\ UNCHANGED <<sock, ssl, writeBio, pending, fetched, made, wire, crashed>>
  BY <1>2 DEF DataEvent
<1>4. sent' = sent + n
  BY <1>1 DEF DataEvent
<1>5. /\ UniqueInv' /\ ControlInv' /\ DueInv' /\ HeldInv'
      /\ \A a : Kept(a)' <=> Kept(a)
      /\ \A r \in Reqs : (Known(r)' => Known(r)) /\ (Due(r)' <=> Due(r))
  BY <1>2, <1>3, EventKept DEF Closing
<1>6. readBio \in Seq(InRecords) /\ sent \in Nat /\ n \in Nat /\ 1 .. sent + n \subseteq Reqs
  BY MaxRequestsAssumption DEF IInv, TypeOK, Reqs
<1>7. /\ Len(readBio') = Len(readBio) + Len(batch) /\ Len(readBio) \in Nat
      /\ \A i \in 1 .. Len(readBio) + Len(batch) :
            readBio'[i] = IF i <= Len(readBio) THEN readBio[i] ELSE batch[i - Len(readBio)]
  BY <1>1, <1>3, <1>6, ConcatProperties, LenProperties
<1>8. ASSUME NEW i \in 1 .. Len(readBio'), IsApp(i)'
      PROVE  \/ i \in 1 .. Len(readBio) /\ IsApp(i) /\ readBio'[i] = readBio[i]
             \/ readBio'[i].req > sent
  <2>1. CASE i <= Len(readBio)
    <3>1. i \in 1 .. Len(readBio) /\ readBio'[i] = readBio[i]
      BY <1>1, <1>7, <2>1
    <3> QED
      BY <1>8, <3>1 DEF IsApp
  <2>2. CASE i > Len(readBio)
    <3>1. i - Len(readBio) \in 1 .. Len(batch) /\ readBio'[i] = batch[i - Len(readBio)]
      BY <1>1, <1>7, <2>2
    <3>2. PICK j \in 1 .. Len(batch) : j = i - Len(readBio)
      BY <3>1
    <3>3. j \in m + 1 .. m + n /\ batch[j].req = sent + j - m
      BY <1>1, <1>8, <3>1, <3>2 DEF IsApp
    <3>4. sent + j - m > sent
      BY <1>6, <3>3
    <3> QED
      BY <3>1, <3>2, <3>3, <3>4
  <2> QED
    BY <1>7, <2>1, <2>2
<1>9. ReadInv'
  <2>1. ASSUME NEW r \in Reqs, Known(r)', NEW i \in 1 .. Len(readBio'), IsApp(i)'
        PROVE  readBio'[i].req > r
    <3>1. r <= sent /\ \A j \in 1 .. Len(readBio) : IsApp(j) => readBio[j].req > r
      BY <1>5, <2>1 DEF KeptInv, ReadInv
    <3>2. TypeOK'
      BY DataKeeps DEF IInv
    <3>3. readBio'[i].req \in Nat /\ r \in Nat
      <4>1. readBio'[i] \in InRecords
        BY <2>1, <3>2, ElementOfSeq DEF TypeOK
      <4> QED
        BY <4>1, MaxRequestsAssumption DEF InRecords, Reqs
    <3> QED
      BY <1>6, <1>8, <2>1, <3>1, <3>3
  <2>2. \A r \in Reqs : Known(r)' => r <= sent'
    <3> SUFFICES ASSUME NEW r \in Reqs, Known(r)'
                 PROVE  r <= sent + n
      BY <1>4
    <3>1. r <= sent /\ r \in Nat
      BY <1>5, MaxRequestsAssumption DEF KeptInv, ReadInv, Reqs
    <3> QED
      BY <1>6, <3>1
  <2>3. sock' # "new"
    BY <1>3
  <2> QED
    BY <2>1, <2>2, <2>3 DEF ReadInv
<1>10. ConserveInv'
  <2> SUFFICES ASSUME Live', NEW r \in 1 .. sent + n
               PROVE  InBio(r)' \/ Due(r)' \/ Ready(r)'
    BY <1>4 DEF ConserveInv
  <2>1. Live
    BY <1>3 DEF Live, Active
  <2>2. r \in Reqs
    BY <1>6
  <2>3. CASE r <= sent
    <3>1. InBio(r) \/ Due(r) \/ Ready(r)
      BY <1>6, <2>1, <2>3 DEF KeptInv, ConserveInv
    <3>2. InBio(r) => InBio(r)'
      <4> SUFFICES ASSUME NEW i \in 1 .. Len(readBio), readBio[i].req = r
                   PROVE  \E j \in 1 .. Len(readBio') : readBio'[j].req = r
        BY DEF InBio
      <4>1. i \in 1 .. Len(readBio) + Len(batch) /\ i <= Len(readBio)
        BY <1>1, <1>7
      <4> QED
        BY <1>7, <4>1
    <3> QED
      BY <1>5, <2>2, <3>1, <3>2 DEF Ready
  <2>4. CASE ~(r <= sent)
    <3>1. PICK k \in 1 .. n : r = sent + k
      <4>1. r - sent \in 1 .. n /\ r = sent + (r - sent)
        BY <1>6, <2>4
      <4> QED
        BY <4>1
    <3>2. PICK j \in 1 .. Len(batch) : j = m + k /\ batch[j].req = r
      BY <1>1, <3>1
    <3>3. /\ Len(readBio) + j \in 1 .. Len(readBio) + Len(batch)
          /\ ~(Len(readBio) + j <= Len(readBio)) /\ Len(readBio) + j - Len(readBio) = j
      BY <1>1, <1>7, <3>2
    <3>4. readBio'[Len(readBio) + j].req = r /\ Len(readBio) + j \in 1 .. Len(readBio')
      BY <1>7, <3>2, <3>3
    <3> QED
      BY <3>4 DEF InBio
  <2> QED
    BY <2>3, <2>4
<1> QED
  BY <1>5, <1>9, <1>10 DEF KeptInv

------------------------------------------------------------------------------
(* Answers                                                                  *)

\* The request r, which was due, is answered: thread t will write what it is owed.
LEMMA FreshKept ==
    ASSUME IInv, KeptInv, NEW t \in Threads, NEW r \in Reqs, Due(r),
           \A u \in Threads \ {t} : stack'[u] = stack[u],
           Once(stack'[t]),
           \A a : Writes(stack'[t], a) => Writes(stack[t], a) \/ (a \in Answers /\ a.req = r),
           \A a : Writes(stack[t], a) => Writes(stack'[t], a),
           \A x : Holds(stack'[t], x) <=> Holds(stack[t], x),
           UNCHANGED <<sock, ssl, readBio, writeBio, pending, sent, made, wire, crashed>>,
           \A q \in Reqs : /\ OnReading(q)' => OnReading(q)
                           /\ q # r => (Due(q)' <=> Due(q))
                           /\ q \in fetched' => q \in fetched
                           /\ stack'[q] = stack[q] \/ \A name : On(q, name)' => name \in Basic
                           /\ stack[q] = <<>> => stack'[q] = <<>>,
           ~Due(r)', Ready(r)'
    PROVE  KeptInv'
<1>1. ASSUME NEW a, a.req = r
      PROVE  ~In(pending, a) /\ ~In(made, a) /\ \A u \in Threads : ~Writes(stack[u], a)
  <2>1. ~Kept(a)
    BY <1>1 DEF KeptInv, DueInv
  <2> QED
    BY <2>1 DEF Kept
<1>2. UniqueInv'
  <2>1. \A u \in Threads : Once(stack'[u])
    BY DEF KeptInv, UniqueInv
  <2>2. ASSUME NEW u \in Threads, NEW v \in Threads, u # v, NEW a, Writes(stack'[u], a)
        PROVE  ~Writes(stack'[v], a)
    <3>1. CASE u = t
      BY <1>1, <2>2, <3>1 DEF KeptInv, UniqueInv
    <3>2. CASE v = t
      BY <1>1, <2>2, <3>2 DEF KeptInv, UniqueInv
    <3>3. CASE u # t /\ v # t
      BY <2>2, <3>3 DEF KeptInv, UniqueInv
    <3> QED
      BY <3>1, <3>2, <3>3
  <2>3. ASSUME NEW u \in Threads, NEW a, Writes(stack'[u], a)
        PROVE  ~In(pending, a) /\ ~In(made, a)
    <3>1. CASE u = t
      BY <1>1, <2>3, <3>1 DEF KeptInv, UniqueInv
    <3>2. CASE u # t
      BY <2>3, <3>2 DEF KeptInv, UniqueInv
    <3> QED
      BY <3>1, <3>2
  <2>4. pending' = pending /\ made' = made
    OBVIOUS
  <2> QED
    BY <2>1, <2>2, <2>3, <2>4 DEF KeptInv, UniqueInv
<1>3. ControlInv'
  BY DEF KeptInv, ControlInv
<1>4. /\ \A a : Kept(a)' => Kept(a) \/ a.req = r
      /\ \A a : Kept(a) => Kept(a)'
  <2>1. \A u \in Threads : \A a : Writes(stack[u], a) => Writes(stack'[u], a)
    OBVIOUS
  <2>2. \A u \in Threads : \A a : Writes(stack'[u], a) => Writes(stack[u], a) \/ a.req = r
    OBVIOUS
  <2> QED
    BY <2>1, <2>2 DEF Kept
<1>5. DueInv'
  <2>1. \A q \in Reqs : Due(q)' => Due(q)
    OBVIOUS
  <2>2. \A a : Kept(a)' => Kept(a) \/ ~(a.req \in Reqs /\ Due(a.req)')
    BY <1>4
  <2> QED
    BY <2>1, <2>2, DueFewer DEF KeptInv
<1>6. ReadInv'
  <2>1. \A q \in Reqs : Known(q)' => Known(q)
    BY <1>4 DEF Known
  <2> QED
    BY <2>1, ReadFewer DEF KeptInv, IInv
<1>7. HeldInv'
  <2>1. \A u \in Threads : \A x : Holds(stack'[u], x) <=> Holds(stack[u], x)
    OBVIOUS
  <2> QED
    BY <2>1 DEF KeptInv, HeldInv, Closing
<1>8. ConserveInv'
  <2>1. sent \in Nat /\ 1 .. sent \subseteq Reqs
    BY MaxRequestsAssumption DEF IInv, TypeOK, Reqs
  <2> SUFFICES ASSUME Live', NEW q \in 1 .. sent
               PROVE  InBio(q)' \/ Due(q)' \/ Ready(q)'
    BY DEF ConserveInv
  <2>2. Live
    BY DEF Live, Active
  <2>3. InBio(q) \/ Due(q) \/ Ready(q)
    BY <2>2 DEF KeptInv, ConserveInv
  <2> QED
    BY <1>4, <2>1, <2>3 DEF InBio, Ready
<1> QED
  BY <1>2, <1>3, <1>5, <1>6, <1>7, <1>8 DEF KeptInv

\* A file comes: its answers are written, if the connection is read from.
LEMMA AsyncKept ==
    ASSUME IInv, KeptInv, NEW r \in Reqs, AsyncEvent(r)
    PROVE  KeptInv'
<1>1. PICK parts \in FileAnswers :
          stack' = IF Active
                   THEN [stack EXCEPT ![Loop] =
                            [i \in DOMAIN parts |-> AsyncWriteOf([req |-> r, part |-> parts[i]])]]
                   ELSE stack
  BY DEF AsyncEvent
<1>2. /\ LoopIdle /\ r \in fetched /\ fetched' = fetched \ {r}
      /\ UNCHANGED <<sock, ssl, readBio, writeBio, pending, sent, made, wire, crashed>>
  BY DEF AsyncEvent
<1>3. CASE ~Active
  <2>1. PICK calls \in Seq(Calls) : calls = <<>> /\ Names(calls) = {}
    BY Pushed
  <2>2. stack' = [stack EXCEPT ![Loop] = calls]
    BY <1>1, <1>2, <1>3, <2>1, IdleStack
  <2>3. /\ UniqueInv' /\ ControlInv' /\ DueInv' /\ HeldInv'
        /\ \A q \in Reqs : Known(q)' => Known(q)
    BY <1>2, <2>1, <2>2, EventKept DEF Closing
  <2>4. ReadInv'
    BY <1>2, <2>3, ReadFewer DEF KeptInv, IInv
  <2>5. ConserveInv'
    BY <1>2, <1>3 DEF ConserveInv, Live, Active
  <2> QED
    BY <2>3, <2>4, <2>5 DEF KeptInv
<1>4. CASE Active
  <2>1. PICK n \in {1, 2} : /\ DOMAIN parts = 1 .. n
                            /\ \A i \in 1 .. n : parts[i] \in {"whole", "head", "body"}
                            /\ \A i, j \in 1 .. n : parts[i] = parts[j] => i = j
                            /\ \/ \E i \in 1 .. n : parts[i] = "whole"
                               \/ /\ \E i \in 1 .. n : parts[i] = "head"
                                  /\ \E i \in 1 .. n : parts[i] = "body"
    <3>1. CASE parts = <<"whole">>
      BY <3>1
    <3>2. CASE parts = <<"head", "body">>
      BY <3>2
    <3> QED
      BY <3>1, <3>2 DEF FileAnswers
  <2>2. PICK calls : calls = [i \in 1 .. n |-> AsyncWriteOf([req |-> r, part |-> parts[i]])]
    OBVIOUS
  <2>3. \A i \in 1 .. n : [req |-> r, part |-> parts[i]] \in Answers
    BY <2>1 DEF Answers
  <2>4. /\ \A i \in 1 .. n : calls[i] \in Calls
        /\ \A i \in 1 .. n : calls[i].call = "asyncWrite"
        /\ \A i \in 1 .. n : calls[i].answer = [req |-> r, part |-> parts[i]]
    BY <2>2, <2>3, CallTypes DEF AsyncWriteOf
  <2>5. calls \in Seq(Calls) /\ Len(calls) = n
    BY <2>2, <2>4
  <2>6. Names(calls) \subseteq {"asyncWrite"}
    BY <2>4, <2>5 DEF Names
  <2>7. /\ Once(calls)
        /\ \A a : Writes(calls, a) => a \in Answers /\ a.req = r
        /\ Writes(calls, Part(r, "whole")) \/ (Writes(calls, Part(r, "head")) /\ Writes(calls, Part(r, "body")))
    <3>1. \A i, j \in 1 .. n : calls[i].answer = calls[j].answer => parts[i] = parts[j]
      <4>1. ASSUME NEW i \in 1 .. n
            PROVE  calls[i].answer.part = parts[i]
        <5>1. PICK p : p = parts[i]
          OBVIOUS
        <5>2. calls[i].answer = [req |-> r, part |-> p]
          BY <2>4, <5>1
        <5>3. [req |-> r, part |-> p].part = p
          OBVIOUS
        <5> QED
          BY <5>1, <5>2, <5>3
      <4> QED
        BY <4>1
    <3>2. Once(calls)
      BY <2>1, <2>5, <3>1 DEF Once
    <3>3. \A a : Writes(calls, a) => \E i \in 1 .. n : a = [req |-> r, part |-> parts[i]]
      BY <2>4, <2>5 DEF Writes
    <3>4. \A i \in 1 .. n : Writes(calls, Part(r, parts[i]))
      BY <2>4, <2>5 DEF Writes, Part
    <3> QED
      BY <2>1, <2>3, <3>2, <3>3, <3>4
  <2>8. stack' = [stack EXCEPT ![Loop] = calls]
    BY <1>1, <1>4, <2>1, <2>2
  <2>9. /\ stack'[Loop] = calls /\ \A q \in Reqs : stack'[q] = stack[q]
        /\ stack[Loop] = <<>>
    BY <1>2, <2>5, <2>8, Begun, IdleFacts DEF IInv
  <2>10. /\ (\A a : ~Writes(stack[Loop], a)) /\ (\A x : ~Holds(stack[Loop], x))
         /\ (\A x : ~Holds(calls, x)) /\ \A q : ~In(calls, OnReadOf(q))
    <3>1. "socketWrite" \notin Names(calls) /\ "onRead" \notin Names(calls)
      BY <2>6
    <3> QED
      BY <2>9, <3>1, EmptyHasNone, NamesSay
  <2>11. \A u \in Threads \ {Loop} : u \in Reqs /\ stack'[u] = stack[u]
    BY <2>9 DEF Threads
  <2>12. \A q \in Reqs : ~OnReading(q)' /\ ~OnReading(q) /\ (Working(q)' <=> Working(q))
    BY <2>9, <2>10, EmptyHasNone DEF OnReading, Working, On
  <2>13. ~Working(r)
    BY <1>2, EmptyHasNone DEF KeptInv, DueInv, Working, On
  <2>14. Due(r) /\ ~Due(r)' /\ \A q \in Reqs : q # r => (Due(q)' <=> Due(q))
    BY <1>2, <2>12, <2>13 DEF Due
  <2>15. Ready(r)'
    <3>1. Loop \in Threads
      BY ThreadFacts
    <3> QED
      BY <2>7, <2>9, <3>1 DEF Ready, Kept
  <2>16. \A q \in Reqs : /\ OnReading(q)' => OnReading(q)
                         /\ q # r => (Due(q)' <=> Due(q))
                         /\ q \in fetched' => q \in fetched
                         /\ stack'[q] = stack[q]
    BY <1>2, <2>9, <2>12, <2>14
  <2>17. Loop \in Threads
    BY ThreadFacts
  <2> HIDE DEF KeptInv, IInv
  <2>18. /\ Once(stack'[Loop])
         /\ \A a : Writes(stack'[Loop], a) => Writes(stack[Loop], a) \/ (a \in Answers /\ a.req = r)
         /\ \A a : Writes(stack[Loop], a) => Writes(stack'[Loop], a)
         /\ \A x : Holds(stack'[Loop], x) <=> Holds(stack[Loop], x)
    BY <2>7, <2>9, <2>10
  <2> QED
    BY <1>2, <2>11, <2>14, <2>15, <2>16, <2>17, <2>18, FreshKept
<1> QED
  BY <1>3, <1>4

------------------------------------------------------------------------------
(* The loop: onRead, the count after it, and SSL_read                       *)

\* There is no onRead below another call.
LEMMA OnReadOnTop ==
    ASSUME IInv, stack[Loop] # <<>>
    PROVE  \A r : ~In(Tail(stack[Loop]), OnReadOf(r))
<1>1. PICK s \in Seq(Calls) : s = stack[Loop]
  BY ThreadFacts DEF IInv, TypeOK
<1>2. PICK rest : rest = Tail(s)
  OBVIOUS
<1>3. /\ Len(s) \in Nat \ {0} /\ Len(rest) = Len(s) - 1
      /\ \A i \in 1 .. Len(rest) : rest[i] = s[i + 1]
  BY <1>1, <1>2, InTail
<1>4. ~Below(Loop, "onRead")
  BY LoopFacts DEF IInv
<1>5. ASSUME NEW r, NEW i \in 1 .. Len(rest), rest[i] = OnReadOf(r)
      PROVE  FALSE
  <2>1. i + 1 \in 2 .. Len(s) /\ s[i + 1].call = "onRead"
    BY <1>3, <1>5 DEF OnReadOf
  <2> QED
    BY <1>1, <1>4, <2>1 DEF Below
<1> QED
  BY <1>1, <1>2, <1>5 DEF In

\* onRead, the count and SSL_read give way to calls that write and hold nothing.
LEMMA LoopQuiet ==
    ASSUME IInv, KeptInv, stack[Loop] # <<>>, Head(stack[Loop]).call \in {"onRead", "count", "read"},
           NEW calls \in Seq(Calls), Names(calls) \subseteq {"onRead", "count", "read", "close",
                                                             "flushSslBuffer", "retry"},
           Goes(Loop, calls)
    PROVE  /\ \A t \in Threads : Once(stack'[t])
           /\ \A t \in Threads : \A a : Writes(stack'[t], a) <=> Writes(stack[t], a)
           /\ \A t \in Threads : \A x : Holds(stack'[t], x) <=> Holds(stack[t], x)
           /\ \A r \in Reqs : stack'[r] = stack[r]
           /\ \A r : In(stack'[Loop], OnReadOf(r)) <=> In(calls, OnReadOf(r))
           /\ \A r : In(stack[Loop], OnReadOf(r)) <=> OnReadOf(r) = Head(stack[Loop])
<1>1. Loop \in Threads /\ TypeOK /\ ShapeInv
  BY ThreadFacts DEF IInv
<1>2. PICK rest \in Seq(Calls) :
         /\ \A u \in Threads \ {Loop} : stack'[u] = stack[u]
         /\ \A c : In(stack'[Loop], c) <=> In(calls, c) \/ In(rest, c)
         /\ \A c : In(stack[Loop], c) <=> c = Head(stack[Loop]) \/ In(rest, c)
         /\ rest = Tail(stack[Loop])
  BY <1>1, Flow, ZenonT(60)
<1>3. "asyncWrite" \notin Names(calls) /\ "socketWrite" \notin Names(calls)
  OBVIOUS
<1>4. \A u \in Threads : Once(stack'[u]) /\ \A a : Writes(stack'[u], a) <=> Writes(stack[u], a)
  BY <1>1, <1>3, Quiet DEF KeptInv
<1>5. \A u \in Threads : \A x : Holds(stack'[u], x) <=> Holds(stack[u], x)
  BY <1>1, <1>3, QuietHeld
<1>6. \A r : ~In(rest, OnReadOf(r))
  BY <1>2, OnReadOnTop
<1>7. \A r \in Reqs : stack'[r] = stack[r]
  BY <1>2, ThreadFacts
<1> QED
  BY <1>2, <1>4, <1>5, <1>6, <1>7

LEMMA OnReadKept ==
    ASSUME IInv, KeptInv, OnRead
    PROVE  KeptInv'
<1>1. /\ stack[Loop] # <<>> /\ Head(stack[Loop]).call = "onRead"
      /\ UNCHANGED <<sock, ssl, readBio, writeBio, pending, sent, made, wire>>
  BY DEF OnRead, At
<1>2. PICK r \in Reqs : r = Head(stack[Loop]).req
  BY <1>1, HeadCall, CallParts, ThreadFacts DEF IInv
<1>3. Loop \in Threads /\ TypeOK
  BY ThreadFacts DEF IInv
<1>4. Head(stack[Loop]) = OnReadOf(r)
  <2>1. Head(stack[Loop]) \in Calls
    BY <1>1, <1>3, HeadCall
  <2> QED
    BY <1>1, <1>2, <2>1 DEF Calls, OnReadOf
<1>5. OnReading(r) /\ r \notin fetched /\ stack[r] = <<>> /\ ~Working(r) /\ Due(r)
  <2>1. PICK s \in Seq(Calls) : s = stack[Loop]
    BY <1>3 DEF TypeOK
  <2>2. In(s, Head(s))
    BY <1>1, <2>1, InTail
  <2>3. OnReading(r)
    BY <1>4, <2>1, <2>2 DEF OnReading
  <2> QED
    BY <2>3 DEF KeptInv, DueInv, Due, Working, On
<1>6. PICK count \in Seq(Calls) : count = <<Call("count")>> /\ Names(count) = {"count"}
  BY Pushed
<1>7. \A q : ~In(count, OnReadOf(q))
  BY <1>6, NamesSay
<1>8. CASE crashed' = TRUE /\ UNCHANGED <<stack, fetched>>
  <2>1. UniqueInv' /\ ControlInv' /\ HeldInv'
    BY <1>1, <1>8 DEF KeptInv, UniqueInv, ControlInv, HeldInv, Closing
  <2>2. \A q \in Reqs : (Due(q)' <=> Due(q)) /\ (OnReading(q)' <=> OnReading(q))
    BY <1>8 DEF Due, OnReading, Working, On
  <2>3. \A a : Kept(a)' <=> Kept(a)
    BY <1>1, <1>8 DEF Kept
  <2>4. DueInv'
    BY <1>8, <2>2, <2>3, DueFewer DEF KeptInv
  <2>5. ReadInv'
    <3>1. \A q \in Reqs : Known(q)' => Known(q)
      BY <1>8, <2>2, <2>3 DEF Known
    <3> QED
      BY <1>1, <1>3, <3>1, ReadFewer DEF KeptInv
  <2>6. ConserveInv'
    BY <1>8 DEF ConserveInv, Live
  <2> QED
    BY <2>1, <2>4, <2>5, <2>6 DEF KeptInv
<1>9. CASE ~Active /\ Goes(Loop, <<Call("count")>>) /\ UNCHANGED fetched
  <2>1. /\ \A t \in Threads : Once(stack'[t])
        /\ \A t \in Threads : \A a : Writes(stack'[t], a) <=> Writes(stack[t], a)
        /\ \A t \in Threads : \A x : Holds(stack'[t], x) <=> Holds(stack[t], x)
        /\ \A q \in Reqs : stack'[q] = stack[q]
        /\ \A q : In(stack'[Loop], OnReadOf(q)) <=> In(count, OnReadOf(q))
    BY <1>1, <1>6, <1>9, LoopQuiet
  <2>2. UniqueInv' /\ ControlInv' /\ HeldInv'
    <3>1. UniqueInv'
      BY <1>1, <1>3, <2>1, UniqueFewer DEF KeptInv
    <3>2. ControlInv'
      BY <1>1 DEF KeptInv, ControlInv
    <3>3. HeldInv'
      BY <1>1, <2>1 DEF KeptInv, HeldInv, Closing
    <3> QED
      BY <3>1, <3>2, <3>3
  <2>3. \A q \in Reqs : ~OnReading(q)' /\ (Due(q)' => Due(q))
    BY <1>7, <1>9, <2>1 DEF OnReading, Due, Working, On
  <2>4. \A a : Kept(a)' <=> Kept(a)
    BY <1>1, <2>1 DEF Kept
  <2>5. DueInv'
    BY <1>9, <2>1, <2>3, <2>4, DueFewer DEF KeptInv
  <2>6. ReadInv'
    <3>1. \A q \in Reqs : Known(q)' => Known(q)
      BY <2>1, <2>3, <2>4 DEF Known
    <3> QED
      BY <1>1, <1>3, <3>1, ReadFewer DEF KeptInv
  <2>7. ConserveInv'
    BY <1>1, <1>9 DEF ConserveInv, Live, Active
  <2> QED
    BY <2>2, <2>5, <2>6, <2>7 DEF KeptInv
<1>10. CASE /\ Goes(Loop, <<AsyncWriteOf([req |-> r, part |-> "whole"]), Call("count")>>)
            /\ UNCHANGED <<fetched, crashed>>
  <2>1. PICK a \in Answers : a = Part(r, "whole")
    BY DEF Answers, Part
  <2>2. PICK calls : calls = <<AsyncWriteOf(a), Call("count")>>
    OBVIOUS
  <2>3. calls \in Seq(Calls) /\ Names(calls) = {"asyncWrite", "count"} /\ Goes(Loop, calls)
    BY <1>10, <2>1, <2>2, Pushed DEF Part
  <2>4. Once(calls) /\ \A b : Writes(calls, b) <=> b = a
    BY <2>2, OneWrite
  <2>5. PICK rest \in Seq(Calls) :
           /\ \A u \in Threads \ {Loop} : stack'[u] = stack[u]
           /\ \A c : In(stack'[Loop], c) <=> In(calls, c) \/ In(rest, c)
           /\ \A b : Writes(stack'[Loop], b) <=> Writes(calls, b) \/ Writes(rest, b)
           /\ \A b : Writes(stack[Loop], b) <=>
                 \/ Head(stack[Loop]).call = "asyncWrite" /\ Head(stack[Loop]).answer = b
                 \/ Writes(rest, b)
           /\ \A x : Holds(stack'[Loop], x) <=> Holds(calls, x) \/ Holds(rest, x)
           /\ \A x : Holds(stack[Loop], x) <=>
                 \/ Head(stack[Loop]).call = "socketWrite" /\ In(Head(stack[Loop]).chunk, x)
                 \/ Holds(rest, x)
           /\ Once(stack[Loop]) => Once(rest)
           /\ Once(calls) /\ Once(rest) /\ (\A b : ~(Writes(calls, b) /\ Writes(rest, b)))
                 => Once(stack'[Loop])
           /\ rest = Tail(stack[Loop])
    BY <1>1, <1>3, <2>3, Flow, ZenonT(60)
  <2>6. \A b : Writes(stack[Loop], b) <=> Writes(rest, b)
    BY <1>1, <2>5
  <2>7. "socketWrite" \notin Names(calls) /\ "onRead" \notin Names(calls)
    BY <2>3
  <2>8. (\A x : ~Holds(calls, x)) /\ \A q : ~In(calls, OnReadOf(q))
    BY <2>7, NamesSay
  <2>9. ~Writes(stack[Loop], a)
    <3>1. ~Kept(a)
      BY <1>5, <2>1 DEF KeptInv, DueInv, Part
    <3> QED
      BY <1>3, <3>1 DEF Kept
  <2>10. Once(stack'[Loop])
    BY <2>4, <2>5, <2>6, <2>9, <1>3 DEF KeptInv, UniqueInv
  <2>11. /\ \A b : Writes(stack'[Loop], b) => Writes(stack[Loop], b) \/ (b \in Answers /\ b.req = r)
         /\ \A b : Writes(stack[Loop], b) => Writes(stack'[Loop], b)
         /\ \A x : Holds(stack'[Loop], x) <=> Holds(stack[Loop], x)
    <3>1. \A b : Writes(stack'[Loop], b) <=> b = a \/ Writes(stack[Loop], b)
      BY <2>4, <2>5, <2>6
    <3>2. a.req = r
      BY <2>1 DEF Part
    <3>3. \A x : Holds(stack'[Loop], x) <=> Holds(stack[Loop], x)
      BY <1>1, <2>5, <2>8
    <3> QED
      BY <3>1, <3>2, <3>3
  <2>12. \A q : ~In(rest, OnReadOf(q))
    BY <1>1, <2>5, OnReadOnTop
  <2>13. \A q \in Reqs : /\ ~OnReading(q)' /\ stack'[q] = stack[q]
                         /\ OnReading(q) => q = r
    <3>1. \A q \in Reqs : OnReading(q) => OnReadOf(q) = OnReadOf(r)
      <4>1. PICK s \in Seq(Calls) : s = stack[Loop]
        BY <1>3 DEF TypeOK
      <4>2. \A c : In(s, c) <=> c = Head(s) \/ In(rest, c)
        BY <1>1, <2>5, <4>1, InTail
      <4> QED
        BY <1>4, <2>12, <4>1, <4>2 DEF OnReading
    <3>2. \A q \in Reqs : OnReadOf(q) = OnReadOf(r) => q = r
      BY DEF OnReadOf
    <3> QED
      BY <2>5, <2>8, <2>12, <3>1, <3>2, ThreadFacts DEF OnReading
  <2>14. ~Due(r)' /\ \A q \in Reqs : q # r => (Due(q)' <=> Due(q))
    BY <1>5, <1>10, <2>13 DEF Due, Working, On
  <2>15. Ready(r)'
    <3>1. Writes(stack'[Loop], Part(r, "whole"))
      BY <2>1, <2>4, <2>5
    <3> QED
      BY <1>3, <3>1 DEF Ready, Kept
  <2>16. \A q \in Reqs : /\ OnReading(q)' => OnReading(q)
                         /\ q # r => (Due(q)' <=> Due(q))
                         /\ q \in fetched' => q \in fetched
                         /\ stack'[q] = stack[q]
    BY <1>10, <2>13, <2>14
  <2>17. crashed' = crashed
    BY <1>10
  <2> QED
    BY <1>1, <1>3, <1>5, <2>5, <2>10, <2>11, <2>14, <2>15, <2>16, <2>17, FreshKept
<1>11. CASE /\ stack' = [stack EXCEPT ![Loop] = <<Call("count")>> \o Tail(@),
                                      ![r] = <<Call("route"), Call("respond")>>]
            /\ UNCHANGED <<fetched, crashed>>
  <2>1. PICK work \in Seq(Calls) :
           work = <<Call("route"), Call("respond")>> /\ Names(work) = {"route", "respond"}
    BY Pushed
  <2>2. PICK n \in Seq(Calls) : n = count \o Tail(stack[Loop])
    <3>1. PICK s \in Seq(Calls) : s = stack[Loop]
      BY <1>3 DEF TypeOK
    <3> QED
      BY <1>1, <3>1, Spliced
  <2>3. PICK mid : mid = [stack EXCEPT ![Loop] = n]
    OBVIOUS
  <2>4. stack' = [mid EXCEPT ![r] = work]
    BY <1>3, <1>6, <1>11, <2>1, <2>2, <2>3, ThreadFacts DEF TypeOK
  <2>5. stack'[Loop] = n /\ stack'[r] = work /\ \A q \in Reqs : q # r => stack'[q] = stack[q]
    BY <1>3, <2>3, <2>4, ThreadFacts DEF TypeOK
  <2>6. (\A a : ~Writes(work, a)) /\ (\A x : ~Holds(work, x)) /\ Once(work)
    <3>1. "asyncWrite" \notin Names(work) /\ "socketWrite" \notin Names(work)
      BY <2>1
    <3> QED
      BY <3>1, NamesSay
  <2>7. /\ Once(n) /\ (\A a : Writes(n, a) <=> Writes(stack[Loop], a))
        /\ (\A x : Holds(n, x) <=> Holds(stack[Loop], x)) /\ \A q : ~In(n, OnReadOf(q))
    <3>1. PICK s \in Seq(Calls) : s = stack[Loop]
      BY <1>3 DEF TypeOK
    <3>2. PICK rest \in Seq(Calls) : rest = Tail(s)
      BY <1>1, <3>1, InTail
    <3>3. s # <<>> /\ s \in Seq(Calls) /\ count \in Seq(Calls) /\ n \in Seq(Calls) /\ n = count \o rest
      BY <1>1, <1>6, <2>2, <3>1, <3>2
    <3>4. Replaces(n, s, count, rest)
      BY <3>2, <3>3, Replaced
    <3>5. "asyncWrite" \notin Names(count) /\ "socketWrite" \notin Names(count)
      BY <1>6
    <3>6. Once(count) /\ (\A a : ~Writes(count, a)) /\ \A x : ~Holds(count, x)
      BY <3>5, NamesSay
    <3>7. \A q : ~In(rest, OnReadOf(q))
      BY <1>1, <3>1, <3>2, OnReadOnTop
    <3>8. Once(s) /\ Head(s).call = "onRead"
      BY <1>1, <1>3, <3>1 DEF KeptInv, UniqueInv
    <3> QED
      BY <1>7, <3>1, <3>4, <3>6, <3>7, <3>8 DEF Replaces
  <2>8. (\A a : ~Writes(stack[r], a)) /\ \A x : ~Holds(stack[r], x)
    BY <1>5, EmptyHasNone
  <2>9. /\ \A t \in Threads : Once(stack'[t])
        /\ \A t \in Threads : \A a : Writes(stack'[t], a) <=> Writes(stack[t], a)
        /\ \A t \in Threads : \A x : Holds(stack'[t], x) <=> Holds(stack[t], x)
    <3>1. \A t \in Threads : t = Loop \/ t = r \/ (t \in Reqs /\ t # r)
      BY DEF Threads
    <3> QED
      BY <1>3, <2>5, <2>6, <2>7, <2>8, <3>1 DEF KeptInv, UniqueInv
  <2>10. UniqueInv' /\ ControlInv' /\ HeldInv'
    <3>1. UniqueInv'
      BY <1>1, <1>3, <2>9, UniqueFewer DEF KeptInv
    <3>2. ControlInv'
      BY <1>1 DEF KeptInv, ControlInv
    <3>3. HeldInv'
      BY <1>1, <2>9 DEF KeptInv, HeldInv, Closing
    <3> QED
      BY <3>1, <3>2, <3>3
  <2>11. \A a : Kept(a)' <=> Kept(a)
    BY <1>1, <2>9 DEF Kept
  <2>12. \A q \in Reqs : ~OnReading(q)' /\ (q # r => (Working(q)' <=> Working(q)))
    BY <2>5, <2>7 DEF OnReading, Working, On
  <2>13. Working(r)'
    <3>1. Len(work) = 2 /\ work[2] = Call("respond") /\ Call("respond").call = "respond"
      BY <2>1, Singles, CallTypes
    <3> QED
      BY <2>5, <3>1 DEF Working, On
  <2>14. \A q \in Reqs : OnReading(q) => q = r
    <3>1. \A q \in Reqs : OnReading(q) => OnReadOf(q) = OnReadOf(r)
      <4>1. PICK s \in Seq(Calls) : s = stack[Loop]
        BY <1>3 DEF TypeOK
      <4>2. \A c : In(s, c) <=> c = Head(s) \/ In(Tail(s), c)
        BY <1>1, <4>1, InTail
      <4>3. \A q : ~In(Tail(s), OnReadOf(q))
        BY <1>1, <4>1, OnReadOnTop
      <4> QED
        BY <1>4, <4>1, <4>2, <4>3 DEF OnReading
    <3> QED
      BY <3>1 DEF OnReadOf
  <2>15. \A q \in Reqs : Due(q)' <=> Due(q)
    BY <1>5, <1>11, <2>12, <2>13, <2>14 DEF Due
  <2>16. DueInv'
    <3> SUFFICES ASSUME NEW q \in Reqs
                 PROVE  /\ \/ stack'[q] \in {<<Call("route"), Call("respond")>>, <<Call("respond")>>}
                           \/ \A name : On(q, name)' => name \in Basic
                        /\ Due(q)' => \A a : Kept(a)' => a.req # q
                        /\ OnReading(q)' => q \notin fetched' /\ stack'[q] = <<>>
                        /\ q \in fetched' => stack'[q] = <<>>
      BY DEF DueInv
    <3>1. Due(q)' => \A a : Kept(a)' => a.req # q
      BY <2>11, <2>15 DEF KeptInv, DueInv
    <3>2. CASE q = r
      BY <1>5, <1>11, <2>1, <2>5, <2>12, <3>1, <3>2
    <3>3. CASE q # r
      BY <1>11, <2>5, <2>12, <3>1, <3>3 DEF KeptInv, DueInv, On
    <3> QED
      BY <3>2, <3>3
  <2>17. ReadInv'
    <3>1. \A q \in Reqs : Known(q)' => Known(q)
      BY <1>5, <2>5, <2>11, <2>15 DEF Known
    <3> QED
      BY <1>1, <1>3, <3>1, ReadFewer DEF KeptInv
  <2>18. ConserveInv'
    <3>1. sent \in Nat /\ 1 .. sent \subseteq Reqs
      BY <1>3, MaxRequestsAssumption DEF TypeOK, Reqs
    <3> QED
      BY <1>1, <1>11, <2>11, <2>15, <3>1 DEF KeptInv, ConserveInv, Live, Active, InBio, Ready
  <2> QED
    BY <2>10, <2>16, <2>17, <2>18 DEF KeptInv
<1>12. CASE /\ fetched' = fetched \cup {r} /\ Goes(Loop, <<Call("count")>>) /\ UNCHANGED crashed
  <2>1. /\ \A t \in Threads : Once(stack'[t])
        /\ \A t \in Threads : \A a : Writes(stack'[t], a) <=> Writes(stack[t], a)
        /\ \A t \in Threads : \A x : Holds(stack'[t], x) <=> Holds(stack[t], x)
        /\ \A q \in Reqs : stack'[q] = stack[q]
        /\ \A q : In(stack'[Loop], OnReadOf(q)) <=> In(count, OnReadOf(q))
        /\ \A q : In(stack[Loop], OnReadOf(q)) <=> OnReadOf(q) = Head(stack[Loop])
    BY <1>1, <1>6, <1>12, LoopQuiet
  <2>2. UniqueInv' /\ ControlInv' /\ HeldInv'
    <3>1. UniqueInv'
      BY <1>1, <1>3, <2>1, UniqueFewer DEF KeptInv
    <3>2. ControlInv'
      BY <1>1 DEF KeptInv, ControlInv
    <3>3. HeldInv'
      BY <1>1, <2>1 DEF KeptInv, HeldInv, Closing
    <3> QED
      BY <3>1, <3>2, <3>3
  <2>3. \A a : Kept(a)' <=> Kept(a)
    BY <1>1, <2>1 DEF Kept
  <2>4. \A q \in Reqs : ~OnReading(q)' /\ (Working(q)' <=> Working(q)) /\ (OnReading(q) => q = r)
    <3>1. \A q \in Reqs : OnReading(q) => OnReadOf(q) = OnReadOf(r)
      BY <1>4, <2>1 DEF OnReading
    <3>2. \A q \in Reqs : OnReading(q) => q = r
      BY <3>1 DEF OnReadOf
    <3> QED
      BY <1>7, <2>1, <3>2 DEF OnReading, Working, On
  <2>5. \A q \in Reqs : Due(q)' <=> Due(q)
    BY <1>5, <1>12, <2>4 DEF Due
  <2>6. DueInv'
    <3> SUFFICES ASSUME NEW q \in Reqs
                 PROVE  /\ \/ stack'[q] \in {<<Call("route"), Call("respond")>>, <<Call("respond")>>}
                           \/ \A name : On(q, name)' => name \in Basic
                        /\ Due(q)' => \A a : Kept(a)' => a.req # q
                        /\ OnReading(q)' => q \notin fetched' /\ stack'[q] = <<>>
                        /\ q \in fetched' => stack'[q] = <<>>
      BY DEF DueInv
    <3>1. Due(q)' => \A a : Kept(a)' => a.req # q
      BY <2>3, <2>5 DEF KeptInv, DueInv
    <3>2. q \in fetched' => stack'[q] = <<>>
      BY <1>5, <1>12, <2>1 DEF KeptInv, DueInv
    <3>3. \/ stack'[q] \in {<<Call("route"), Call("respond")>>, <<Call("respond")>>}
          \/ \A name : On(q, name)' => name \in Basic
      BY <2>1 DEF KeptInv, DueInv, On
    <3> QED
      BY <2>4, <3>1, <3>2, <3>3
  <2>7. ReadInv'
    <3>1. \A q \in Reqs : Known(q)' => Known(q)
      BY <2>1, <2>3, <2>5 DEF Known
    <3> QED
      BY <1>1, <1>3, <3>1, ReadFewer DEF KeptInv
  <2>8. ConserveInv'
    <3>1. sent \in Nat /\ 1 .. sent \subseteq Reqs
      BY <1>3, MaxRequestsAssumption DEF TypeOK, Reqs
    <3> QED
      BY <1>1, <1>12, <2>3, <2>5, <3>1 DEF KeptInv, ConserveInv, Live, Active, InBio, Ready
  <2> QED
    BY <2>2, <2>6, <2>7, <2>8 DEF KeptInv
<1> QED
  BY <1>2, <1>8, <1>9, <1>10, <1>11, <1>12 DEF OnRead

LEMMA CountKept ==
    ASSUME IInv, KeptInv, CountRequest
    PROVE  KeptInv'
<1>1. /\ stack[Loop] # <<>> /\ Head(stack[Loop]).call = "count" /\ Goes(Loop, <<>>)
      /\ sock' = sock \/ sock' = "closing"
      /\ UNCHANGED <<ssl, readBio, writeBio, pending, fetched, sent, made, wire, crashed>>
  BY DEF CountRequest, At
<1>2. PICK calls \in Seq(Calls) : calls = <<>> /\ Names(calls) = {} /\ Goes(Loop, calls)
  BY <1>1, Pushed
<1>3. /\ \A t \in Threads : Once(stack'[t])
      /\ \A t \in Threads : \A a : Writes(stack'[t], a) <=> Writes(stack[t], a)
      /\ \A t \in Threads : \A x : Holds(stack'[t], x) <=> Holds(stack[t], x)
      /\ \A q \in Reqs : stack'[q] = stack[q]
      /\ \A q : In(stack'[Loop], OnReadOf(q)) <=> In(calls, OnReadOf(q))
      /\ \A q : In(stack[Loop], OnReadOf(q)) <=> OnReadOf(q) = Head(stack[Loop])
  BY <1>1, <1>2, LoopQuiet
<1>4. UniqueInv'
  BY <1>1, <1>3, UniqueFewer DEF KeptInv, IInv
<1>5. ControlInv'
  BY <1>1 DEF KeptInv, ControlInv
<1>6. HeldInv'
  BY <1>1, <1>3 DEF KeptInv, HeldInv, Closing
<1>7. \A a : Kept(a)' <=> Kept(a)
  BY <1>1, <1>3 DEF Kept
<1>8. \A q \in Reqs : ~OnReading(q)' /\ ~OnReading(q) /\ (Due(q)' <=> Due(q))
  <2>1. \A q : ~In(calls, OnReadOf(q)) /\ OnReadOf(q) # Head(stack[Loop])
    <3>1. \A q : OnReadOf(q).call = "onRead"
      BY DEF OnReadOf
    <3> QED
      BY <1>1, <1>2, <3>1, EmptyHasNone
  <2> QED
    BY <1>1, <1>3, <2>1 DEF OnReading, Due, Working, On
<1>9. DueInv'
  BY <1>1, <1>3, <1>7, <1>8, DueFewer DEF KeptInv
<1>10. ReadInv'
  <2>1. \A q \in Reqs : Known(q)' => Known(q)
    BY <1>3, <1>7, <1>8 DEF Known
  <2>2. sock' = "new" => sock = "new"
    BY <1>1
  <2> QED
    BY <1>1, <2>1, <2>2, ReadFewer DEF KeptInv, IInv
<1>11. ConserveInv'
  <2>1. sent \in Nat /\ 1 .. sent \subseteq Reqs
    BY MaxRequestsAssumption DEF IInv, TypeOK, Reqs
  <2>2. Live' => Live
    BY <1>1 DEF Live, Active
  <2> QED
    BY <1>1, <1>7, <1>8, <2>1, <2>2 DEF KeptInv, ConserveInv, InBio, Ready
<1> QED
  BY <1>4, <1>5, <1>6, <1>9, <1>10, <1>11 DEF KeptInv

------------------------------------------------------------------------------
(* The workers                                                              *)

LEMMA RouteKept ==
    ASSUME IInv, KeptInv, NEW r \in Reqs, Route(r)
    PROVE  KeptInv'
<1>1. /\ stack[r] # <<>> /\ Head(stack[r]).call = "route" /\ Goes(r, <<>>)
      /\ UNCHANGED <<sock, ssl, readBio, writeBio, pending, fetched, sent, made, wire, crashed>>
  BY DEF Route, At
<1>2. PICK calls \in Seq(Calls) : calls = <<>> /\ Names(calls) = {} /\ Goes(r, calls)
  BY <1>1, Pushed
<1>3. r \in Threads /\ r # Loop /\ TypeOK
  BY ThreadFacts DEF IInv
<1>4. "asyncWrite" \notin Names(calls) /\ "socketWrite" \notin Names(calls)
  BY <1>2
<1>5. \A u \in Threads : Once(stack'[u]) /\ \A a : Writes(stack'[u], a) <=> Writes(stack[u], a)
  BY <1>1, <1>2, <1>3, <1>4, Quiet DEF KeptInv
<1>6. \A u \in Threads : \A x : Holds(stack'[u], x) <=> Holds(stack[u], x)
  BY <1>1, <1>2, <1>3, <1>4, QuietHeld
<1>7. /\ \A u \in Threads \ {r} : stack'[u] = stack[u]
      /\ stack[r] = <<Call("route"), Call("respond")>> /\ stack'[r] = <<Call("respond")>>
  <2>1. /\ stack'[r] = calls \o Tail(stack[r])
        /\ \A u \in Threads \ {r} : stack'[u] = stack[u]
        /\ \A name : On(r, name) <=> name = Head(stack[r]).call \/ Below(r, name)
    BY <1>1, <1>2, <1>3, GoesOn
  <2>2. Call("route") \in Calls /\ Call("respond") \in Calls
    BY CallTypes
  <2>3. stack[r] = <<Call("route"), Call("respond")>>
    <3>1. On(r, "route") /\ "route" \notin Basic
      BY <1>1, <2>1 DEF Basic
    <3>2. Head(<<Call("respond")>>).call = "respond"
      BY <2>2, CallTypes
    <3> QED
      BY <1>1, <3>1, <3>2 DEF KeptInv, DueInv
  <2>4. stack'[r] = <<Call("respond")>>
    BY <1>2, <2>1, <2>2, <2>3
  <2> QED
    BY <2>1, <2>3, <2>4
<1>8. UniqueInv'
  BY <1>1, <1>3, <1>5, UniqueFewer DEF KeptInv
<1>9. ControlInv'
  BY <1>1 DEF KeptInv, ControlInv
<1>10. HeldInv'
  BY <1>1, <1>6 DEF KeptInv, HeldInv, Closing
<1>11. \A a : Kept(a)' <=> Kept(a)
  BY <1>1, <1>5 DEF Kept
<1>12. stack'[Loop] = stack[Loop] /\ \A q \in Reqs : q # r => stack'[q] = stack[q]
  BY <1>3, <1>7, ThreadFacts
<1>13. Working(r) /\ Working(r)'
  <2>1. PICK two, one : two = <<Call("route"), Call("respond")>> /\ one = <<Call("respond")>>
    OBVIOUS
  <2>2. Len(two) = 2 /\ two[2].call = "respond" /\ Len(one) = 1 /\ one[1].call = "respond"
    BY <2>1, CallTypes, Singles
  <2> QED
    BY <1>7, <2>1, <2>2 DEF Working, On
<1>14. \A q \in Reqs : (OnReading(q)' <=> OnReading(q)) /\ (Due(q)' <=> Due(q))
  BY <1>1, <1>12, <1>13 DEF OnReading, Due, Working, On
<1>15. DueInv'
  BY <1>1, <1>7, <1>11, <1>12, <1>14, DueFewer DEF KeptInv
<1>16. ReadInv'
  <2>1. \A q \in Reqs : Known(q)' => Known(q)
    BY <1>11, <1>12, <1>13, <1>14 DEF Known, Due
  <2> QED
    BY <1>1, <1>3, <2>1, ReadFewer DEF KeptInv
<1>17. ConserveInv'
  <2>1. sent \in Nat /\ 1 .. sent \subseteq Reqs
    BY <1>3, MaxRequestsAssumption DEF TypeOK, Reqs
  <2> QED
    BY <1>1, <1>11, <1>14, <2>1 DEF KeptInv, ConserveInv, Live, Active, InBio, Ready
<1> QED
  BY <1>8, <1>9, <1>10, <1>15, <1>16, <1>17 DEF KeptInv

LEMMA RespondKept ==
    ASSUME IInv, KeptInv, NEW r \in Reqs, Respond(r)
    PROVE  KeptInv'
<1>1. /\ stack[r] # <<>> /\ Head(stack[r]).call = "respond"
      /\ UNCHANGED <<sock, ssl, readBio, writeBio, pending, fetched, sent, made, wire, crashed>>
  BY DEF Respond, At
<1>2. r \in Threads /\ r # Loop /\ TypeOK /\ Call("respond") \in Calls
  BY ThreadFacts, CallTypes DEF IInv
<1>3. PICK s \in Seq(Calls) : s = stack[r]
  BY <1>2 DEF TypeOK
<1>4. Working(r)
  <2>1. 1 \in 1 .. Len(s) /\ Head(s) = s[1]
    BY <1>1, <1>3, InTail
  <2> QED
    BY <1>1, <1>3, <2>1 DEF Working, On
<1>5. stack[r] = <<Call("respond")>>
  <2>1. Call("route") \in Calls /\ Head(<<Call("route"), Call("respond")>>) = Call("route")
    BY CallTypes
  <2>2. stack[r] # <<Call("route"), Call("respond")>>
    BY <1>1, <2>1, CallTypes
  <2> QED
    BY <1>4, <2>2 DEF KeptInv, DueInv, Working, Basic
<1>6. Due(r) /\ r \notin fetched /\ ~OnReading(r)
  BY <1>1, <1>4 DEF KeptInv, DueInv, Due
<1>7. PICK a \in Answers : a = Part(r, "whole")
  BY DEF Answers, Part
<1>8. PICK calls \in Seq(Calls) :
         /\ Goes(r, calls) /\ Names(calls) \subseteq {"asyncWrite"}
         /\ calls = IF Closing THEN <<>> ELSE <<AsyncWriteOf(a)>>
  <2>1. CASE Closing
    BY <2>1, Pushed DEF Respond
  <2>2. CASE ~Closing
    BY <1>7, <2>2, Pushed DEF Respond, Part
  <2> QED
    BY <2>1, <2>2
<1>9. stack'[r] = calls /\ \A u \in Threads \ {r} : stack'[u] = stack[u]
  <2>1. stack'[r] = calls \o Tail(stack[r]) /\ \A u \in Threads \ {r} : stack'[u] = stack[u]
    BY <1>1, <1>2, <1>8, GoesOn
  <2>2. Tail(stack[r]) = <<>>
    BY <1>2, <1>5
  <2> QED
    BY <1>8, <2>1, <2>2, ConcatEmptySeq
<1>10. stack'[Loop] = stack[Loop] /\ \A q \in Reqs : q # r => stack'[q] = stack[q]
  BY <1>2, <1>9, ThreadFacts
<1>11. \A name : On(r, name)' <=> name \in Names(calls)
  BY <1>9 DEF On, Names
<1>12. \A q \in Reqs : /\ OnReading(q)' <=> OnReading(q)
                       /\ q # r => (Working(q)' <=> Working(q))
  BY <1>10 DEF OnReading, Working, On
<1>13. ~Due(r)' /\ \A q \in Reqs : q # r => (Due(q)' <=> Due(q))
  <2>1. ~Working(r)'
    BY <1>8, <1>11 DEF Working
  <2> QED
    BY <1>1, <1>6, <1>12, <2>1 DEF Due
<1>14. (\A b : ~Writes(stack[r], b)) /\ \A x : ~Holds(stack[r], x)
  <2>1. Len(s) = 1 /\ s[1].call = "respond"
    BY <1>1, <1>2, <1>3, <1>5
  <2> QED
    BY <1>3, <2>1 DEF Writes, Holds
<1>15. \A x : ~Holds(stack'[r], x)
  BY <1>8, <1>9, NamesSay
<1>16. \A q \in Reqs : /\ OnReading(q)' => OnReading(q)
                       /\ q # r => (Due(q)' <=> Due(q))
                       /\ q \in fetched' => q \in fetched
                       /\ stack'[q] = stack[q] \/ \A name : On(q, name)' => name \in Basic
                       /\ stack[q] = <<>> => stack'[q] = <<>>
  BY <1>1, <1>8, <1>10, <1>11, <1>12, <1>13 DEF Basic
<1>17. CASE Closing
  <2>1. calls = <<>>
    BY <1>8, <1>17
  <2>2. Once(stack'[r]) /\ \A b : ~Writes(stack'[r], b)
    BY <1>9, <2>1, EmptyHasNone
  <2>3. /\ \A u \in Threads : Once(stack'[u])
        /\ \A u \in Threads : \A b : Writes(stack'[u], b) <=> Writes(stack[u], b)
    BY <1>9, <1>14, <2>2 DEF KeptInv, UniqueInv
  <2>4. UniqueInv'
    BY <1>1, <1>2, <2>3, UniqueFewer DEF KeptInv
  <2>5. ControlInv'
    BY <1>1 DEF KeptInv, ControlInv
  <2>6. HeldInv' /\ ConserveInv'
    BY <1>1, <1>17 DEF HeldInv, ConserveInv, Live, Active, Closing
  <2>7. \A b : Kept(b)' <=> Kept(b)
    BY <1>1, <2>3 DEF Kept
  <2>8. DueInv'
    <3>1. \A q \in Reqs : Due(q)' => Due(q)
      BY <1>13, <1>16
    <3> QED
      BY <1>16, <2>7, <3>1, DueFewer DEF KeptInv
  <2>9. ReadInv'
    <3>1. \A q \in Reqs : Known(q)' => Known(q)
      BY <1>6, <1>16, <2>7 DEF Known
    <3> QED
      BY <1>1, <1>2, <3>1, ReadFewer DEF KeptInv
  <2> QED
    BY <2>4, <2>5, <2>6, <2>8, <2>9 DEF KeptInv
<1>18. CASE ~Closing
  <2>1. Once(stack'[r]) /\ \A b : Writes(stack'[r], b) <=> b = a
    <3>1. Once(calls) /\ \A b : Writes(calls, b) <=> b = a
      <4>1. calls = <<AsyncWriteOf(a)>>
        BY <1>8, <1>18
      <4> QED
        BY <4>1, OneWrite
    <3> QED
      BY <1>9, <3>1
  <2>2. /\ \A b : Writes(stack'[r], b) => Writes(stack[r], b) \/ (b \in Answers /\ b.req = r)
        /\ \A b : Writes(stack[r], b) => Writes(stack'[r], b)
        /\ \A x : Holds(stack'[r], x) <=> Holds(stack[r], x)
    <3>1. a.req = r
      BY <1>7 DEF Part
    <3> QED
      BY <1>14, <1>15, <2>1, <3>1
  <2>3. Ready(r)'
    BY <1>2, <1>7, <2>1 DEF Ready, Kept
  <2> QED
    BY <1>1, <1>2, <1>6, <1>9, <1>13, <1>16, <2>1, <2>2, <2>3, FreshKept
<1> QED
  BY <1>17, <1>18

------------------------------------------------------------------------------
(* SSL_read                                                                 *)

\* A record that is no request, or none: at most TLS says something itself.
LEMMA ReadKept ==
    ASSUME IInv, KeptInv, At(Loop, "read"),
           \/ stack' = stack
           \/ \E calls \in Seq(Calls) : /\ Names(calls) \subseteq {"close", "flushSslBuffer", "retry"}
                                        /\ Goes(Loop, calls),
           readBio' = readBio \/ (readBio # <<>> /\ readBio' = Tail(readBio)),
           \/ made' = made /\ writeBio' = writeBio
           \/ \E part : /\ Make(Control(part)) /\ ~In(made, Control(part))
                        /\ Control(part) \in OutRecords,
           UNCHANGED <<sock, pending, fetched, sent, wire, crashed>>
    PROVE  /\ UniqueInv' /\ DueInv' /\ ReadInv' /\ HeldInv'
           /\ \A q \in Reqs : Due(q)' <=> Due(q)
           /\ \A a : Kept(a) => Kept(a)'
<1>1. stack[Loop] # <<>> /\ Head(stack[Loop]).call = "read" /\ TypeOK /\ Loop \in Threads
  BY ThreadFacts DEF At, IInv
<1>2. /\ \A t \in Threads : Once(stack'[t])
      /\ \A t \in Threads : \A a : Writes(stack'[t], a) <=> Writes(stack[t], a)
      /\ \A t \in Threads : \A x : Holds(stack'[t], x) <=> Holds(stack[t], x)
      /\ \A q \in Reqs : stack'[q] = stack[q]
      /\ \A q \in Reqs : OnReading(q)' <=> OnReading(q)
  <2>1. CASE stack' = stack
    BY <2>1 DEF KeptInv, UniqueInv, OnReading
  <2>2. ASSUME NEW calls \in Seq(Calls), Goes(Loop, calls),
               Names(calls) \subseteq {"close", "flushSslBuffer", "retry"}
        PROVE  /\ \A t \in Threads : Once(stack'[t])
               /\ \A t \in Threads : \A a : Writes(stack'[t], a) <=> Writes(stack[t], a)
               /\ \A t \in Threads : \A x : Holds(stack'[t], x) <=> Holds(stack[t], x)
               /\ \A q \in Reqs : stack'[q] = stack[q]
               /\ \A q \in Reqs : OnReading(q)' <=> OnReading(q)
    <3>1. /\ \A t \in Threads : Once(stack'[t])
          /\ \A t \in Threads : \A a : Writes(stack'[t], a) <=> Writes(stack[t], a)
          /\ \A t \in Threads : \A x : Holds(stack'[t], x) <=> Holds(stack[t], x)
          /\ \A q \in Reqs : stack'[q] = stack[q]
          /\ \A q : In(stack'[Loop], OnReadOf(q)) <=> In(calls, OnReadOf(q))
          /\ \A q : In(stack[Loop], OnReadOf(q)) <=> OnReadOf(q) = Head(stack[Loop])
      BY <1>1, <2>2, LoopQuiet
    <3>2. "onRead" \notin Names(calls) /\ \A q : OnReadOf(q).call = "onRead"
      BY <2>2 DEF OnReadOf
    <3>3. \A q : ~In(calls, OnReadOf(q)) /\ OnReadOf(q) # Head(stack[Loop])
      BY <1>1, <3>2, NamesSay
    <3> QED
      BY <3>1, <3>3 DEF OnReading
  <2> QED
    BY <2>1, <2>2
<1>3. UniqueInv'
  BY <1>1, <1>2, UniqueFewer DEF KeptInv, Make
<1>4. \/ made' = made /\ writeBio' = writeBio
      \/ \E e : /\ \A x : In(made', x) <=> In(made, x) \/ x = e
                /\ \A x : In(writeBio', x) <=> In(writeBio, x) \/ x = e
                /\ e.req = 0
  <2>1. ASSUME NEW part, Make(Control(part)), Control(part) \in OutRecords
        PROVE  /\ \A x : In(made', x) <=> In(made, x) \/ x = Control(part)
               /\ \A x : In(writeBio', x) <=> In(writeBio, x) \/ x = Control(part)
    BY <1>1, <2>1, InAppend DEF Make, TypeOK
  <2>2. \A part : Control(part).req = 0
    BY DEF Control
  <2> QED
    BY <2>1, <2>2
<1>5. HeldInv'
  <2>1. Closing' \/ ~Closing
    BY <1>1 DEF Closing
  <2>2. wire' = wire
    BY <1>1
  <2>3. CASE Closing'
    BY <2>3 DEF HeldInv
  <2>4. CASE ~Closing
    <3>1. \A x : In(made, x) <=> \/ In(wire, x) \/ In(writeBio, x)
                                \/ \E t \in Threads : Holds(stack[t], x)
      BY <2>4 DEF KeptInv, HeldInv
    <3>2. \A x : (\E t \in Threads : Holds(stack'[t], x)) <=> \E t \in Threads : Holds(stack[t], x)
      BY <1>2
    <3>3. \A x : In(made', x) <=> \/ In(wire', x) \/ In(writeBio', x)
                                 \/ \E t \in Threads : Holds(stack'[t], x)
      BY ONLY <1>4, <2>2, <3>1, <3>2
    <3> QED
      BY <3>3 DEF HeldInv
  <2> QED
    BY <2>1, <2>3, <2>4
<1>6. /\ \A a : Kept(a)' => Kept(a) \/ a.req = 0
      /\ \A a : Kept(a) => Kept(a)'
  BY <1>2, <1>4 DEF Kept
<1>7. \A q \in Reqs : Due(q)' <=> Due(q)
  BY <1>2 DEF Due, Working, On
<1>8. 0 \notin Reqs
  BY MaxRequestsAssumption DEF Reqs
<1>9. DueInv'
  BY <1>2, <1>6, <1>7, <1>8, DueFewer DEF KeptInv
<1>10. ReadInv'
  <2>1. \A q \in Reqs : Known(q)' => Known(q)
    BY <1>2, <1>6, <1>7, <1>8 DEF Known
  <2>2. \A i \in 1 .. Len(readBio') : \E j \in 1 .. Len(readBio) : readBio'[i] = readBio[j]
    <3>1. readBio' = readBio \/ \A i \in 1 .. Len(readBio') : i + 1 \in 1 .. Len(readBio) /\ readBio'[i] = readBio[i + 1]
      BY ReadFacts
    <3> QED
      BY <3>1
  <2> QED
    BY <1>1, <2>1, <2>2, ReadFewer DEF KeptInv
<1> QED
  BY <1>3, <1>5, <1>6, <1>7, <1>9, <1>10

\* A record is a request, or nobody's.
LEMMA RecordKinds ==
    ASSUME NEW record \in InRecords
    PROVE  /\ record.kind = "app" => record.req \in Reqs
           /\ record.kind # "app" => record.req = 0
BY DEF InRecords

\* A request is read: it was known to nobody, and is due now.
LEMMA AppKept ==
    ASSUME IInv, KeptInv, At(Loop, "read"), Readable, readBio # <<>>,
           Head(readBio).kind = "app", readBio' = Tail(readBio),
           Goes(Loop, <<OnReadOf(Head(readBio).req), Call("read")>>),
           UNCHANGED <<sock, ssl, writeBio, pending, fetched, sent, made, wire, crashed>>
    PROVE  KeptInv'
<1>1. stack[Loop] # <<>> /\ Head(stack[Loop]).call = "read" /\ TypeOK /\ Loop \in Threads
  BY ThreadFacts DEF At, IInv
<1>2. /\ Head(readBio) = readBio[1] /\ 1 \in 1 .. Len(readBio) /\ IsApp(1)
      /\ \A i \in 1 .. Len(readBio') : i + 1 \in 1 .. Len(readBio) /\ i + 1 # 1
                                       /\ readBio'[i] = readBio[i + 1]
  BY ReadFacts DEF IsApp
<1>3. PICK r \in Reqs : r = readBio[1].req
  BY <1>1, <1>2, RecordParts
<1>4. /\ r <= sent
      /\ \A i \in 1 .. Len(readBio') : IsApp(i)' => readBio'[i].req > r
  <2>1. r <= sent
    BY <1>2, <1>3 DEF IInv, CountInv
  <2>2. ASSUME NEW i \in 1 .. Len(readBio'), IsApp(i)'
        PROVE  readBio'[i].req > r
    <3>1. i + 1 \in 1 .. Len(readBio) /\ IsApp(i + 1) /\ 1 < i + 1
      BY <1>2, <2>2 DEF IsApp
    <3>2. readBio[1].req < readBio[i + 1].req /\ readBio[i + 1].req \in Nat /\ readBio[1].req \in Nat
      BY <1>1, <1>2, <3>1, RecordParts DEF IInv, CountInv
    <3> QED
      BY <1>2, <1>3, <2>2, <3>2
  <2> QED
    BY <2>1, <2>2
<1>5. ~Known(r)
  <2>1. r \in Nat
    BY MaxRequestsAssumption DEF Reqs
  <2>2. Known(r) => r > r
    BY <1>2, <1>3 DEF KeptInv, ReadInv
  <2> QED
    BY <2>1, <2>2
<1>6. r \notin fetched /\ stack[r] = <<>> /\ (\A a : Kept(a) => a.req # r) /\ ~Due(r)
  BY <1>5 DEF Known, Due
<1>7. PICK calls \in Seq(Calls) :
         /\ calls = <<OnReadOf(r), Call("read")>> /\ Names(calls) = {"onRead", "read"}
         /\ Goes(Loop, calls)
  BY <1>2, <1>3, Pushed
<1>8. /\ \A t \in Threads : Once(stack'[t])
      /\ \A t \in Threads : \A a : Writes(stack'[t], a) <=> Writes(stack[t], a)
      /\ \A t \in Threads : \A x : Holds(stack'[t], x) <=> Holds(stack[t], x)
      /\ \A q \in Reqs : stack'[q] = stack[q]
      /\ \A q : In(stack'[Loop], OnReadOf(q)) <=> In(calls, OnReadOf(q))
      /\ \A q : In(stack[Loop], OnReadOf(q)) <=> OnReadOf(q) = Head(stack[Loop])
  BY <1>1, <1>7, LoopQuiet
<1>9. \A q \in Reqs : (OnReading(q)' <=> q = r) /\ ~OnReading(q)
  <2>1. Len(calls) = 2 /\ calls[1] = OnReadOf(r) /\ calls[2] = Call("read")
    BY <1>7, CallTypes, Singles
  <2>2. Call("read").call = "read" /\ \A q : OnReadOf(q).call = "onRead" /\ OnReadOf(q).req = q
    BY DEF OnReadOf, Call
  <2>3. \A q : In(calls, OnReadOf(q)) <=> q = r
    BY <2>1, <2>2 DEF In
  <2>4. \A q : OnReadOf(q) # Head(stack[Loop])
    BY <1>1, <2>2
  <2> QED
    BY <1>8, <2>3, <2>4 DEF OnReading
<1>10. UniqueInv'
  BY <1>1, <1>8, UniqueFewer DEF KeptInv
<1>11. ControlInv'
  BY DEF KeptInv, ControlInv
<1>12. HeldInv'
  BY <1>8 DEF KeptInv, HeldInv, Closing
<1>13. \A a : Kept(a)' <=> Kept(a)
  BY <1>8 DEF Kept
<1>14. \A q \in Reqs : Due(q)' <=> Due(q) \/ q = r
  BY <1>8, <1>9 DEF Due, Working, On
<1>15. DueInv'
  <2> SUFFICES ASSUME NEW q \in Reqs
               PROVE  /\ \/ stack'[q] \in {<<Call("route"), Call("respond")>>, <<Call("respond")>>}
                         \/ \A name : On(q, name)' => name \in Basic
                      /\ Due(q)' => \A a : Kept(a)' => a.req # q
                      /\ OnReading(q)' => q \notin fetched' /\ stack'[q] = <<>>
                      /\ q \in fetched' => stack'[q] = <<>>
    BY DEF DueInv
  <2>1. \/ stack'[q] \in {<<Call("route"), Call("respond")>>, <<Call("respond")>>}
        \/ \A name : On(q, name)' => name \in Basic
    BY <1>8 DEF KeptInv, DueInv, On
  <2>2. Due(q)' => \A a : Kept(a)' => a.req # q
    BY <1>6, <1>13, <1>14 DEF KeptInv, DueInv
  <2>3. OnReading(q)' => q \notin fetched' /\ stack'[q] = <<>>
    BY <1>6, <1>8, <1>9
  <2>4. q \in fetched' => stack'[q] = <<>>
    BY <1>8 DEF KeptInv, DueInv
  <2> QED
    BY <2>1, <2>2, <2>3, <2>4
<1>16. ReadInv'
  <2>1. \A q \in Reqs : Known(q)' => Known(q) \/ q = r
    BY <1>8, <1>13, <1>14 DEF Known
  <2>2. ASSUME NEW q \in Reqs, Known(q)'
        PROVE  q <= sent /\ \A i \in 1 .. Len(readBio') : IsApp(i)' => readBio'[i].req > q
    <3>1. CASE q = r
      BY <1>4, <3>1
    <3>2. CASE Known(q)
      BY <1>2, <3>2 DEF KeptInv, ReadInv, IsApp
    <3> QED
      BY <2>1, <2>2, <3>1, <3>2
  <2> QED
    BY <2>2 DEF KeptInv, ReadInv
<1>17. ConserveInv'
  <2>1. sent \in Nat /\ 1 .. sent \subseteq Reqs
    BY <1>1, MaxRequestsAssumption DEF TypeOK, Reqs
  <2> SUFFICES ASSUME Live', NEW q \in 1 .. sent
               PROVE  InBio(q)' \/ Due(q)' \/ Ready(q)'
    BY DEF ConserveInv
  <2>2. InBio(q) \/ Due(q) \/ Ready(q)
    BY DEF KeptInv, ConserveInv, Live, Active
  <2>3. CASE InBio(q)
    <3>1. PICK i \in 1 .. Len(readBio) : readBio[i].req = q
      BY <2>3 DEF InBio
    <3>2. CASE i = 1
      BY <1>3, <1>14, <2>1, <3>1, <3>2
    <3>3. CASE i # 1
      <4>1. Len(readBio) \in Nat \ {0} /\ Len(readBio') = Len(readBio) - 1
        BY <1>1, InTail DEF TypeOK
      <4>2. i - 1 \in 1 .. Len(readBio') /\ (i - 1) + 1 = i
        BY <3>3, <4>1
      <4>3. readBio'[i - 1].req = q
        BY <1>2, <3>1, <4>2
      <4> QED
        BY <4>2, <4>3 DEF InBio
    <3> QED
      BY <3>2, <3>3
  <2>4. CASE Due(q) \/ Ready(q)
    BY <1>13, <1>14, <2>1, <2>4 DEF Ready
  <2> QED
    BY <2>2, <2>3, <2>4
<1> QED
  BY <1>10, <1>11, <1>12, <1>15, <1>16, <1>17 DEF KeptInv

LEMMA SslReadKept ==
    ASSUME IInv, KeptInv, SslRead
    PROVE  KeptInv'
<1>1. /\ At(Loop, "read")
      /\ UNCHANGED <<sock, pending, fetched, sent, wire, crashed>>
  BY DEF SslRead
<1>2. PICK close \in Seq(Calls) : close = <<Call("close")>> /\ Names(close) = {"close"}
  BY Pushed
<1>3. PICK flush \in Seq(Calls) : flush = FlushCalls /\ Names(flush) = {"flushSslBuffer", "retry"}
  BY Pushed
<1>4. PICK record : record = Head(readBio)
  OBVIOUS
<1>5. CASE ~Readable /\ Goes(Loop, close) /\ UNCHANGED <<ssl, readBio, made, writeBio>>
  <2>1. UniqueInv' /\ DueInv' /\ ReadInv' /\ HeldInv'
    BY <1>1, <1>2, <1>5, ReadKept
  <2>2. ControlInv'
    BY <1>5 DEF KeptInv, ControlInv
  <2>3. ConserveInv'
    BY <1>5 DEF ConserveInv, Live, Readable
  <2> QED
    BY <2>1, <2>2, <2>3 DEF KeptInv
<1>6. CASE Goes(Loop, flush) /\ UNCHANGED <<ssl, readBio, made, writeBio>>
  <2>1. /\ UniqueInv' /\ DueInv' /\ ReadInv' /\ HeldInv'
        /\ \A q \in Reqs : Due(q)' <=> Due(q)
        /\ \A a : Kept(a) => Kept(a)'
    BY <1>1, <1>3, <1>6, ReadKept
  <2>2. ControlInv'
    BY <1>6 DEF KeptInv, ControlInv
  <2>3. ConserveInv'
    <3>1. sent \in Nat /\ 1 .. sent \subseteq Reqs
      BY MaxRequestsAssumption DEF IInv, TypeOK, Reqs
    <3> QED
      BY <1>1, <1>6, <2>1, <3>1 DEF KeptInv, ConserveInv, Live, Active, InBio, Ready
  <2> QED
    BY <2>1, <2>2, <2>3 DEF KeptInv
<1>7. CASE /\ readBio # <<>> /\ readBio' = Tail(readBio) /\ record.kind = "hello"
           /\ ssl' = "ready" /\ Make(Control("hello")) /\ UNCHANGED stack
  <2>1. record = readBio[1] /\ record \in InRecords /\ 1 \in 1 .. Len(readBio)
    BY <1>4, <1>7, ReadFacts
  <2>2. ssl = "handshake" /\ record.req = 0
    BY <1>7, <2>1, RecordKinds DEF IInv, HandshakeInv
  <2>3. ~In(made, Control("hello")) /\ Control("hello") \in OutRecords
    BY <2>2, RecordTypes DEF KeptInv, ControlInv
  <2>4. /\ UniqueInv' /\ DueInv' /\ ReadInv' /\ HeldInv'
        /\ \A q \in Reqs : Due(q)' <=> Due(q)
        /\ \A a : Kept(a) => Kept(a)'
    BY <1>1, <1>7, <2>3, ReadKept
  <2>5. ControlInv'
    <3>1. PICK e \in OutRecords : e = Control("hello")
      BY <2>3
    <3>2. \A x : In(made', x) <=> In(made, x) \/ x = e
      BY <1>7, <3>1, InAppend DEF Make, IInv, TypeOK
    <3>3. Control("notify") # e /\ Control("alert") # e
      BY <3>1 DEF Control
    <3> QED
      BY <1>7, <2>2, <3>2, <3>3 DEF KeptInv, ControlInv
  <2>6. ConserveInv'
    <3>1. sent \in Nat /\ 1 .. sent \subseteq Reqs
      BY MaxRequestsAssumption DEF IInv, TypeOK, Reqs
    <3> SUFFICES ASSUME Live', NEW q \in 1 .. sent
                 PROVE  InBio(q)' \/ Due(q)' \/ Ready(q)'
      BY <1>1 DEF ConserveInv
    <3>2. InBio(q) \/ Due(q) \/ Ready(q)
      BY <1>1, <2>2 DEF KeptInv, ConserveInv, Live, Active
    <3>3. InBio(q) => InBio(q)'
      <4> SUFFICES ASSUME NEW i \in 1 .. Len(readBio), readBio[i].req = q
                   PROVE  InBio(q)'
        BY DEF InBio
      <4>1. i # 1
        BY <2>1, <2>2
      <4>2. Len(readBio) \in Nat \ {0} /\ Len(readBio') = Len(readBio) - 1
        BY <1>7, InTail DEF IInv, TypeOK
      <4>3. i - 1 \in 1 .. Len(readBio') /\ (i - 1) + 1 = i
        BY <4>1, <4>2
      <4>4. readBio'[i - 1] = readBio[i]
        BY <1>7, <4>3, ReadFacts
      <4> QED
        BY <4>3, <4>4 DEF InBio
    <3> QED
      BY <2>4, <3>1, <3>2, <3>3 DEF Ready
  <2> QED
    BY <2>4, <2>5, <2>6 DEF KeptInv
<1>8. CASE /\ Readable /\ readBio # <<>> /\ readBio' = Tail(readBio)
           /\ record.kind = "app" /\ Goes(Loop, <<OnReadOf(record.req), Call("read")>>)
           /\ UNCHANGED <<ssl, made, writeBio>>
  BY <1>1, <1>4, <1>8, AppKept
<1>9. CASE /\ Readable /\ readBio # <<>> /\ readBio' = Tail(readBio)
           /\ ssl' = (IF ssl = "shutdown" THEN "over" ELSE "notified")
           /\ Goes(Loop, close) /\ UNCHANGED <<made, writeBio>>
  <2>1. UniqueInv' /\ DueInv' /\ ReadInv' /\ HeldInv'
    BY <1>1, <1>2, <1>9, ReadKept
  <2>2. ControlInv'
    BY <1>9 DEF KeptInv, ControlInv, Readable
  <2>3. ConserveInv'
    BY <1>9 DEF ConserveInv, Live
  <2> QED
    BY <2>1, <2>2, <2>3 DEF KeptInv
<1>10. CASE /\ Readable /\ readBio # <<>> /\ readBio' = Tail(readBio)
            /\ ssl' = "failed" /\ Make(Control("alert")) /\ Goes(Loop, close)
  <2>1. ~In(made, Control("alert")) /\ Control("alert") \in OutRecords
    BY <1>10, RecordTypes DEF KeptInv, ControlInv, Readable
  <2>2. UniqueInv' /\ DueInv' /\ ReadInv' /\ HeldInv'
    BY <1>1, <1>2, <1>10, <2>1, ReadKept
  <2>3. ControlInv'
    BY <1>10 DEF ControlInv
  <2>4. ConserveInv'
    BY <1>10 DEF ConserveInv, Live
  <2> QED
    BY <2>2, <2>3, <2>4 DEF KeptInv
<1> QED
  BY <1>2, <1>3, <1>4, <1>5, <1>6, <1>7, <1>8, <1>9, <1>10 DEF SslRead

------------------------------------------------------------------------------
LEMMA StartsKept ==
    ASSUME Init
    PROVE  KeptInv
<1>1. /\ sock = "new" /\ ssl = "handshake" /\ readBio = <<>> /\ writeBio = <<>> /\ pending = <<>>
      /\ fetched = {} /\ sent = 0 /\ made = <<>> /\ wire = <<>>
      /\ \A t \in Threads : stack[t] = <<>>
  BY DEF Init
<1>2. \A t \in Threads : /\ Once(stack[t]) /\ \A a : ~Writes(stack[t], a)
                         /\ \A x : ~Holds(stack[t], x)
                         /\ \A c : ~In(stack[t], c)
  BY <1>1, EmptyHasNone
<1>3. (\A x : ~In(made, x) /\ ~In(pending, x) /\ ~In(wire, x) /\ ~In(writeBio, x))
      /\ Inj(made) /\ Inj(pending)
  BY <1>1, EmptyHasNone
<1>4. UniqueInv
  BY <1>2, <1>3 DEF UniqueInv
<1>5. ControlInv
  BY <1>3 DEF ControlInv
<1>6. \A a : ~Kept(a)
  BY <1>2, <1>3 DEF Kept
<1>7. \A r \in Reqs : stack[r] = <<>> /\ (\A name : ~On(r, name)) /\ ~Due(r) /\ ~OnReading(r)
  <2>1. \A r \in Reqs : stack[r] = <<>> /\ ~OnReading(r)
    BY <1>1, <1>2, ThreadFacts DEF OnReading
  <2>2. \A r \in Reqs : \A name : ~On(r, name)
    BY <2>1 DEF On
  <2> QED
    BY <1>1, <2>1, <2>2 DEF Due, Working
<1>8. DueInv
  BY <1>1, <1>7 DEF DueInv
<1>9. ReadInv
  BY <1>1, <1>6, <1>7 DEF ReadInv, Known
<1>10. HeldInv
  BY <1>2, <1>3 DEF HeldInv
<1>11. ConserveInv
  BY <1>1 DEF ConserveInv
<1> QED
  BY <1>4, <1>5, <1>8, <1>9, <1>10, <1>11 DEF KeptInv

LEMMA NextKept ==
    ASSUME IInv, KeptInv, [Next]_vars
    PROVE  KeptInv'
<1>1. CASE Event
  BY <1>1, SocketEventKept, DataKept, CloseCallKept, AsyncKept DEF Event
<1>2. CASE LoopStep
  BY <1>2, StepKept, SslReadKept, OnReadKept, CountKept, ThreadFacts DEF LoopStep
<1>3. CASE \E r \in Reqs : WorkerStep(r)
  BY <1>3, StepKept, RouteKept, RespondKept, ThreadFacts DEF WorkerStep
<1>4. CASE UNCHANGED vars
  <2>1. \A r : (Due(r)' <=> Due(r)) /\ (OnReading(r)' <=> OnReading(r)) /\ (Known(r)' <=> Known(r))
    BY <1>4 DEF vars, Due, OnReading, Working, On, Known, Kept
  <2>2. \A a : Kept(a)' <=> Kept(a)
    BY <1>4 DEF vars, Kept
  <2>3. UniqueInv' /\ ControlInv' /\ HeldInv'
    BY <1>4 DEF vars, KeptInv, UniqueInv, ControlInv, HeldInv, Closing
  <2>4. DueInv'
    BY <1>4, <2>1, <2>2 DEF vars, KeptInv, DueInv, On
  <2>5. ReadInv'
    BY <1>4, <2>1 DEF vars, KeptInv, ReadInv, IsApp
  <2>6. ConserveInv'
    BY <1>4, <2>1, <2>2 DEF vars, KeptInv, ConserveInv, Live, Active, InBio, Ready
  <2> QED
    BY <2>3, <2>4, <2>5, <2>6 DEF KeptInv
<1> QED
  BY <1>1, <1>2, <1>3, <1>4 DEF Next

\* Every answer, and every record of TLS, is where KeptInv says, at any time.
THEOREM AnswersAreKept == Spec => [](IInv /\ KeptInv)
<1>1. Init => IInv /\ KeptInv
  BY Starts, StartsKept
<1>2. (IInv /\ KeptInv) /\ [Next]_vars => (IInv /\ KeptInv)'
  BY NextKeeps, NextKept
<1> QED
  BY <1>1, <1>2, PTL DEF Spec

LEMMA RangeIn ==
    ASSUME NEW S, NEW s \in Seq(S)
    PROVE  \A x : x \in Range(s) <=> In(s, x)
BY DEF Range, In

\* On a connection that lives, no answer is lost or repeated between the handler
\* and the socket: pendingWrites_, the SSL object, the BIO and the buffers of
\* the threads that flush hold each answer once, for any number of requests,
\* retries and failures of SSL_write.
THEOREM NoAnswerLost == Spec => []WritesConserved
<1>1. ASSUME IInv, KeptInv
      PROVE  WritesConserved
  <2>1. /\ made \in Seq(OutRecords) /\ pending \in Seq(Answers) /\ readBio \in Seq(InRecords)
        /\ wire \in Seq(OutRecords) /\ writeBio \in Seq(OutRecords)
        /\ stack \in [Threads -> Seq(Calls)] /\ sent \in Nat /\ 1 .. sent \subseteq Reqs
    BY <1>1, MaxRequestsAssumption DEF IInv, TypeOK, Reqs
  <2>2. /\ DOMAIN made = 1 .. Len(made) /\ DOMAIN pending = 1 .. Len(pending)
        /\ DOMAIN readBio = 1 .. Len(readBio)
        /\ \A t \in Threads : DOMAIN stack[t] = 1 .. Len(stack[t])
    BY <2>1
  <2>3. /\ \A x : x \in Range(made) <=> In(made, x)
        /\ \A x : x \in Range(pending) <=> In(pending, x)
        /\ \A x : x \in Range(wire) <=> In(wire, x)
        /\ \A x : x \in Range(writeBio) <=> In(writeBio, x)
        /\ \A t \in Threads : \A x : x \in Range(stack[t]) <=> In(stack[t], x)
    BY <2>1, RangeIn
  <2>4. \A t \in Threads : \A a : a \in Unwritten(t) <=> Writes(stack[t], a)
    <3> SUFFICES ASSUME NEW t \in Threads, NEW a
                 PROVE  a \in Unwritten(t) <=> Writes(stack[t], a)
      OBVIOUS
    <3>1. Writes(stack[t], a) <=> \E c : In(stack[t], c) /\ c.call = "asyncWrite" /\ c.answer = a
      BY WritesIn
    <3>2. a \in Unwritten(t) <=> \E c \in Range(stack[t]) : c.call = "asyncWrite" /\ c.answer = a
      BY DEF Unwritten
    <3> QED
      BY <2>3, <3>1, <3>2
  <2>5. /\ \A i, j \in DOMAIN made : made[i] = made[j] => i = j
        /\ Range(pending) \cap Range(made) = {}
        /\ \A i, j \in DOMAIN pending : pending[i] = pending[j] => i = j
    BY <1>1, <2>2, <2>3 DEF KeptInv, UniqueInv, Inj
  <2>6. PICK waiting : waiting = Range(pending) \cup UNION {Unwritten(t) : t \in Threads}
    OBVIOUS
  <2>7. \A a : Kept(a) => a \in waiting \cup Range(made)
    BY <2>3, <2>4, <2>6 DEF Kept
  <2>8. ASSUME ssl = "ready", Active, ~crashed
        PROVE  /\ \A r \in 1 .. sent :
                     LET parts == {a.part : a \in {b \in waiting \cup Range(made) : b.req = r}}
                     IN  Awaited(r) \/ "whole" \in parts \/ {"head", "body"} \subseteq parts
               /\ Range(made) = Range(wire) \cup Range(writeBio)
                                   \cup UNION {Range(chunk) : chunk \in Held}
    <3>1. Live /\ ~Closing
      BY <2>8 DEF Live, Active, Closing
    <3>2. ASSUME NEW r \in 1 .. sent
          PROVE  LET parts == {a.part : a \in {b \in waiting \cup Range(made) : b.req = r}}
                 IN  Awaited(r) \/ "whole" \in parts \/ {"head", "body"} \subseteq parts
      <4>1. InBio(r) \/ Due(r) \/ Ready(r)
        BY <1>1, <3>1 DEF KeptInv, ConserveInv
      <4>2. InBio(r) \/ Due(r) => Awaited(r)
        <5>1. r \in Threads /\ Loop \in Threads
          BY <2>1, ThreadFacts
        <5> QED
          BY <2>2, <5>1 DEF InBio, Due, OnReading, In, Working, On, Awaited
      <4> DEFINE parts == {a.part : a \in {b \in waiting \cup Range(made) : b.req = r}}
      <4>3. ASSUME NEW part, Kept(Part(r, part))
            PROVE  part \in parts
        <5>1. PICK a : a = Part(r, part)
          OBVIOUS
        <5>2. a.req = r /\ a.part = part
          BY <5>1 DEF Part
        <5> QED
          BY <2>7, <4>3, <5>1, <5>2
      <4>4. Ready(r) => "whole" \in parts \/ {"head", "body"} \subseteq parts
        BY <4>3 DEF Ready
      <4> QED
        BY <4>1, <4>2, <4>4
    <3>3. \A x : In(made, x) <=> \/ In(wire, x) \/ In(writeBio, x)
                                 \/ \E t \in Threads : Holds(stack[t], x)
      BY <1>1, <3>1 DEF KeptInv, HeldInv
    <3>4. ASSUME NEW x
          PROVE  x \in UNION {Range(chunk) : chunk \in Held} <=> \E t \in Threads : Holds(stack[t], x)
      <4>1. ASSUME NEW t \in Threads, NEW c \in Range(stack[t]), c.call = "socketWrite"
            PROVE  x \in Range(c.chunk) <=> In(c.chunk, x)
        <5>1. c \in Calls
          BY <2>1, <4>1 DEF Range
        <5>2. c.chunk \in Seq(OutRecords)
          BY <4>1, <5>1, CallParts
        <5> QED
          BY <5>2, RangeIn
      <4>2. \A t \in Threads : Holds(stack[t], x) <=>
               \E c : In(stack[t], c) /\ c.call = "socketWrite" /\ In(c.chunk, x)
        BY WritesIn
      <4>3. \A chunk : chunk \in Held <=>
               \E t \in Threads : \E c \in Range(stack[t]) : c.call = "socketWrite" /\ c.chunk = chunk
        BY DEF Held
      <4>4. x \in UNION {Range(chunk) : chunk \in Held} <=>
               \E t \in Threads : \E c \in Range(stack[t]) : c.call = "socketWrite" /\ x \in Range(c.chunk)
        BY <4>3
      <4> QED
        BY <2>3, <4>1, <4>2, <4>4
    <3>5. Range(made) = Range(wire) \cup Range(writeBio) \cup UNION {Range(chunk) : chunk \in Held}
      BY <2>3, <3>3, <3>4
    <3> QED
      BY <3>2, <3>5
  <2> QED
    BY <2>5, <2>6, <2>8 DEF WritesConserved
<1> QED
  BY <1>1, AnswersAreKept, PTL

------------------------------------------------------------------------------
(***************************************************************************)
(* The stream of a connection without overlap                              *)
(***************************************************************************)

\* Requests came one by one, and OpenSSL is not shutting down.
Serial == ~overlapped /\ ssl = "ready"

\* An answer OpenSSL has not been given, or has refused so far.
Unmade(a) == (\E t \in Threads : Writes(stack[t], a)) \/ In(pending, a)

InHand(r) == Due(r) \/ stack[r] # <<>> \/ InBio(r) \/ \E a : Unmade(a) /\ a.req = r

\* Nothing is said before the end of the handshake.
BeginInv ==
    /\ ssl = "handshake" =>
          made = <<>> /\ wire = <<>> /\ writeBio = <<>> /\ ~On(Loop, "socketWrite")
    /\ ssl = "handshake" /\ ~overlapped => sent = 0

\* A thread that took a chunk from the BIO writes it next.
TopInv == \A t \in Threads : ~Below(t, "socketWrite")

Carries(t) == On(t, "socketWrite")

\* An answer is in one piece, or has a head and a body.
PartsInv ==
    \A a, b : Kept(a) /\ Kept(b) /\ a.req = b.req /\ a.req # 0 =>
        (a.part = "whole" <=> b.part = "whole")

RetriesInv == retries = 0 => pending = <<>>

GeneralInv == BeginInv /\ TopInv /\ PartsInv /\ RetriesInv

\* Only the request that came last is read, worked on or answered.
LastInv == \A r \in Reqs : InHand(r) => r = sent

InOrder(s) == \A i, j \in 1 .. Len(s) : i < j /\ s[j].req # 0 => s[i].req <= s[j].req

HeadsFirst(s) ==
    \A j \in 1 .. Len(s) : s[j].part = "body" =>
        \E i \in 1 .. j - 1 : s[i] = Part(s[j].req, "head")

\* The head was given to OpenSSL, or is written by a call before the i-th of s.
Comes(s, i, a) == In(made, a) \/ \E j \in 1 .. i - 1 : s[j] = AsyncWriteOf(a)

HeadComes(s) ==
    \A i \in 1 .. Len(s) : \A r \in Reqs :
        s[i] = AsyncWriteOf(Part(r, "body")) => Comes(s, i, Part(r, "head"))

HeadInv ==
    retries = 0 =>
        /\ HeadsFirst(made)
        /\ ~Closing => \A t \in Threads : HeadComes(stack[t])

\* What was made is on the wire, in the hands of at most one thread, and in the
\* BIO, in this order.
FlowInv ==
    /\ \E rest \in Seq(OutRecords) : made = wire \o rest
    /\ ~Closing =>
          /\ \A t, u \in Threads : Carries(t) /\ Carries(u) => t = u
          /\ (\A t \in Threads : ~Carries(t)) => made = wire \o writeBio
          /\ \A t \in Threads : Carries(t) => made = wire \o (Head(stack[t]).chunk \o writeBio)

Clear == writeBio = <<>> /\ \A t \in Threads : ~Carries(t)

ToWrite(r) == Due(r) \/ \E a : Unmade(a)

\* While a worker is busy there is one record: to be written, or in the BIO, or
\* in the hands of a thread.
PieceInv ==
    ~Closing =>
        \A r \in Reqs : stack[r] # <<>> =>
            /\ \A a : Kept(a) /\ a.req = r => a.part = "whole"
            /\ ToWrite(r) => Clear
            /\ writeBio # <<>> => \A t \in Threads : ~Carries(t)

Incoming(r) == InBio(r) \/ OnReading(r)

Flusher == On(Loop, "read") \/ \E t \in Threads : On(t, "flushSslBuffer")

\* A request is read once what was made before is out of the BIO, and what is in
\* it will be taken out.
FlushedInv ==
    /\ \A r \in Reqs : InBio(r) => stack[Loop] = <<Call("read")>>
    /\ ~Closing =>
          /\ \A r \in Reqs : Incoming(r) => writeBio = <<>>
          /\ writeBio # <<>> => Flusher

SerialInv == LastInv /\ InOrder(made) /\ HeadInv /\ FlowInv /\ PieceInv /\ FlushedInv

StreamInv == GeneralInv /\ (Serial => SerialInv)

Base == IInv /\ KeptInv
------------------------------------------------------------------------------
(* Stacks *)

LEMMA CarriesTop ==
    ASSUME TypeOK, TopInv, NEW t \in Threads
    PROVE  Carries(t) <=> stack[t] # <<>> /\ Head(stack[t]).call = "socketWrite"
<1>1. PICK s \in Seq(Calls) : s = stack[t]
  BY DEF TypeOK
<1>2. \A i \in 2 .. Len(s) : s[i].call # "socketWrite"
  BY <1>1 DEF TopInv, Below
<1>3. s # <<>> => Len(s) \in Nat \ {0} /\ Head(s) = s[1]
  BY <1>1
<1>4. s = <<>> => Len(s) = 0
  OBVIOUS
<1> QED
  BY <1>1, <1>2, <1>3, <1>4 DEF Carries, On

\* The call on top of t gives way to calls that hold nothing below their first.
LEMMA TopGoes ==
    ASSUME TypeOK, TopInv, NEW t \in Threads, stack[t] # <<>>, NEW calls \in Seq(Calls),
           Goes(t, calls), \A i \in 2 .. Len(calls) : calls[i].call # "socketWrite"
    PROVE  /\ TopInv'
           /\ \A u \in Threads \ {t} : stack'[u] = stack[u] /\ (Carries(u)' <=> Carries(u))
           /\ Carries(t)' <=> \E i \in 1 .. Len(calls) : i = 1 /\ calls[i].call = "socketWrite"
<1>1. /\ stack'[t] = calls \o Tail(stack[t])
      /\ \A u \in Threads \ {t} : stack'[u] = stack[u]
  BY GoesOn
<1>2. PICK s \in Seq(Calls) : s = stack[t]
  BY DEF TypeOK
<1>3. PICK n : n = calls \o Tail(s)
  OBVIOUS
<1>4. /\ Len(calls) \in Nat /\ Len(s) \in Nat \ {0} /\ Len(n) = Len(calls) + Len(s) - 1
      /\ \A i \in 1 .. Len(calls) : n[i] = calls[i]
      /\ \A i \in 1 .. Len(n) : i > Len(calls) =>
            i - Len(calls) + 1 \in 2 .. Len(s) /\ n[i] = s[i - Len(calls) + 1]
  BY <1>2, <1>3, Spliced
<1>5. \A i \in 2 .. Len(s) : s[i].call # "socketWrite"
  BY <1>2 DEF TopInv, Below
<1>6. \A i \in 1 .. Len(n) : n[i].call = "socketWrite" => i = 1 /\ i \in 1 .. Len(calls) /\ n[i] = calls[i]
  <2> SUFFICES ASSUME NEW i \in 1 .. Len(n), n[i].call = "socketWrite"
               PROVE  i = 1 /\ i \in 1 .. Len(calls) /\ n[i] = calls[i]
    OBVIOUS
  <2>1. CASE i > Len(calls)
    <3>1. i - Len(calls) + 1 \in 2 .. Len(s) /\ n[i] = s[i - Len(calls) + 1]
      BY <2>1, <1>4
    <3> QED
      BY <3>1, <1>5
  <2>2. CASE ~(i > Len(calls))
    BY <1>4, <2>2
  <2> QED
    BY <2>1, <2>2
<1>7. \A i \in 1 .. Len(calls) : i \in 1 .. Len(n) /\ n[i] = calls[i]
  BY <1>4
<1>8. stack'[t] = n
  BY <1>1, <1>2, <1>3
<1>9. ~Below(t, "socketWrite")'
  BY <1>6, <1>8 DEF Below
<1>10. \A u \in Threads \ {t} : (Below(u, "socketWrite")' <=> Below(u, "socketWrite"))
                                /\ (Carries(u)' <=> Carries(u))
  BY <1>1 DEF Below, Carries, On
<1>11. TopInv'
  BY <1>9, <1>10 DEF TopInv
<1>12. Carries(t)' <=> \E i \in 1 .. Len(calls) : i = 1 /\ calls[i].call = "socketWrite"
  BY <1>6, <1>7, <1>8 DEF Carries, On
<1> QED
  BY <1>1, <1>10, <1>11, <1>12

\* The threads that carry a chunk go on doing so.
SameCarriers == \A u \in Threads : (Carries(u)' <=> Carries(u)) /\ (Carries(u) => stack'[u] = stack[u])

LEMMA PlainGoes ==
    ASSUME TypeOK, TopInv, NEW t \in Threads, stack[t] # <<>>, NEW calls \in Seq(Calls),
           Goes(t, calls), "socketWrite" \notin Names(calls), Head(stack[t]).call # "socketWrite"
    PROVE  TopInv' /\ SameCarriers
<1>1. \A i \in 1 .. Len(calls) : calls[i].call # "socketWrite"
  BY DEF Names
<1>2. \A i \in 2 .. Len(calls) : calls[i].call # "socketWrite"
  BY <1>1
<1>3. /\ TopInv'
      /\ \A u \in Threads \ {t} : stack'[u] = stack[u] /\ (Carries(u)' <=> Carries(u))
      /\ Carries(t)' <=> \E i \in 1 .. Len(calls) : i = 1 /\ calls[i].call = "socketWrite"
  BY <1>2, TopGoes
<1>4. ~Carries(t)
  BY CarriesTop
<1> QED
  BY <1>1, <1>3, <1>4 DEF SameCarriers

LEMMA PlainBegun ==
    ASSUME TypeOK, TopInv, stack[Loop] = <<>>, NEW calls \in Seq(Calls),
           "socketWrite" \notin Names(calls), stack' = [stack EXCEPT ![Loop] = calls]
    PROVE  TopInv' /\ SameCarriers
<1>1. stack'[Loop] = calls /\ \A u \in Threads \ {Loop} : stack'[u] = stack[u]
  BY ThreadFacts DEF TypeOK
<1>2. \A i \in 1 .. Len(calls) : calls[i].call # "socketWrite"
  BY DEF Names
<1>3. \A i \in 2 .. Len(calls) : i \in 1 .. Len(calls)
  OBVIOUS
<1>4. ~Below(Loop, "socketWrite")' /\ ~Carries(Loop)' /\ ~Carries(Loop)
  BY <1>1, <1>2, <1>3 DEF Below, Carries, On
<1>5. \A u \in Threads \ {Loop} : (Below(u, "socketWrite")' <=> Below(u, "socketWrite"))
                                  /\ (Carries(u)' <=> Carries(u))
  BY <1>1 DEF Below, Carries, On
<1> QED
  BY <1>1, <1>4, <1>5 DEF TopInv, SameCarriers

LEMMA SameStacks ==
    ASSUME TopInv, \A u \in Threads : stack'[u] = stack[u]
    PROVE  TopInv' /\ SameCarriers
BY DEF TopInv, SameCarriers, Carries, On, Below

\* A body in the hands of t has its head with it, or before it.
LEMMA HeadsGo ==
    ASSUME TypeOK, NEW t \in Threads, stack[t] # <<>>, NEW calls \in Seq(Calls), Goes(t, calls),
           \A u \in Threads : HeadComes(stack[u]),
           \A x : In(made, x) => In(made', x),
           \A i \in 1 .. Len(calls) : \A r \in Reqs : calls[i] # AsyncWriteOf(Part(r, "body")),
           \A r \in Reqs : Head(stack[t]) = AsyncWriteOf(Part(r, "head")) => In(made', Part(r, "head"))
    PROVE  \A u \in Threads : HeadComes(stack[u])'
<1>1. /\ stack'[t] = calls \o Tail(stack[t])
      /\ \A u \in Threads \ {t} : stack'[u] = stack[u]
  BY GoesOn
<1>2. PICK s \in Seq(Calls) : s = stack[t]
  BY DEF TypeOK
<1>3. PICK n : n = calls \o Tail(s)
  OBVIOUS
<1>4. /\ Len(calls) \in Nat /\ Len(s) \in Nat \ {0} /\ Len(n) = Len(calls) + Len(s) - 1
      /\ \A i \in 1 .. Len(calls) : n[i] = calls[i]
      /\ \A i \in 2 .. Len(s) : n[Len(calls) + i - 1] = s[i]
      /\ \A i \in 1 .. Len(n) : i > Len(calls) =>
            i - Len(calls) + 1 \in 2 .. Len(s) /\ n[i] = s[i - Len(calls) + 1]
  BY <1>2, <1>3, Spliced
<1>5. stack'[t] = n /\ Head(stack[t]) = s[1] /\ HeadComes(s)
  BY <1>1, <1>2, <1>3
<1>6. ASSUME NEW i \in 1 .. Len(n), NEW r \in Reqs, n[i] = AsyncWriteOf(Part(r, "body"))
      PROVE  In(made', Part(r, "head")) \/ \E j \in 1 .. i - 1 : n[j] = AsyncWriteOf(Part(r, "head"))
  <2>1. i > Len(calls)
    <3>1. i \in 1 .. Len(calls) => n[i] # AsyncWriteOf(Part(r, "body"))
      BY <1>4
    <3>2. ~(i > Len(calls)) => i \in 1 .. Len(calls)
      BY <1>4
    <3> QED
      BY <1>6, <3>1, <3>2
  <2>2. PICK k \in 2 .. Len(s) : k = i - Len(calls) + 1 /\ n[i] = s[k]
    BY <1>4, <2>1
  <2>3. k \in 1 .. Len(s) /\ s[k] = AsyncWriteOf(Part(r, "body"))
    BY <1>6, <2>2
  <2>4. In(made, Part(r, "head")) \/ \E j \in 1 .. k - 1 : s[j] = AsyncWriteOf(Part(r, "head"))
    BY <1>5, <2>3 DEF HeadComes, Comes
  <2>5. CASE In(made, Part(r, "head"))
    BY <2>5
  <2>6. ASSUME NEW j \in 1 .. k - 1, s[j] = AsyncWriteOf(Part(r, "head"))
        PROVE  In(made', Part(r, "head")) \/ \E m \in 1 .. i - 1 : n[m] = AsyncWriteOf(Part(r, "head"))
    <3>1. CASE j = 1
      BY <1>5, <2>6, <3>1
    <3>2. CASE j # 1
      <4>1. j \in 2 .. Len(s) /\ Len(calls) + j - 1 \in 1 .. i - 1
        BY <1>4, <2>2, <3>2
      <4>2. n[Len(calls) + j - 1] = s[j]
        BY <1>4, <4>1
      <4> QED
        BY <2>6, <4>1, <4>2
    <3> QED
      BY <3>1, <3>2
  <2> QED
    BY <2>4, <2>5, <2>6
<1>7. HeadComes(stack[t])'
  BY <1>5, <1>6 DEF HeadComes, Comes
<1>8. ASSUME NEW u \in Threads, u # t
      PROVE  HeadComes(stack[u])'
  <2>1. stack'[u] = stack[u] /\ HeadComes(stack[u])
    BY <1>1, <1>8
  <2> QED
    BY <2>1 DEF HeadComes, Comes
<1> QED
  BY <1>7, <1>8

\* A call with no answer is not the writing of one.
LEMMA NoBodies ==
    ASSUME NEW calls, "asyncWrite" \notin Names(calls)
    PROVE  \A i \in 1 .. Len(calls) : \A a : calls[i] # AsyncWriteOf(a)
BY DEF Names, AsyncWriteOf

LEMMA OtherHead ==
    ASSUME NEW c, c.call # "asyncWrite"
    PROVE  \A a : c # AsyncWriteOf(a)
BY DEF AsyncWriteOf

LEMMA PartFacts ==
    /\ \A r, part : Part(r, part).req = r /\ Part(r, part).part = part
    /\ \A a, b : AsyncWriteOf(a) = AsyncWriteOf(b) => a = b
    /\ \A a \in OutRecords : a = Part(a.req, a.part)
<1>1. \A r, part : Part(r, part).req = r /\ Part(r, part).part = part
  BY DEF Part
<1>2. ASSUME NEW a, NEW b, AsyncWriteOf(a) = AsyncWriteOf(b)
      PROVE  a = b
  <2>1. AsyncWriteOf(a).answer = a /\ AsyncWriteOf(b).answer = b
    BY DEF AsyncWriteOf
  <2> QED
    BY <1>2, <2>1
<1>3. \A a \in OutRecords : a = Part(a.req, a.part)
  BY DEF OutRecords, Answers, Control, Part
<1> QED
  BY <1>1, <1>2, <1>3

\* Nothing new is read, handled or handed to OpenSSL.
NoNews ==
    /\ \A a : Unmade(a)' => Unmade(a)
    /\ \A a : Kept(a)' => Kept(a) \/ a.req = 0
    /\ \A r \in Reqs : /\ Due(r)' => Due(r)
                       /\ stack'[r] # <<>> => stack[r] # <<>>
                       /\ InBio(r)' => InBio(r)
                       /\ OnReading(r)' => OnReading(r)

LEMMA NewsOfParts ==
    ASSUME PartsInv, NoNews
    PROVE  PartsInv'
BY DEF PartsInv, NoNews

\* What was made, sent and held stays the same.
LEMMA CalmKeeps ==
    ASSUME SerialInv, SameCarriers, NoNews, UNCHANGED <<sent, made, wire, writeBio>>,
           Closing => Closing'
    PROVE  LastInv' /\ InOrder(made)' /\ FlowInv' /\ PieceInv'
<1>1. LastInv'
  BY DEF SerialInv, LastInv, InHand, NoNews
<1>2. InOrder(made)'
  BY DEF SerialInv, InOrder
<1>3. FlowInv'
  BY DEF SerialInv, FlowInv, SameCarriers
<1>4. PieceInv'
  <2> SUFFICES ASSUME ~Closing', NEW r \in Reqs, stack'[r] # <<>>
               PROVE  /\ \A a : Kept(a)' /\ a.req = r => a.part = "whole"
                      /\ ToWrite(r)' => Clear'
                      /\ writeBio' # <<>> => \A t \in Threads : ~Carries(t)'
    BY DEF PieceInv
  <2>1. /\ \A a : Kept(a) /\ a.req = r => a.part = "whole"
        /\ ToWrite(r) => Clear
        /\ writeBio # <<>> => \A t \in Threads : ~Carries(t)
    BY DEF SerialInv, PieceInv, NoNews
  <2>2. ToWrite(r)' => ToWrite(r)
    BY DEF ToWrite, NoNews
  <2>3. Clear => Clear'
    BY DEF Clear, SameCarriers
  <2>4. r # 0
    BY ThreadFacts DEF Loop
  <2> QED
    BY <2>1, <2>2, <2>3, <2>4 DEF NoNews, SameCarriers
<1> QED
  BY <1>1, <1>2, <1>3, <1>4

\* The loop is not about to read, or does not move; who flushes goes on with it.
LEMMA CalmFlushed ==
    ASSUME FlushedInv, NoNews, writeBio' = writeBio, Closing => Closing',
           stack'[Loop] = stack[Loop] \/ stack[Loop] # <<Call("read")>>,
           writeBio # <<>> /\ ~Closing' => (Flusher => Flusher')
    PROVE  FlushedInv'
BY DEF FlushedInv, NoNews, Incoming

\* Calls that write no answer.
LEMMA QuietNews ==
    ASSUME Base, NEW t \in Threads, stack[t] # <<>>, NEW calls \in Seq(Calls), Goes(t, calls),
           Names(calls) \cap {"asyncWrite", "onRead", "respond"} = {},
           fetched' \subseteq fetched \cup {q \in Reqs : Due(q)},
           \A a : In(pending', a) => Unmade(a),
           \A a : In(made', a) => Kept(a) \/ a.req = 0,
           \A r \in Reqs : InBio(r)' => InBio(r)
    PROVE  /\ NoNews
           /\ Head(stack[t]).call \notin {"read", "flushSslBuffer"} => (Flusher => Flusher')
<1>1. /\ stack' \in [Threads -> Seq(Calls)]
      /\ \A u \in Threads \ {t} : stack'[u] = stack[u]
      /\ \A name : On(t, name)' <=> name \in Names(calls) \/ Below(t, name)
      /\ \A name : On(t, name) <=> name = Head(stack[t]).call \/ Below(t, name)
      /\ \A u \in Threads \ {t} : \A name : On(u, name)' <=> On(u, name)
  BY GoesOn DEF Base, IInv
<1>2. \A u \in Threads : \A a : Writes(stack'[u], a) => Writes(stack[u], a)
  BY Quiet DEF Base, IInv, KeptInv
<1>3. \A a : Unmade(a)' => Unmade(a)
  BY <1>2 DEF Unmade
<1>4. \A a : Kept(a)' => Kept(a) \/ a.req = 0
  <2>1. \A a : Unmade(a) => Kept(a)
    BY DEF Unmade, Kept
  <2> QED
    BY <1>3, <2>1 DEF Kept, Unmade
<1>5. \A c : In(stack'[t], c) => In(calls, c) \/ In(stack[t], c)
  <2>1. TypeOK
    BY DEF Base, IInv
  <2>2. PICK rest \in Seq(Calls) :
           /\ \A c : In(stack'[t], c) <=> In(calls, c) \/ In(rest, c)
           /\ \A c : In(stack[t], c) <=> c = Head(stack[t]) \/ In(rest, c)
    BY <2>1, Flow, ZenonT(60)
  <2> QED
    BY <2>2
<1>6. \A r : ~In(calls, OnReadOf(r))
  BY NamesSay
<1>7. \A r : OnReading(r)' => OnReading(r)
  BY <1>1, <1>5, <1>6, ThreadFacts DEF OnReading
<1>8. \A r \in Reqs : On(r, "respond")' => On(r, "respond")
  BY <1>1, ThreadFacts
<1>9. \A r \in Reqs : Due(r)' => Due(r)
  <2>1. \A r \in Reqs : r \in fetched' => Due(r)
    BY DEF Due
  <2> QED
    BY <1>7, <1>8, <2>1 DEF Due, Working
<1>10. \A r \in Reqs : stack'[r] # <<>> => stack[r] # <<>>
  BY <1>1, ThreadFacts
<1>11. NoNews
  BY <1>3, <1>4, <1>7, <1>9, <1>10 DEF NoNews
<1>12. ASSUME Head(stack[t]).call \notin {"read", "flushSslBuffer"}, Flusher
       PROVE  Flusher'
  <2>1. \A u \in Threads : \A name \in {"read", "flushSslBuffer"} : On(u, name) => On(u, name)'
    BY <1>1, <1>12
  <2> QED
    BY <1>12, <2>1, ThreadFacts DEF Flusher
<1> QED
  BY <1>11, <1>12
------------------------------------------------------------------------------
(* Steps of a thread *)

\* A request that has been read, or is at work or answered, is not in the BIO.
LEMMA NotInBio ==
    ASSUME Base, NEW r \in Reqs, Known(r)
    PROVE  ~InBio(r)
<1> SUFFICES ASSUME NEW i \in 1 .. Len(readBio), readBio[i].req = r
             PROVE  FALSE
  BY DEF InBio
<1>1. readBio[i] \in InRecords
  BY DEF Base, IInv, TypeOK
<1>2. r \in Nat /\ r # 0
  BY MaxRequestsAssumption DEF Reqs
<1>3. IsApp(i)
  BY <1>1, <1>2, RecordKinds DEF IsApp
<1>4. readBio[i].req > r
  BY <1>3 DEF Base, KeptInv, ReadInv
<1> QED
  BY <1>2, <1>4

LEMMA UnmadeFacts ==
    ASSUME Base
    PROVE  \A a : Unmade(a) => a \in Answers /\ a.req \in Reqs /\ Kept(a) /\ Known(a.req)
<1> SUFFICES ASSUME NEW a, Unmade(a)
             PROVE  a \in Answers /\ a.req \in Reqs /\ Kept(a) /\ Known(a.req)
  OBVIOUS
<1>1. a \in Answers
  BY AnswerTypes DEF Unmade, Base, IInv
<1>2. a.req \in Reqs
  BY <1>1, AnswerTypes
<1>3. Kept(a)
  BY DEF Unmade, Kept
<1> QED
  BY <1>1, <1>2, <1>3 DEF Known

\* The newest request is in one of these: in readBio_, with onRead, with a worker.
LEMMA Apart ==
    ASSUME Base, LastInv
    PROVE  /\ \A r \in Reqs : InBio(r) =>
                 (\A q \in Reqs : stack[q] = <<>> /\ ~Due(q)) /\ \A a : ~Unmade(a)
           /\ \A r \in Reqs : OnReading(r) =>
                 /\ \A q \in Reqs : stack[q] = <<>> /\ ~InBio(q) /\ (Due(q) => q = r)
                 /\ \A a : ~Unmade(a)
           /\ \A r \in Reqs : stack[r] # <<>> =>
                 /\ r = sent /\ fetched = {}
                 /\ \A q \in Reqs : ~Incoming(q) /\ (stack[q] # <<>> => q = r)
<1>1. ASSUME NEW r \in Reqs, InBio(r), NEW q \in Reqs,
             Due(q) \/ stack[q] # <<>> \/ \E a : Unmade(a) /\ a.req = q
      PROVE  FALSE
  <2>1. ~InBio(q)
    BY <1>1, NotInBio, UnmadeFacts DEF Known
  <2>2. InHand(q) /\ InHand(r)
    BY <1>1 DEF InHand
  <2> QED
    BY <1>1, <2>1, <2>2 DEF LastInv
<1>2. \A r \in Reqs : InBio(r) =>
         (\A q \in Reqs : stack[q] = <<>> /\ ~Due(q)) /\ \A a : ~Unmade(a)
  BY <1>1, UnmadeFacts
<1>3. \A r, q \in Reqs : InHand(r) /\ InHand(q) => r = q
  BY DEF LastInv
<1>4. ASSUME NEW r \in Reqs, OnReading(r)
      PROVE  /\ \A q \in Reqs : stack[q] = <<>> /\ ~InBio(q) /\ (Due(q) => q = r)
             /\ \A a : ~Unmade(a)
  <2>1. Due(r) /\ InHand(r) /\ Known(r) /\ stack[r] = <<>>
    BY <1>4 DEF Due, InHand, Known, Base, KeptInv, DueInv
  <2>2. \A q \in Reqs : Due(q) \/ stack[q] # <<>> => q = r
    BY <1>3, <2>1 DEF InHand
  <2>3. \A q \in Reqs : ~InBio(q)
    BY <1>2, <2>1
  <2>4. \A a : ~Unmade(a)
    <3> SUFFICES ASSUME NEW a, Unmade(a)
                 PROVE  FALSE
      OBVIOUS
    <3>1. a.req \in Reqs /\ Kept(a)
      BY UnmadeFacts
    <3>2. InHand(a.req)
      BY DEF InHand
    <3>3. a.req = r
      BY <1>3, <2>1, <3>1, <3>2
    <3> QED
      BY <2>1, <3>1, <3>3 DEF Base, KeptInv, DueInv
  <2> QED
    BY <2>1, <2>2, <2>3, <2>4
<1>5. ASSUME NEW r \in Reqs, stack[r] # <<>>
      PROVE  /\ r = sent /\ fetched = {}
             /\ \A q \in Reqs : ~Incoming(q) /\ (stack[q] # <<>> => q = r)
  <2>1. InHand(r)
    BY <1>5 DEF InHand
  <2>2. \A q \in Reqs : q \notin fetched
    <3>1. \A q \in Reqs : q \in fetched => Due(q) /\ InHand(q) /\ stack[q] = <<>>
      BY DEF Due, InHand, Base, KeptInv, DueInv
    <3> QED
      BY <1>3, <1>5, <2>1, <3>1
  <2>3. fetched = {}
    BY <2>2 DEF Base, IInv, TypeOK
  <2>4. \A q \in Reqs : ~Incoming(q)
    BY <1>2, <1>4, <1>5 DEF Incoming
  <2>5. \A q \in Reqs : stack[q] # <<>> => q = r
    BY <1>3, <2>1 DEF InHand
  <2> QED
    BY <2>1, <2>3, <2>4, <2>5 DEF LastInv
<1> QED
  BY <1>2, <1>4, <1>5

LEMMA GeneralQuiet ==
    ASSUME Base, GeneralInv, NEW t \in Threads, stack[t] # <<>>, NEW calls \in Seq(Calls),
           Goes(t, calls), Names(calls) \cap {"asyncWrite", "onRead", "respond", "socketWrite"} = {},
           Head(stack[t]).call # "socketWrite",
           fetched' \subseteq fetched \cup {q \in Reqs : Due(q)},
           \A a : In(pending', a) => Unmade(a),
           \A a : In(made', a) => Kept(a) \/ a.req = 0,
           \A r \in Reqs : InBio(r)' => InBio(r)
    PROVE  TopInv' /\ PartsInv' /\ SameCarriers /\ NoNews
<1>1. NoNews
  BY QuietNews
<1>2. TopInv' /\ SameCarriers
  BY PlainGoes DEF Base, IInv, GeneralInv
<1> QED
  BY <1>1, <1>2, NewsOfParts DEF GeneralInv

\* A call that writes nothing and takes nothing from the BIO.
LEMMA QuietStream ==
    ASSUME Base, StreamInv, NEW t \in Threads, stack[t] # <<>>, NEW calls \in Seq(Calls),
           Goes(t, calls), Names(calls) \cap {"asyncWrite", "onRead", "respond", "socketWrite"} = {},
           Head(stack[t]).call \notin {"socketWrite", "read"},
           Head(stack[t]).call = "flushSslBuffer" => writeBio = <<>> \/ Closing,
           UNCHANGED <<ssl, overlapped, sent, made, wire, writeBio, readBio>>,
           fetched' \subseteq fetched \cup {q \in Reqs : Due(q)},
           Closing => Closing',
           \A a : In(pending', a) => Unmade(a),
           retries' = 0 => /\ retries = 0 /\ pending' = pending
                           /\ Head(stack[t]).call # "asyncWrite" \/ Closing
    PROVE  StreamInv'
<1>1. \A a : In(made', a) => Kept(a)
  BY DEF Kept
<1>2. \A r \in Reqs : InBio(r)' <=> InBio(r)
  BY DEF InBio
<1>3. TopInv' /\ PartsInv' /\ SameCarriers /\ NoNews
  BY <1>1, <1>2, GeneralQuiet DEF StreamInv
<1>4. BeginInv'
  BY <1>3, ThreadFacts DEF StreamInv, GeneralInv, BeginInv, SameCarriers, Carries
<1>5. RetriesInv'
  BY DEF StreamInv, GeneralInv, RetriesInv
<1>6. ASSUME Serial
      PROVE  SerialInv'
  <2>1. SerialInv
    BY <1>6 DEF StreamInv
  <2>2. LastInv' /\ InOrder(made)' /\ FlowInv' /\ PieceInv'
    BY <1>3, <2>1, CalmKeeps
  <2>3. stack'[Loop] = stack[Loop] \/ stack[Loop] # <<Call("read")>>
    <3>1. t = Loop => stack[Loop] # <<Call("read")>>
      BY DEF Call
    <3>2. t # Loop => stack'[Loop] = stack[Loop]
      BY ThreadFacts, GoesOn DEF Base, IInv
    <3> QED
      BY <3>1, <3>2
  <2>4. writeBio # <<>> /\ ~Closing' => (Flusher => Flusher')
    BY <1>1, <1>2, QuietNews
  <2>5. FlushedInv'
    BY <1>3, <2>1, <2>3, <2>4, CalmFlushed DEF SerialInv
  <2>6. HeadInv'
    <3> SUFFICES ASSUME retries' = 0
                 PROVE  /\ HeadsFirst(made)'
                        /\ ~Closing' => \A u \in Threads : HeadComes(stack[u])'
      BY DEF HeadInv
    <3>1. HeadsFirst(made)'
      BY <2>1 DEF SerialInv, HeadInv, HeadsFirst
    <3>2. ASSUME ~Closing'
          PROVE  \A u \in Threads : HeadComes(stack[u])'
      <4>1. \A u \in Threads : HeadComes(stack[u])
        BY <2>1, <3>2 DEF SerialInv, HeadInv
      <4>2. Head(stack[t]).call # "asyncWrite"
        BY <3>2
      <4>3. \A i \in 1 .. Len(calls) : \A r \in Reqs : calls[i] # AsyncWriteOf(Part(r, "body"))
        BY NoBodies
      <4>4. \A a : Head(stack[t]) # AsyncWriteOf(a)
        BY <4>2, OtherHead
      <4>5. TypeOK /\ \A x : In(made, x) => In(made', x)
        BY DEF Base, IInv
      <4> QED
        BY <4>1, <4>3, <4>4, <4>5, HeadsGo
    <3> QED
      BY <3>1, <3>2
  <2> QED
    BY <2>2, <2>5, <2>6 DEF SerialInv
<1> QED
  BY <1>3, <1>4, <1>5, <1>6 DEF StreamInv, GeneralInv, Serial

\* OpenSSL fails or shuts down: what comes then is not promised.
LEMMA EndStream ==
    ASSUME Base, StreamInv, NEW t \in Threads, stack[t] # <<>>, NEW calls \in Seq(Calls),
           Goes(t, calls), Names(calls) \cap {"asyncWrite", "onRead", "respond", "socketWrite"} = {},
           Head(stack[t]).call # "socketWrite", ssl' \notin {"handshake", "ready"},
           UNCHANGED <<fetched, pending, retries>>,
           \A a : In(made', a) => Kept(a) \/ a.req = 0,
           \A r \in Reqs : InBio(r)' => InBio(r)
    PROVE  StreamInv'
<1>1. \A a : In(pending', a) => Unmade(a)
  BY DEF Unmade
<1>2. TopInv' /\ PartsInv'
  BY <1>1, GeneralQuiet DEF StreamInv
<1>3. BeginInv' /\ RetriesInv' /\ ~Serial'
  BY DEF BeginInv, RetriesInv, Serial, StreamInv, GeneralInv
<1> QED
  BY <1>2, <1>3 DEF StreamInv, GeneralInv

\* Records one behind the other.
LEMMA Joined ==
    ASSUME NEW p \in Seq(OutRecords), NEW q \in Seq(OutRecords)
    PROVE  p \o q \in Seq(OutRecords) /\ <<>> \o q = q /\ p \o <<>> = p
BY ConcatProperties, ConcatEmptySeq

LEMMA JoinedThree ==
    ASSUME NEW p \in Seq(OutRecords), NEW q \in Seq(OutRecords), NEW s \in Seq(OutRecords)
    PROVE  (p \o q) \o s = p \o (q \o s)
BY ConcatAssociative

LEMMA JoinedOne ==
    ASSUME NEW p \in Seq(OutRecords), NEW q \in Seq(OutRecords), NEW e \in OutRecords
    PROVE  Append(p \o q, e) = p \o Append(q, e) /\ Append(q, e) \in Seq(OutRecords)
<1>1. <<e>> \in Seq(OutRecords) /\ p \o q \in Seq(OutRecords)
  BY Singles, Joined
<1>2. Append(p \o q, e) = (p \o q) \o <<e>> /\ Append(q, e) = q \o <<e>>
  BY <1>1, AppendIsConcat
<1>3. (p \o q) \o <<e>> = p \o (q \o <<e>>)
  BY ONLY <1>1, p \in Seq(OutRecords), q \in Seq(OutRecords), JoinedThree
<1> QED
  BY <1>2, <1>3, AppendProperties

\* An answer behind others: it is not of an older request, and a body has its head.
LEMMA OrderAppend ==
    ASSUME NEW s \in Seq(OutRecords), NEW a \in OutRecords, InOrder(s),
           \A i \in 1 .. Len(s) : s[i].req <= a.req
    PROVE  /\ InOrder(Append(s, a))
           /\ HeadsFirst(s) /\ (a.part = "body" => In(s, Part(a.req, "head"))) => HeadsFirst(Append(s, a))
<1>1. PICK n : n = Append(s, a)
  OBVIOUS
<1>2. /\ Len(n) = Len(s) + 1 /\ Len(s) \in Nat /\ n[Len(s) + 1] = a
      /\ \A i \in 1 .. Len(s) : n[i] = s[i]
  BY <1>1
<1>3. InOrder(n)
  BY <1>2 DEF InOrder
<1>4. ASSUME HeadsFirst(s), a.part = "body" => In(s, Part(a.req, "head"))
      PROVE  HeadsFirst(n)
  <2> SUFFICES ASSUME NEW j \in 1 .. Len(n), n[j].part = "body"
               PROVE  \E i \in 1 .. j - 1 : n[i] = Part(n[j].req, "head")
    BY DEF HeadsFirst
  <2>1. CASE j = Len(s) + 1
    <3>1. PICK i \in 1 .. Len(s) : s[i] = Part(a.req, "head")
      BY <1>2, <1>4, <2>1 DEF In
    <3> QED
      BY <1>2, <2>1, <3>1
  <2>2. CASE j # Len(s) + 1
    <3>1. j \in 1 .. Len(s) /\ n[j] = s[j]
      BY <1>2, <2>2
    <3>2. PICK i \in 1 .. j - 1 : s[i] = Part(s[j].req, "head")
      BY <1>4, <3>1 DEF HeadsFirst
    <3> QED
      BY <1>2, <3>1, <3>2
  <2> QED
    BY <2>1, <2>2
<1> QED
  BY <1>1, <1>3, <1>4

LEMMA WriteCall ==
    ASSUME NEW c \in Calls, c.call = "asyncWrite"
    PROVE  c = AsyncWriteOf(c.answer)
BY DEF Calls, AsyncWriteOf

\* What was made is of requests that were sent.
LEMMA MadeSent ==
    ASSUME Base
    PROVE  \A i \in 1 .. Len(made) : made[i].req <= sent /\ made[i] \in OutRecords
<1> SUFFICES ASSUME NEW i \in 1 .. Len(made)
             PROVE  made[i].req <= sent /\ made[i] \in OutRecords
  OBVIOUS
<1>1. made[i] \in OutRecords /\ sent \in Nat
  BY MaxRequestsAssumption DEF Base, IInv, TypeOK
<1>2. made[i].req = 0 \/ made[i].req \in Reqs
  BY <1>1 DEF OutRecords, Answers, Control
<1>3. In(made, made[i])
  BY DEF In
<1>4. made[i].req \in Reqs => Known(made[i].req)
  BY <1>3 DEF Known, Kept
<1>5. made[i].req \in Reqs => made[i].req <= sent
  BY <1>4 DEF Base, KeptInv, ReadInv
<1> QED
  BY <1>1, <1>2, <1>5

LEMMA TakenStream ==
    ASSUME Base, Base', StreamInv, NEW t \in Threads, AsyncWrite(t), ~Closing,
           NEW a, a = Head(stack[t]).answer, Taken(t, a)
    PROVE  StreamInv'
<1>1. /\ stack[t] # <<>> /\ Head(stack[t]).call = "asyncWrite"
      /\ UNCHANGED <<sock, wire, ssl, pending, fetched, readBio, retries, sent, overlapped>>
      /\ Writable /\ made' = Append(made, a) /\ writeBio' = Append(writeBio, a)
  BY DEF AsyncWrite, At, Taken, Make
<1>2. a \in Answers /\ a \in OutRecords /\ a.req \in Reqs
  BY <1>1, HeadCall, CallParts, RecordTypes, AnswerTypes DEF Base, IInv
<1>3. PICK calls \in Seq(Calls) :
         /\ calls = <<Call("flushSslBuffer")>> /\ Names(calls) = {"flushSslBuffer"}
         /\ Goes(t, calls)
  BY Pushed DEF Taken
<1>4. Head(stack[t]) = AsyncWriteOf(a)
  BY <1>1, HeadCall, WriteCall DEF Base, IInv
<1>5. Unmade(a) /\ Kept(a)
  <2>1. Len(stack[t]) \in Nat \ {0} /\ Head(stack[t]) = stack[t][1]
    BY <1>1 DEF Base, IInv, TypeOK
  <2>2. Writes(stack[t], a)
    BY <1>1, <2>1 DEF Writes
  <2> QED
    BY <2>2 DEF Unmade, Kept
<1>6. \A b : In(made', b) <=> In(made, b) \/ b = a
  <2>1. made \in Seq(OutRecords)
    BY DEF Base, IInv, TypeOK
  <2> QED
    BY ONLY <1>1, <1>2, <2>1, InAppend
<1>7. TopInv' /\ PartsInv' /\ SameCarriers /\ NoNews
  <2>1. \A b : In(made', b) => Kept(b)
    BY <1>5, <1>6 DEF Kept
  <2>2. \A b : In(pending', b) => Unmade(b)
    BY <1>1 DEF Unmade
  <2>3. \A r \in Reqs : InBio(r)' => InBio(r)
    BY <1>1 DEF InBio
  <2>4. GeneralInv /\ fetched' = fetched /\ Head(stack[t]).call # "socketWrite"
        /\ Names(calls) \cap {"asyncWrite", "onRead", "respond", "socketWrite"} = {}
    BY <1>1, <1>3 DEF StreamInv
  <2> QED
    BY <1>1, <1>3, <2>1, <2>2, <2>3, <2>4, GeneralQuiet
<1>8. BeginInv' /\ RetriesInv'
  BY <1>1 DEF Writable, BeginInv, RetriesInv, StreamInv, GeneralInv
<1>9. \A b : Unmade(b)' => b # a
  BY <1>6 DEF Unmade, Base, KeptInv, UniqueInv
<1>10. ASSUME Serial
       PROVE  SerialInv'
  <2>1. SerialInv
    BY <1>10 DEF StreamInv
  <2>2. LastInv'
    BY <1>1, <1>7, <2>1 DEF SerialInv, LastInv, InHand, NoNews
  <2>3. a.req = sent
    BY <1>2, <1>5, <2>1 DEF SerialInv, LastInv, InHand
  <2>4. /\ made \in Seq(OutRecords) /\ wire \in Seq(OutRecords) /\ writeBio \in Seq(OutRecords)
        /\ \A i \in 1 .. Len(made) : made[i].req <= a.req
    BY <2>3, MadeSent DEF Base, IInv, TypeOK
  <2>5. InOrder(made)'
    BY <1>1, <1>2, <2>1, <2>4, OrderAppend DEF SerialInv
  <2>6. HeadInv'
    <3> SUFFICES ASSUME retries = 0
                 PROVE  HeadsFirst(made') /\ \A u \in Threads : HeadComes(stack[u])'
      BY <1>1 DEF HeadInv
    <3>1. HeadsFirst(made) /\ \A u \in Threads : HeadComes(stack[u])
      BY <2>1 DEF SerialInv, HeadInv
    <3>2. ASSUME a.part = "body"
          PROVE  In(made, Part(a.req, "head"))
      <4>1. a = Part(a.req, "body")
        BY <1>2, <3>2, PartFacts
      <4>2. PICK s \in Seq(Calls) : s = stack[t]
        BY DEF Base, IInv, TypeOK
      <4>3. 1 \in 1 .. Len(s) /\ s[1] = AsyncWriteOf(Part(a.req, "body")) /\ HeadComes(s)
        BY <1>1, <1>4, <3>1, <4>1, <4>2
      <4>4. Comes(s, 1, Part(a.req, "head"))
        BY <1>2, <4>3 DEF HeadComes
      <4> QED
        BY <4>4 DEF Comes
    <3>3. HeadsFirst(made')
      BY <1>1, <1>2, <2>1, <2>4, <3>1, <3>2, OrderAppend DEF SerialInv
    <3>4. \A i \in 1 .. Len(calls) : \A r \in Reqs : calls[i] # AsyncWriteOf(Part(r, "body"))
      BY <1>3, NoBodies
    <3>5. \A r \in Reqs : Head(stack[t]) = AsyncWriteOf(Part(r, "head")) => In(made', Part(r, "head"))
      BY <1>4, <1>6, PartFacts
    <3>6. TypeOK /\ \A x : In(made, x) => In(made', x)
      BY <1>6 DEF Base, IInv
    <3>7. \A u \in Threads : HeadComes(stack[u])'
      BY <1>1, <1>3, <3>1, <3>4, <3>5, <3>6, HeadsGo
    <3> QED
      BY <3>3, <3>7
  <2>7. FlowInv'
    <3>1. PICK rest \in Seq(OutRecords) : made = wire \o rest
      BY <2>1 DEF SerialInv, FlowInv
    <3>2. made' = wire \o Append(rest, a) /\ Append(rest, a) \in Seq(OutRecords)
      BY ONLY <1>1, <1>2, <2>4, <3>1, JoinedOne
    <3>3. ASSUME \A u \in Threads : ~Carries(u)
          PROVE  made' = wire \o writeBio'
      <4>1. made = wire \o writeBio
        BY <2>1, <3>3 DEF SerialInv, FlowInv
      <4> QED
        BY ONLY <1>1, <1>2, <2>4, <4>1, JoinedOne
    <3>4. ASSUME NEW u \in Threads, Carries(u)
          PROVE  made' = wire \o (Head(stack'[u]).chunk \o writeBio')
      <4>1. PICK chunk : chunk = Head(stack[u]).chunk
        OBVIOUS
      <4>2. stack[u] # <<>> /\ Head(stack[u]).call = "socketWrite"
        BY <3>4, CarriesTop DEF StreamInv, GeneralInv, Base, IInv
      <4>3. chunk \in Seq(OutRecords)
        BY <4>1, <4>2, HeadCall, CallParts DEF Base, IInv
      <4>4. made = wire \o (chunk \o writeBio)
        BY <2>1, <3>4, <4>1 DEF SerialInv, FlowInv
      <4>5. chunk \o writeBio \in Seq(OutRecords)
            /\ Append(chunk \o writeBio, a) = chunk \o Append(writeBio, a)
        <5>1. chunk \o writeBio \in Seq(OutRecords)
          BY ONLY <2>4, <4>3, Joined
        <5>2. Append(chunk \o writeBio, a) = chunk \o Append(writeBio, a)
          BY ONLY <1>2, <2>4, <4>3, JoinedOne
        <5> QED
          BY ONLY <5>1, <5>2
      <4>6. made' = wire \o Append(chunk \o writeBio, a)
        BY ONLY <1>1, <1>2, <2>4, <4>4, <4>5, JoinedOne
      <4>7. stack'[u] = stack[u]
        BY <1>7, <3>4 DEF SameCarriers
      <4> QED
        BY <1>1, <4>1, <4>5, <4>6, <4>7
    <3>5. \A u, v \in Threads : Carries(u) /\ Carries(v) => u = v
      BY <2>1 DEF SerialInv, FlowInv
    <3> QED
      BY <1>1, <1>7, <3>2, <3>3, <3>4, <3>5 DEF FlowInv, SameCarriers
  <2>8. PieceInv'
    <3> SUFFICES ASSUME NEW r \in Reqs, stack'[r] # <<>>
                 PROVE  /\ \A b : Kept(b)' /\ b.req = r => b.part = "whole"
                        /\ ~ToWrite(r)'
                        /\ \A u \in Threads : ~Carries(u)'
      BY DEF PieceInv
    <3>1. /\ stack[r] # <<>> /\ r = sent
          /\ \A b : Kept(b) /\ b.req = r => b.part = "whole"
          /\ ToWrite(r) => Clear
      BY <1>7, <2>1, Apart DEF SerialInv, PieceInv, NoNews
    <3>2. \A u \in Threads : ~Carries(u)'
      BY <1>5, <1>7, <3>1 DEF ToWrite, Clear, SameCarriers
    <3>3. ~Due(r)'
      BY <1>5, <1>7, <2>3, <3>1 DEF NoNews, Base, KeptInv, DueInv
    <3>4. ASSUME NEW b, Unmade(b)'
          PROVE  FALSE
      <4>1. Unmade(b) /\ b # a
        BY <1>7, <1>9, <3>4 DEF NoNews
      <4>2. b \in Answers /\ b.req \in Reqs /\ Kept(b)
        BY <4>1, UnmadeFacts
      <4>3. b.req = sent
        BY <2>1, <4>1, <4>2 DEF SerialInv, LastInv, InHand
      <4>4. a.part = "whole" /\ b.part = "whole"
        BY <1>5, <2>3, <3>1, <4>2, <4>3
      <4>5. a = Part(a.req, a.part) /\ b = Part(b.req, b.part)
        BY <1>2, <4>2, PartFacts, RecordTypes
      <4> QED
        BY <2>3, <4>1, <4>3, <4>4, <4>5
    <3>5. r # 0
      BY ThreadFacts DEF Loop
    <3>6. \A b : Kept(b)' /\ b.req = r => b.part = "whole"
      BY <1>7, <3>1, <3>5 DEF NoNews
    <3> QED
      BY <3>2, <3>3, <3>4, <3>6 DEF ToWrite
  <2>9. FlushedInv'
    <3>1. \A r \in Reqs : ~Incoming(r)
      BY <1>5, <2>1, Apart DEF Incoming, SerialInv
    <3>2. \A r \in Reqs : ~Incoming(r)' /\ ~InBio(r)'
      BY <1>7, <3>1 DEF Incoming, NoNews
    <3>3. On(t, "flushSslBuffer")'
      BY <1>1, <1>3, GoesOn DEF Base, IInv
    <3> QED
      BY <3>2, <3>3 DEF FlushedInv, Flusher
  <2> QED
    BY <2>2, <2>5, <2>6, <2>7, <2>8, <2>9 DEF SerialInv
<1> QED
  BY <1>1, <1>7, <1>8, <1>10 DEF StreamInv, GeneralInv, Serial

LEMMA AsyncWriteStream ==
    ASSUME Base, Base', StreamInv, NEW t \in Threads, AsyncWrite(t)
    PROVE  StreamInv'
<1>1. /\ stack[t] # <<>> /\ Head(stack[t]).call = "asyncWrite" /\ ssl # "handshake"
      /\ UNCHANGED <<sock, wire, fetched, readBio, sent, overlapped>>
  BY WriterPast DEF AsyncWrite, At, Base
<1>2. Closing' <=> Closing
  BY <1>1 DEF Closing
<1>3. CASE Closing /\ Goes(t, <<>>) /\ UNCHANGED <<ssl, made, writeBio, pending, retries, failed>>
  <2>1. PICK calls \in Seq(Calls) : calls = <<>> /\ Names(calls) = {} /\ Goes(t, calls)
    BY <1>3, Pushed
  <2>2. \A a : In(pending', a) => Unmade(a)
    BY <1>3 DEF Unmade
  <2> QED
    BY <1>1, <1>2, <1>3, <2>1, <2>2, QuietStream
<1>4. CASE ~Closing /\ \E a : a = Head(stack[t]).answer /\ Taken(t, a)
  BY <1>4, TakenStream
<1>5. ASSUME ~Closing, NEW a, a = Head(stack[t]).answer, Refused(t, a)
      PROVE  StreamInv'
  <2>1. PICK calls \in Seq(Calls) : calls = <<>> /\ Names(calls) = {} /\ Goes(t, calls)
    BY <1>5, Pushed DEF Refused
  <2>2. /\ retries' = retries + 1 /\ pending' = Append(pending, a)
        /\ UNCHANGED <<ssl, made, writeBio>>
    BY <1>5 DEF Refused
  <2>3. retries' # 0
    BY <2>2, FaultsAssumption DEF Base, IInv, TypeOK
  <2>4. Writes(stack[t], a)
    <3>1. Len(stack[t]) \in Nat \ {0} /\ Head(stack[t]) = stack[t][1]
      BY <1>1 DEF Base, IInv, TypeOK
    <3> QED
      BY <1>1, <1>5, <3>1 DEF Writes
  <2>5. \A b : In(pending', b) => Unmade(b)
    <3>1. a \in Answers /\ pending \in Seq(Answers)
      BY <1>1, <1>5, HeadCall, CallParts DEF Base, IInv, TypeOK
    <3>2. \A b : In(pending', b) <=> In(pending, b) \/ b = a
      BY ONLY <2>2, <3>1, InAppend
    <3> QED
      BY <2>4, <3>2 DEF Unmade
  <2> QED
    BY <1>1, <1>2, <2>1, <2>2, <2>3, <2>5, QuietStream
<1>6. CASE Fails(t)
  <2>1. PICK calls \in Seq(Calls) : calls = <<Call("close")>> /\ Names(calls) = {"close"} /\ Goes(t, calls)
    BY <1>6, Pushed DEF Fails
  <2>2. UNCHANGED <<made, writeBio, pending, retries>>
    BY <1>6 DEF Fails
  <2>3. ssl' \notin {"handshake", "ready"}
    BY <1>1, <1>6 DEF Fails, Writable
  <2>4. \A a : In(made', a) => Kept(a)
    BY <2>2 DEF Kept
  <2>5. \A r \in Reqs : InBio(r)' => InBio(r)
    BY <1>1 DEF InBio
  <2> QED
    BY <1>1, <2>1, <2>2, <2>3, <2>4, <2>5, EndStream
<1> QED
  BY <1>3, <1>4, <1>5, <1>6 DEF AsyncWrite

\* The whole BIO goes to a thread, when no other carries anything.
LEMMA TakeBio ==
    ASSUME Base, StreamInv, NEW t \in Threads, FlushSslBuffer(t), ~Closing, writeBio # <<>>
    PROVE  StreamInv'
<1>1. /\ stack[t] # <<>> /\ Head(stack[t]).call = "flushSslBuffer"
      /\ UNCHANGED <<sock, wire, ssl, pending, fetched, readBio, retries, sent, made, overlapped>>
      /\ writeBio' = <<>>
  BY DEF FlushSslBuffer, At
<1>2. PICK calls : calls = <<SocketWriteOf(writeBio), Call("flushSslBuffer")>>
  OBVIOUS
<1>3. /\ calls \in Seq(Calls) /\ Names(calls) = {"socketWrite", "flushSslBuffer"} /\ Goes(t, calls)
      /\ Len(calls) = 2 /\ calls[1] = SocketWriteOf(writeBio) /\ calls[2].call = "flushSslBuffer"
  <2>1. calls \in Seq(Calls) /\ Names(calls) = {"socketWrite", "flushSslBuffer"}
    BY <1>2, Pushed DEF Base, IInv, TypeOK
  <2>2. Goes(t, calls)
    BY <1>2 DEF FlushSslBuffer
  <2> QED
    BY <1>2, <2>1, <2>2 DEF Call
<1>4. /\ TopInv' /\ Carries(t)'
      /\ \A u \in Threads \ {t} : stack'[u] = stack[u] /\ (Carries(u)' <=> Carries(u))
  <2>1. \A i \in 2 .. Len(calls) : calls[i].call # "socketWrite"
    BY <1>3
  <2>2. 1 \in 1 .. Len(calls) /\ calls[1].call = "socketWrite"
    BY <1>3 DEF SocketWriteOf
  <2> QED
    BY <1>1, <1>3, <2>1, <2>2, TopGoes DEF Base, IInv, StreamInv, GeneralInv
<1>5. ~Carries(t)
  BY <1>1, CarriesTop DEF Base, IInv, StreamInv, GeneralInv
<1>6. Head(stack'[t]).chunk = writeBio
  <2>1. PICK s \in Seq(Calls) : s = stack[t]
    BY DEF Base, IInv, TypeOK
  <2>2. PICK n : n = calls \o Tail(s)
    OBVIOUS
  <2>3. /\ n \in Seq(Calls) /\ Len(n) = Len(calls) + Len(s) - 1 /\ Len(s) \in Nat \ {0}
        /\ \A i \in 1 .. Len(calls) : n[i] = calls[i]
    BY <1>1, <1>3, <2>1, <2>2, Spliced
  <2>4. stack'[t] = n
    BY <1>1, <1>3, <2>1, <2>2, GoesOn DEF Base, IInv
  <2>5. Head(n) = calls[1]
    <3>1. Len(n) \in Nat \ {0} /\ n[1] = calls[1]
      BY ONLY <1>3, <2>3
    <3> QED
      BY <2>3, <3>1
  <2> QED
    BY <1>3, <2>4, <2>5 DEF SocketWriteOf
<1>7. NoNews
  <2>1. \A a : In(made', a) => Kept(a)
    BY <1>1 DEF Kept
  <2>2. \A a : In(pending', a) => Unmade(a)
    BY <1>1 DEF Unmade
  <2>3. \A r \in Reqs : InBio(r)' => InBio(r)
    BY <1>1 DEF InBio
  <2> QED
    BY <1>1, <1>3, <2>1, <2>2, <2>3, QuietNews
<1>8. GeneralInv'
  BY <1>1, <1>4, <1>7, NewsOfParts DEF StreamInv, GeneralInv, BeginInv, RetriesInv
<1>9. ASSUME Serial
      PROVE  SerialInv'
  <2>1. SerialInv
    BY <1>9 DEF StreamInv
  <2>2. LastInv' /\ InOrder(made)'
    BY <1>1, <1>7, <2>1 DEF SerialInv, LastInv, InHand, NoNews, InOrder
  <2>3. \A u \in Threads : ~Carries(u)
    <3>1. CASE \E r \in Reqs : stack[r] # <<>>
      BY <2>1, <3>1 DEF SerialInv, PieceInv
    <3>2. CASE \A r \in Reqs : stack[r] = <<>>
      <4>1. \A u \in Threads : u = t \/ stack[u] = <<>>
        BY <1>1, <3>2 DEF Threads
      <4> QED
        BY <1>5, <4>1, CarriesTop DEF Base, IInv, StreamInv, GeneralInv
    <3> QED
      BY <3>1, <3>2
  <2>4. FlowInv'
    <3>1. made = wire \o writeBio /\ \E rest \in Seq(OutRecords) : made = wire \o rest
      BY <2>1, <2>3 DEF SerialInv, FlowInv
    <3>2. writeBio \o <<>> = writeBio
      BY Joined DEF Base, IInv, TypeOK
    <3>3. \A u \in Threads : Carries(u)' <=> u = t
      BY <1>4, <2>3
    <3>4. made' = wire' \o (Head(stack'[t]).chunk \o writeBio')
      BY <1>1, <1>6, <3>1, <3>2
    <3> QED
      BY <1>1, <3>1, <3>3, <3>4 DEF FlowInv
  <2>5. PieceInv'
    <3> SUFFICES ASSUME NEW r \in Reqs, stack'[r] # <<>>
                 PROVE  (\A a : Kept(a)' /\ a.req = r => a.part = "whole") /\ ~ToWrite(r)'
      BY <1>1 DEF PieceInv
    <3>1. stack[r] # <<>> /\ r # 0
      BY <1>7, ThreadFacts DEF NoNews, Loop
    <3>2. (\A a : Kept(a) /\ a.req = r => a.part = "whole") /\ ~ToWrite(r)
      BY <2>1, <3>1 DEF SerialInv, PieceInv, Clear
    <3> QED
      BY <1>7, <3>1, <3>2 DEF NoNews, ToWrite
  <2>6. FlushedInv'
    <3>1. t = Loop => stack[Loop] # <<Call("read")>>
      BY <1>1 DEF Call
    <3>2. t # Loop => stack'[Loop] = stack[Loop]
      BY <1>4, ThreadFacts
    <3>3. \A r \in Reqs : InBio(r)' => InBio(r)
      BY <1>7 DEF NoNews
    <3> QED
      BY <1>1, <2>1, <3>1, <3>2, <3>3 DEF SerialInv, FlushedInv
  <2>7. HeadInv'
    <3> SUFFICES ASSUME retries = 0
                 PROVE  HeadsFirst(made') /\ \A u \in Threads : HeadComes(stack[u])'
      BY <1>1 DEF HeadInv
    <3>1. HeadsFirst(made) /\ \A u \in Threads : HeadComes(stack[u])
      BY <2>1 DEF SerialInv, HeadInv
    <3>2. \A i \in 1 .. Len(calls) : \A r \in Reqs : calls[i] # AsyncWriteOf(Part(r, "body"))
      BY <1>3, NoBodies
    <3>3. \A a : Head(stack[t]) # AsyncWriteOf(a)
      BY <1>1, OtherHead
    <3>4. TypeOK /\ \A x : In(made, x) => In(made', x)
      BY <1>1 DEF Base, IInv
    <3>5. \A u \in Threads : HeadComes(stack[u])'
      BY <1>1, <1>3, <3>1, <3>2, <3>3, <3>4, HeadsGo
    <3> QED
      BY <1>1, <3>1, <3>5
  <2> QED
    BY <2>2, <2>4, <2>5, <2>6, <2>7 DEF SerialInv
<1> QED
  BY <1>1, <1>8, <1>9 DEF StreamInv, Serial

LEMMA FlushStream ==
    ASSUME Base, StreamInv, NEW t \in Threads, FlushSslBuffer(t)
    PROVE  StreamInv'
<1>1. /\ stack[t] # <<>> /\ Head(stack[t]).call = "flushSslBuffer"
      /\ UNCHANGED <<sock, wire, ssl, pending, fetched, readBio, retries, sent, made, overlapped>>
  BY DEF FlushSslBuffer, At
<1>2. CASE Closing \/ writeBio = <<>>
  <2>1. Goes(t, <<>>) /\ writeBio' = writeBio
    BY <1>2 DEF FlushSslBuffer
  <2>2. PICK calls \in Seq(Calls) : calls = <<>> /\ Names(calls) = {} /\ Goes(t, calls)
    BY <2>1, Pushed
  <2>3. \A a : In(pending', a) => Unmade(a)
    BY <1>1 DEF Unmade
  <2>4. Closing => Closing'
    BY <1>1 DEF Closing
  <2> QED
    BY <1>1, <1>2, <2>1, <2>2, <2>3, <2>4, QuietStream
<1> QED
  BY <1>2, TakeBio

\* A chunk reaches the socket.
LEMMA SocketWriteStream ==
    ASSUME Base, StreamInv, NEW t \in Threads, SocketWrite(t)
    PROVE  StreamInv'
<1>1. /\ stack[t] # <<>> /\ Head(stack[t]).call = "socketWrite"
      /\ UNCHANGED <<sock, ssl, pending, fetched, readBio, writeBio, retries, sent, made, overlapped>>
  BY DEF SocketWrite, At
<1>2. PICK calls \in Seq(Calls) : calls = <<>> /\ Names(calls) = {} /\ Goes(t, calls)
  BY Pushed DEF SocketWrite
<1>3. Carries(t)
  BY <1>1, CarriesTop DEF Base, IInv, StreamInv, GeneralInv
<1>4. /\ TopInv' /\ ~Carries(t)'
      /\ \A u \in Threads \ {t} : stack'[u] = stack[u] /\ (Carries(u)' <=> Carries(u))
  <2>1. Len(calls) = 0
    BY <1>2
  <2>2. \A i \in 2 .. Len(calls) : calls[i].call # "socketWrite"
    BY <2>1
  <2>3. ~\E i \in 1 .. Len(calls) : i = 1 /\ calls[i].call = "socketWrite"
    BY <2>1
  <2> QED
    BY <1>1, <1>2, <2>2, <2>3, TopGoes DEF Base, IInv, StreamInv, GeneralInv
<1>5. /\ NoNews /\ (Flusher => Flusher')
  <2>1. \A a : In(made', a) => Kept(a)
    BY <1>1 DEF Kept
  <2>2. \A a : In(pending', a) => Unmade(a)
    BY <1>1 DEF Unmade
  <2>3. \A r \in Reqs : InBio(r)' => InBio(r)
    BY <1>1 DEF InBio
  <2> QED
    BY <1>1, <1>2, <2>1, <2>2, <2>3, QuietNews
<1>6. ssl # "handshake"
  <2>1. t = Loop \/ t \in Reqs
    BY DEF Threads
  <2> QED
    BY <1>1, <1>3, <2>1 DEF Carries, StreamInv, GeneralInv, BeginInv, Base, IInv, HandshakeInv
<1>7. GeneralInv'
  BY <1>1, <1>4, <1>5, <1>6, NewsOfParts DEF StreamInv, GeneralInv, BeginInv, RetriesInv
<1>8. ASSUME Serial
      PROVE  SerialInv'
  <2>1. SerialInv
    BY <1>8 DEF StreamInv
  <2>2. LastInv' /\ InOrder(made)'
    BY <1>1, <1>5, <2>1 DEF SerialInv, LastInv, InHand, NoNews, InOrder
  <2>3. PICK chunk \in Seq(OutRecords) : chunk = Head(stack[t]).chunk
    BY <1>1, HeadCall, CallParts DEF Base, IInv
  <2>4. ~Closing => \A u \in Threads : Carries(u) => u = t
    BY <1>3, <2>1 DEF SerialInv, FlowInv
  <2>5. FlowInv'
    <3>1. CASE Closing
      <4>1. wire' = wire /\ Closing'
        BY <1>1, <3>1 DEF SocketWrite, Closing
      <4> QED
        BY <1>1, <2>1, <4>1 DEF SerialInv, FlowInv
    <3>2. CASE ~Closing
      <4>1. wire' = wire \o chunk /\ wire \in Seq(OutRecords) /\ writeBio \in Seq(OutRecords)
        BY <2>3, <3>2 DEF SocketWrite, Base, IInv, TypeOK
      <4>2. made = wire \o (chunk \o writeBio)
        BY <1>3, <2>1, <2>3, <3>2 DEF SerialInv, FlowInv
      <4>3. (wire \o chunk) \o writeBio = wire \o (chunk \o writeBio)
        BY ONLY <2>3, <4>1, JoinedThree
      <4>4. made' = wire' \o writeBio' /\ writeBio' \in Seq(OutRecords)
        BY <1>1, <4>1, <4>2, <4>3
      <4>5. \A u \in Threads : ~Carries(u)'
        BY <1>4, <2>4, <3>2
      <4> QED
        BY <4>4, <4>5 DEF FlowInv
    <3> QED
      BY <3>1, <3>2
  <2>6. PieceInv'
    <3> SUFFICES ASSUME ~Closing, NEW r \in Reqs, stack'[r] # <<>>
                 PROVE  /\ \A a : Kept(a)' /\ a.req = r => a.part = "whole"
                        /\ ~ToWrite(r)' /\ \A u \in Threads : ~Carries(u)'
      BY <1>1 DEF PieceInv, Closing
    <3>1. stack[r] # <<>> /\ r # 0
      BY <1>5, ThreadFacts DEF NoNews, Loop
    <3>2. (\A a : Kept(a) /\ a.req = r => a.part = "whole") /\ ~ToWrite(r)
      BY <1>3, <2>1, <3>1 DEF SerialInv, PieceInv, Clear
    <3>3. \A u \in Threads : ~Carries(u)'
      BY <1>4, <2>4
    <3> QED
      BY <1>5, <3>1, <3>2, <3>3 DEF NoNews, ToWrite
  <2>7. FlushedInv'
    <3>1. t = Loop => stack[Loop] # <<Call("read")>>
      BY <1>1 DEF Call
    <3>2. t # Loop => stack'[Loop] = stack[Loop]
      BY <1>4, ThreadFacts
    <3>3. Closing => Closing'
      BY <1>1 DEF Closing
    <3> QED
      BY <1>1, <1>5, <2>1, <3>1, <3>2, <3>3, CalmFlushed DEF SerialInv
  <2>8. HeadInv'
    <3> SUFFICES ASSUME retries = 0
                 PROVE  HeadsFirst(made') /\ (~Closing => \A u \in Threads : HeadComes(stack[u])')
      BY <1>1 DEF HeadInv, Closing
    <3>1. HeadsFirst(made)
      BY <2>1 DEF SerialInv, HeadInv
    <3>2. ASSUME ~Closing
          PROVE  \A u \in Threads : HeadComes(stack[u])'
      <4>1. \A u \in Threads : HeadComes(stack[u])
        BY <2>1, <3>2 DEF SerialInv, HeadInv
      <4>2. \A i \in 1 .. Len(calls) : \A r \in Reqs : calls[i] # AsyncWriteOf(Part(r, "body"))
        BY <1>2, NoBodies
      <4>3. \A a : Head(stack[t]) # AsyncWriteOf(a)
        BY <1>1, OtherHead
      <4>4. TypeOK /\ \A x : In(made, x) => In(made', x)
        BY <1>1 DEF Base, IInv
      <4> QED
        BY <1>1, <1>2, <4>1, <4>2, <4>3, <4>4, HeadsGo
    <3> QED
      BY <1>1, <3>1, <3>2
  <2> QED
    BY <2>2, <2>5, <2>6, <2>7, <2>8 DEF SerialInv
<1> QED
  BY <1>1, <1>7, <1>8 DEF StreamInv, Serial

\* The pending writes go from one place to another.
LEMMA RetryStream ==
    ASSUME Base, StreamInv, NEW t \in Threads, Retry(t)
    PROVE  StreamInv'
<1>1. /\ stack[t] # <<>> /\ Head(stack[t]).call = "retry" /\ pending' = <<>>
      /\ UNCHANGED <<sock, wire, ssl, fetched, readBio, writeBio, retries, sent, made, overlapped>>
  BY DEF Retry, At, SwappedAway
<1>2. PICK calls : calls = [i \in DOMAIN pending |-> AsyncWriteOf(pending[i])]
  OBVIOUS
<1>3. pending \in Seq(Answers) /\ Inj(pending) /\ TypeOK /\ IInv /\ DueInv
  BY DEF Base, IInv, TypeOK, KeptInv, UniqueInv
<1>4. /\ calls \in Seq(Calls) /\ Goes(t, calls) /\ Len(calls) = Len(pending)
      /\ Names(calls) \subseteq {"asyncWrite"}
      /\ \A a : Writes(calls, a) <=> In(pending, a)
  BY <1>2, <1>3, Retried, RetriedWrites DEF Retry
<1>5. /\ \A u \in Threads \ {t} : stack'[u] = stack[u]
      /\ \A a : Writes(stack'[t], a) => Writes(calls, a) \/ Writes(stack[t], a)
  <2>1. PICK rest \in Seq(Calls) :
           /\ \A u \in Threads \ {t} : stack'[u] = stack[u]
           /\ \A a : Writes(stack'[t], a) <=> Writes(calls, a) \/ Writes(rest, a)
           /\ \A a : Writes(stack[t], a) <=>
                 \/ Head(stack[t]).call = "asyncWrite" /\ Head(stack[t]).answer = a
                 \/ Writes(rest, a)
    BY <1>1, <1>3, <1>4, Flow, ZenonT(60)
  <2> QED
    BY <2>1
<1>6. \A a : Unmade(a)' => Unmade(a)
  <2>1. \A a : ~In(pending', a)
    BY <1>1, EmptyHasNone
  <2> QED
    BY <1>4, <1>5, <2>1 DEF Unmade
<1>7. NoNews
  <2>1. \A a : Kept(a)' => Kept(a)
    BY <1>1, <1>6 DEF Kept, Unmade
  <2>2. PICK cs : Effect(t, cs)
    BY <1>3, RetryEffect
  <2>3. \A r \in Reqs : /\ OnReading(r)' => OnReading(r)
                        /\ Due(r)' => Due(r)
                        /\ stack[r] = <<>> => stack'[r] = <<>>
    BY <1>3, <2>2, EffectDue
  <2>4. \A r \in Reqs : InBio(r)' => InBio(r)
    BY <1>1 DEF InBio
  <2> QED
    BY <1>6, <2>1, <2>3, <2>4 DEF NoNews
<1>8. TopInv' /\ SameCarriers
  BY <1>1, <1>3, <1>4, PlainGoes DEF StreamInv, GeneralInv
<1>9. GeneralInv'
  BY <1>1, <1>7, <1>8, ThreadFacts, NewsOfParts
     DEF StreamInv, GeneralInv, BeginInv, RetriesInv, SameCarriers, Carries
<1>10. ASSUME Serial
       PROVE  SerialInv'
  <2>1. SerialInv /\ (Closing' <=> Closing)
    BY <1>1, <1>10 DEF StreamInv, Closing
  <2>2. LastInv' /\ InOrder(made)' /\ FlowInv' /\ PieceInv'
    BY <1>1, <1>7, <1>8, <2>1, CalmKeeps
  <2>3. stack'[Loop] = stack[Loop] \/ stack[Loop] # <<Call("read")>>
    <3>1. t = Loop => stack[Loop] # <<Call("read")>>
      BY <1>1 DEF Call
    <3>2. t # Loop => stack'[Loop] = stack[Loop]
      BY <1>5, ThreadFacts
    <3> QED
      BY <3>1, <3>2
  <2>4. Flusher => Flusher'
    <3>1. /\ \A name : On(t, name)' <=> name \in Names(calls) \/ Below(t, name)
          /\ \A name : On(t, name) <=> name = Head(stack[t]).call \/ Below(t, name)
          /\ \A u \in Threads \ {t} : \A name : On(u, name)' <=> On(u, name)
      BY <1>1, <1>3, <1>4, GoesOn
    <3>2. \A u \in Threads : \A name \in {"read", "flushSslBuffer"} : On(u, name) => On(u, name)'
      BY <1>1, <3>1
    <3> QED
      BY <3>2, ThreadFacts DEF Flusher
  <2>5. FlushedInv'
    BY <1>1, <1>7, <2>1, <2>3, <2>4, CalmFlushed DEF SerialInv
  <2>6. HeadInv'
    <3> SUFFICES ASSUME retries = 0
                 PROVE  HeadsFirst(made') /\ (~Closing => \A u \in Threads : HeadComes(stack[u])')
      BY <1>1, <2>1 DEF HeadInv
    <3>1. HeadsFirst(made)
      BY <2>1 DEF SerialInv, HeadInv
    <3>2. ASSUME ~Closing
          PROVE  \A u \in Threads : HeadComes(stack[u])'
      <4>1. \A u \in Threads : HeadComes(stack[u])
        BY <2>1, <3>2 DEF SerialInv, HeadInv
      <4>2. Len(calls) = 0
        BY <1>4 DEF StreamInv, GeneralInv, RetriesInv
      <4>3. \A i \in 1 .. Len(calls) : \A r \in Reqs : calls[i] # AsyncWriteOf(Part(r, "body"))
        BY <4>2
      <4>4. \A a : Head(stack[t]) # AsyncWriteOf(a)
        BY <1>1, OtherHead
      <4>5. \A x : In(made, x) => In(made', x)
        BY <1>1
      <4> QED
        BY <1>1, <1>3, <1>4, <4>1, <4>3, <4>4, <4>5, HeadsGo
    <3> QED
      BY <1>1, <3>1, <3>2
  <2> QED
    BY <2>2, <2>5, <2>6 DEF SerialInv
<1> QED
  BY <1>1, <1>9, <1>10 DEF StreamInv, Serial

\* OpenSSL says goodbye: the stream is over.
LEMMA GoodbyeStream ==
    ASSUME Base, StreamInv, NEW t \in Threads, Close(t), Make(Control("notify")),
           ssl' \in {"over", "shutdown"}, NEW calls \in Seq(Calls), Goes(t, calls),
           Names(calls) \cap {"asyncWrite", "onRead", "respond", "socketWrite"} = {}
    PROVE  StreamInv'
<1>1. /\ stack[t] # <<>> /\ Head(stack[t]).call = "close"
      /\ UNCHANGED <<readBio, pending, fetched, retries>>
  BY DEF Close, At
<1>2. Control("notify") \in OutRecords /\ Control("notify").req = 0
  BY RecordTypes DEF Control
<1>3. \A a : In(made', a) <=> In(made, a) \/ a = Control("notify")
  <2>1. made \in Seq(OutRecords) /\ made' = Append(made, Control("notify"))
    BY DEF Base, IInv, TypeOK, Make
  <2> QED
    BY ONLY <1>2, <2>1, InAppend
<1>4. \A a : In(made', a) => Kept(a) \/ a.req = 0
  BY <1>2, <1>3 DEF Kept
<1>5. \A r \in Reqs : InBio(r)' => InBio(r)
  BY <1>1 DEF InBio
<1> QED
  BY <1>1, <1>4, <1>5, EndStream

LEMMA CloseStream ==
    ASSUME Base, StreamInv, NEW t \in Threads, Close(t)
    PROVE  StreamInv'
<1>1. /\ stack[t] # <<>> /\ Head(stack[t]).call = "close"
      /\ UNCHANGED <<sock, readBio, pending, fetched, sent, wire, retries, overlapped>>
  BY DEF Close, At
<1>2. PICK calls \in Seq(Calls) :
         /\ Goes(t, calls)
         /\ Names(calls) \subseteq {"closeSocket", "flushSslBuffer", "retry"}
  <2>1. CASE Goes(t, <<>>)
    BY <2>1, Pushed
  <2>2. CASE Goes(t, <<Call("closeSocket")>>)
    BY <2>2, Pushed
  <2>3. CASE Goes(t, FlushCalls \o <<Call("closeSocket")>>)
    BY <2>3, Pushed
  <2> QED
    BY <2>1, <2>2, <2>3 DEF Close
<1>3. Names(calls) \cap {"asyncWrite", "onRead", "respond", "socketWrite"} = {}
  BY <1>2
<1>4. CASE UNCHANGED <<ssl, made, writeBio>>
  <2>1. \A a : In(pending', a) => Unmade(a)
    BY <1>1 DEF Unmade
  <2>2. Closing => Closing'
    BY <1>1 DEF Closing
  <2> QED
    BY <1>1, <1>2, <1>3, <1>4, <2>1, <2>2, QuietStream
<1>5. CASE Make(Control("notify")) /\ ssl' \in {"over", "shutdown"}
  BY <1>2, <1>3, <1>5, GoodbyeStream
<1> QED
  BY <1>4, <1>5 DEF Close

LEMMA CloseSocketStream ==
    ASSUME Base, StreamInv, NEW t \in Threads, CloseSocket(t)
    PROVE  StreamInv'
<1>1. /\ stack[t] # <<>> /\ Head(stack[t]).call = "closeSocket" /\ Closing'
      /\ UNCHANGED <<ssl, readBio, writeBio, pending, fetched, sent, made, wire, retries, overlapped>>
  BY DEF CloseSocket, At, Closing
<1>2. PICK calls \in Seq(Calls) : calls = <<>> /\ Names(calls) = {} /\ Goes(t, calls)
  BY Pushed DEF CloseSocket
<1>3. \A a : In(pending', a) => Unmade(a)
  BY <1>1 DEF Unmade
<1> QED
  BY <1>1, <1>2, <1>3, QuietStream

LEMMA StepStream ==
    ASSUME Base, Base', StreamInv, NEW t \in Threads, Step(t)
    PROVE  StreamInv'
BY AsyncWriteStream, FlushStream, SocketWriteStream, RetryStream, CloseStream, CloseSocketStream
   DEF Step
------------------------------------------------------------------------------
(* Events *)

\* Steps that touch neither the stream nor a stack.
LEMMA SameStream ==
    ASSUME StreamInv, Closing => Closing',
           UNCHANGED <<ssl, readBio, writeBio, pending, stack, fetched, sent, made, wire,
                       retries, overlapped>>
    PROVE  StreamInv'
<1>1. TopInv' /\ SameCarriers
  BY SameStacks DEF StreamInv, GeneralInv
<1>2. NoNews /\ (Flusher => Flusher')
  BY DEF NoNews, Unmade, Kept, Due, OnReading, Working, On, InBio, Flusher
<1>3. GeneralInv'
  BY <1>1, <1>2, NewsOfParts DEF StreamInv, GeneralInv, BeginInv, RetriesInv, On
<1>4. ASSUME Serial
      PROVE  SerialInv'
  <2>1. SerialInv
    BY <1>4 DEF StreamInv
  <2>2. LastInv' /\ InOrder(made)' /\ FlowInv' /\ PieceInv'
    BY <1>1, <1>2, <2>1, CalmKeeps
  <2>3. FlushedInv'
    BY <1>2, <2>1, CalmFlushed DEF SerialInv
  <2>4. HeadInv'
    BY <2>1 DEF SerialInv, HeadInv, HeadsFirst, HeadComes, Comes
  <2> QED
    BY <2>2, <2>3, <2>4 DEF SerialInv
<1> QED
  BY <1>3, <1>4 DEF StreamInv, Serial

\* The loop begins with calls of an event.
LEMMA BegunNews ==
    ASSUME Base, TopInv, LoopIdle, NEW calls \in Seq(Calls),
           Names(calls) \subseteq {"close", "read", "asyncWrite"},
           stack' = [stack EXCEPT ![Loop] = calls],
           UNCHANGED <<pending, made>>, fetched' \subseteq fetched
    PROVE  /\ TopInv' /\ SameCarriers /\ (Flusher => Flusher')
           /\ stack[Loop] = <<>> /\ stack'[Loop] = calls
           /\ \A r \in Reqs : stack'[r] = stack[r]
           /\ \A r : ~OnReading(r) /\ ~OnReading(r)'
           /\ \A r \in Reqs : Due(r)' => Due(r)
           /\ \A a : Unmade(a)' <=> Unmade(a) \/ Writes(calls, a)
           /\ \A a : Kept(a)' <=> Kept(a) \/ Writes(calls, a)
<1>1. TypeOK /\ stack[Loop] = <<>> /\ \A name : ~On(Loop, name)
  BY IdleFacts DEF Base, IInv
<1>2. /\ stack'[Loop] = calls /\ \A r \in Reqs : stack'[r] = stack[r]
      /\ \A r \in Reqs : \A name : On(r, name)' <=> On(r, name)
  BY <1>1, Begun
<1>3. TopInv' /\ SameCarriers
  BY <1>1, PlainBegun
<1>4. \A t \in Threads : t = Loop \/ t \in Reqs
  BY DEF Threads
<1>5. Flusher => Flusher'
  BY <1>1, <1>2, <1>4 DEF Flusher
<1>6. \A r : ~OnReading(r) /\ ~OnReading(r)'
  <2>1. \A r : ~In(calls, OnReadOf(r))
    BY NamesSay
  <2> QED
    BY <1>1, <1>2, <2>1, EmptyHasNone DEF OnReading
<1>7. \A r \in Reqs : Due(r)' => Due(r)
  BY <1>2, <1>6 DEF Due, Working
<1>8. \A a : (\E t \in Threads : Writes(stack'[t], a))
                <=> Writes(calls, a) \/ \E t \in Threads : Writes(stack[t], a)
  BY <1>1, <1>2, <1>4, ThreadFacts, EmptyHasNone
<1>9. /\ \A a : Unmade(a)' <=> Unmade(a) \/ Writes(calls, a)
      /\ \A a : Kept(a)' <=> Kept(a) \/ Writes(calls, a)
  BY <1>8 DEF Unmade, Kept
<1> QED
  BY <1>1, <1>2, <1>3, <1>5, <1>6, <1>7, <1>9

LEMMA HeadsBegun ==
    ASSUME HeadInv, made' = made, retries' = retries, Closing => Closing',
           NEW calls, stack'[Loop] = calls, HeadComes(calls),
           \A r \in Reqs : stack'[r] = stack[r]
    PROVE  HeadInv'
<1>1. \A t \in Threads : t = Loop \/ t \in Reqs
  BY DEF Threads
<1>2. HeadComes(stack[Loop])' /\ (~Closing' /\ retries' = 0 => \A r \in Reqs : HeadComes(stack[r])')
  BY ThreadFacts DEF HeadInv, HeadComes, Comes
<1>3. retries' = 0 => HeadsFirst(made)'
  BY DEF HeadInv, HeadsFirst
<1> QED
  BY <1>1, <1>2, <1>3 DEF HeadInv

\* The loop begins, and nothing new is read or answered.
LEMMA CalmBegun ==
    ASSUME Base, StreamInv, LoopIdle, NEW calls \in Seq(Calls),
           Names(calls) \subseteq {"close", "read"},
           stack' = [stack EXCEPT ![Loop] = calls],
           fetched' \subseteq fetched, Closing => Closing',
           UNCHANGED <<ssl, writeBio, pending, sent, made, wire, retries>>,
           overlapped => overlapped', \A r \in Reqs : InBio(r)' => InBio(r)
    PROVE  StreamInv'
<1>1. /\ TopInv' /\ SameCarriers /\ (Flusher => Flusher')
      /\ stack[Loop] = <<>> /\ stack'[Loop] = calls
      /\ \A r \in Reqs : stack'[r] = stack[r]
      /\ \A r : ~OnReading(r)'
      /\ \A r \in Reqs : Due(r)' => Due(r)
      /\ \A a : Unmade(a)' <=> Unmade(a) \/ Writes(calls, a)
      /\ \A a : Kept(a)' <=> Kept(a) \/ Writes(calls, a)
  BY BegunNews DEF StreamInv, GeneralInv
<1>2. \A a : ~Writes(calls, a)
  BY NamesSay
<1>3. NoNews
  BY <1>1, <1>2 DEF NoNews
<1>4. GeneralInv'
  BY <1>1, <1>3, ThreadFacts, NewsOfParts
     DEF StreamInv, GeneralInv, BeginInv, RetriesInv, SameCarriers, Carries
<1>5. ASSUME Serial
      PROVE  SerialInv'
  <2>1. SerialInv
    BY <1>5 DEF StreamInv
  <2>2. LastInv' /\ InOrder(made)' /\ FlowInv' /\ PieceInv'
    BY <1>1, <1>3, <2>1, CalmKeeps
  <2>3. stack[Loop] # <<Call("read")>>
    BY <1>1
  <2>4. FlushedInv'
    BY <1>1, <1>3, <2>1, <2>3, CalmFlushed DEF SerialInv
  <2>5. HeadComes(calls)
    <3>1. \A i \in 1 .. Len(calls) : \A a : calls[i] # AsyncWriteOf(a)
      BY NoBodies
    <3> QED
      BY <3>1 DEF HeadComes
  <2>6. HeadInv'
    BY <1>1, <2>1, <2>5, HeadsBegun DEF SerialInv
  <2> QED
    BY <2>2, <2>4, <2>6 DEF SerialInv
<1> QED
  BY <1>4, <1>5 DEF StreamInv, Serial

LEMMA SocketEventStream ==
    ASSUME StreamInv, ListenEvent \/ EndEvent \/ CloseEvent
    PROVE  StreamInv'
BY SameStream DEF ListenEvent, EndEvent, CloseEvent, Closing

LEMMA CloseCallStream ==
    ASSUME Base, StreamInv, ErrorEvent \/ TimerEvent
    PROVE  StreamInv'
<1>1. PICK calls \in Seq(Calls) : calls = <<Call("close")>> /\ Names(calls) = {"close"}
  BY Pushed
<1>2. /\ LoopIdle /\ stack' = [stack EXCEPT ![Loop] = calls]
      /\ UNCHANGED <<sock, ssl, readBio, writeBio, pending, fetched, sent, made, wire, retries, overlapped>>
  BY <1>1 DEF ErrorEvent, TimerEvent, TimerCalls
<1>3. (Closing => Closing') /\ \A r \in Reqs : InBio(r)' => InBio(r)
  BY <1>2 DEF Closing, InBio
<1> QED
  BY <1>1, <1>2, <1>3, CalmBegun

\* The client has what was made for it: nothing is left to be written.
LEMMA AnsweredOver ==
    ASSUME Base, PartsInv, NEW r \in Reqs, Answered(r), \A x : In(wire, x) => In(made, x)
    PROVE  ~Due(r) /\ \A a : Unmade(a) => a.req # r
<1>1. wire \in Seq(OutRecords)
  BY DEF Base, IInv, TypeOK
<1>2. \A x : x \in Range(wire) <=> In(wire, x)
  BY <1>1, RangeIn
<1>3. \A x : In(wire, x) => In(made, x) /\ Kept(x) /\ x \in OutRecords
  <2>1. TypeOK
    BY DEF Base, IInv
  <2> QED
    BY <2>1, AnswerTypes DEF Kept
<1>4. \/ \E x : In(wire, x) /\ x.req = r /\ x.part = "whole"
      \/ /\ \E x : In(wire, x) /\ x.req = r /\ x.part = "head"
         /\ \E x : In(wire, x) /\ x.req = r /\ x.part = "body"
  BY <1>2 DEF Answered
<1>5. \/ In(made, Part(r, "whole"))
      \/ In(made, Part(r, "head")) /\ In(made, Part(r, "body"))
  BY <1>3, <1>4, PartFacts
<1>6. r # 0
  BY ThreadFacts DEF Loop
<1>7. ~Due(r)
  BY <1>5, PartFacts DEF Kept, Base, KeptInv, DueInv
<1>8. ASSUME NEW a, Unmade(a), a.req = r
      PROVE  FALSE
  <2>1. a \in Answers /\ Kept(a) /\ ~In(made, a)
    BY <1>8, UnmadeFacts DEF Unmade, Base, KeptInv, UniqueInv
  <2>2. a.part \in {"whole", "head", "body"} /\ a = Part(r, a.part)
    BY <1>8, <2>1 DEF Answers, Part
  <2>3. a.part = "whole" <=> In(made, Part(r, "whole"))
    <3>1. CASE In(made, Part(r, "whole"))
      <4>1. Kept(Part(r, "whole"))
        BY <3>1 DEF Kept
      <4> QED
        BY <1>6, <1>8, <2>1, <3>1, <4>1, PartFacts DEF PartsInv
    <3>2. CASE In(made, Part(r, "head")) /\ ~In(made, Part(r, "whole"))
      <4>1. Kept(Part(r, "head"))
        BY <3>2 DEF Kept
      <4> QED
        BY <1>6, <1>8, <2>1, <3>2, <4>1, PartFacts DEF PartsInv
    <3> QED
      BY <1>5, <3>1, <3>2
  <2> QED
    BY <1>5, <2>1, <2>2, <2>3
<1> QED
  BY <1>7, <1>8

\* All stacks are empty: nothing is in the BIO.
LEMMA AllAnswered ==
    ASSUME Base, StreamInv, Serial, LoopIdle,
           \A r \in 1 .. sent : Answered(r) /\ stack[r] = <<>>
    PROVE  /\ \A t \in Threads : stack[t] = <<>> /\ ~Carries(t)
           /\ \A r \in Reqs : ~InHand(r)
           /\ ~Closing => writeBio = <<>>
<1>1. SerialInv /\ PartsInv
  BY DEF StreamInv, GeneralInv
<1>2. stack[Loop] = <<>> /\ \A name : ~On(Loop, name)
  BY IdleFacts
<1>3. \A r \in Reqs : Known(r) => r \in 1 .. sent
  <2>1. sent \in Nat /\ \A r \in Reqs : r \in Nat \ {0}
    BY MaxRequestsAssumption DEF Base, IInv, TypeOK, Reqs
  <2> QED
    BY <2>1 DEF Base, KeptInv, ReadInv
<1>4. \A r \in Reqs : stack[r] = <<>>
  BY <1>3 DEF Known
<1>5. \A t \in Threads : stack[t] = <<>> /\ \A name : ~On(t, name)
  <2>1. \A r \in Reqs : Len(stack[r]) = 0
    BY <1>4
  <2> QED
    BY <1>2, <1>4, <2>1 DEF Threads, On
<1>6. ~Closing => writeBio = <<>>
  BY <1>1, <1>2, <1>5 DEF SerialInv, FlushedInv, Flusher
<1>7. \A x : In(wire, x) => In(made, x)
  <2>1. PICK rest \in Seq(OutRecords) : made = wire \o rest
    BY <1>1 DEF SerialInv, FlowInv
  <2>2. wire \in Seq(OutRecords)
    BY DEF Base, IInv, TypeOK
  <2> QED
    BY <2>1, <2>2, InConcat
<1>8. ASSUME NEW r \in Reqs, InHand(r)
      PROVE  FALSE
  <2>1. ~InBio(r)
    BY <1>1, <1>2 DEF SerialInv, FlushedInv
  <2>2. Known(r)
    BY <1>8, <2>1, UnmadeFacts DEF InHand, Known
  <2>3. Answered(r)
    BY <1>3, <2>2
  <2> QED
    BY <1>1, <1>4, <1>7, <1>8, <2>1, <2>3, AnsweredOver DEF InHand
<1> QED
  BY <1>5, <1>6, <1>8 DEF Carries

\* What a read of the socket brings is behind what was not read before.
LEMMA DataBrings ==
    ASSUME Base, NEW batch \in Batches, DataEvent(batch)
    PROVE  \E n \in 0 .. MaxRequests - sent :
              /\ sent' = sent + n
              /\ Cardinality({i \in DOMAIN batch : batch[i].kind = "app"}) = n
              /\ \A r \in Reqs : InBio(r)' => InBio(r) \/ r \in sent + 1 .. sent + n
<1>1. PICK m \in {0, 1}, n \in 0 .. MaxRequests - sent :
         /\ batch \in Seq(InRecords)
         /\ \A i \in 1 .. Len(batch) :
               batch[i].kind = "app" => i \in m + 1 .. m + n /\ batch[i].req = sent + i - m
         /\ Cardinality({i \in DOMAIN batch : batch[i].kind = "app"}) = n
  BY BatchFacts DEF Base, IInv
<1>2. sent' = sent + n /\ readBio' = readBio \o batch
  BY <1>1 DEF DataEvent
<1>3. readBio \in Seq(InRecords) /\ sent \in Nat /\ n \in Nat
  BY MaxRequestsAssumption DEF Base, IInv, TypeOK
<1>4. /\ Len(readBio') = Len(readBio) + Len(batch) /\ Len(readBio) \in Nat
      /\ \A i \in 1 .. Len(readBio) + Len(batch) :
            readBio'[i] = IF i <= Len(readBio) THEN readBio[i] ELSE batch[i - Len(readBio)]
  BY <1>1, <1>2, <1>3, ConcatProperties, LenProperties
<1>5. ASSUME NEW r \in Reqs, InBio(r)'
      PROVE  InBio(r) \/ r \in sent + 1 .. sent + n
  <2>1. PICK i \in 1 .. Len(readBio') : readBio'[i].req = r
    BY <1>5 DEF InBio
  <2>2. CASE i <= Len(readBio)
    <3>1. i \in 1 .. Len(readBio) /\ readBio[i].req = r
      BY <1>1, <1>4, <2>1, <2>2
    <3> QED
      BY <3>1 DEF InBio
  <2>3. CASE i > Len(readBio)
    <3>1. PICK j \in 1 .. Len(batch) : readBio'[i] = batch[j]
      BY <1>1, <1>4, <2>3
    <3>2. batch[j] \in InRecords /\ batch[j].req = r /\ r # 0
      BY <1>1, <2>1, <3>1, ThreadFacts DEF Loop
    <3>3. batch[j].kind = "app"
      BY <3>2, RecordKinds
    <3>4. j \in m + 1 .. m + n /\ r = sent + j - m
      BY <1>1, <3>2, <3>3
    <3> QED
      BY <1>3, <3>4
  <2> QED
    BY <1>4, <2>2, <2>3
<1> QED
  BY <1>1, <1>2, <1>5

LEMMA DataStream ==
    ASSUME Base, StreamInv, NEW batch \in Batches, DataEvent(batch)
    PROVE  StreamInv'
<1>1. PICK n \in 0 .. MaxRequests - sent :
         /\ sent' = sent + n
         /\ Cardinality({i \in DOMAIN batch : batch[i].kind = "app"}) = n
         /\ \A r \in Reqs : InBio(r)' => InBio(r) \/ r \in sent + 1 .. sent + n
  BY DataBrings
<1>2. PICK calls \in Seq(Calls) : calls = <<Call("read")>> /\ Names(calls) = {"read"}
  BY Pushed
<1>3. /\ LoopIdle /\ stack' = [stack EXCEPT ![Loop] = calls]
      /\ UNCHANGED <<sock, ssl, writeBio, pending, fetched, made, wire, retries>>
      /\ overlapped => overlapped'
  BY <1>2 DEF DataEvent
<1>4. (Closing' <=> Closing) /\ sent \in Nat /\ n \in Nat
  BY <1>3, MaxRequestsAssumption DEF Closing, Base, IInv, TypeOK
<1>5. CASE n = 0
  <2>1. sent' = sent /\ \A r \in Reqs : InBio(r)' => InBio(r)
    BY <1>1, <1>4, <1>5
  <2> QED
    BY <1>2, <1>3, <1>4, <2>1, CalmBegun
<1>6. CASE n # 0
  <2>1. {i \in DOMAIN batch : batch[i].kind = "app"} # {}
    BY <1>1, <1>6, FS_EmptySet
  <2>2. /\ n > 1 => overlapped'
        /\ ssl = "handshake" => overlapped'
        /\ ~overlapped' => \A r \in 1 .. sent : Answered(r) /\ stack[r] = <<>>
    BY <1>1, <2>1 DEF DataEvent
  <2>3. /\ TopInv' /\ SameCarriers
        /\ stack'[Loop] = calls
        /\ \A r \in Reqs : stack'[r] = stack[r]
        /\ \A r : ~OnReading(r)'
        /\ \A r \in Reqs : Due(r)' => Due(r)
        /\ \A a : Unmade(a)' <=> Unmade(a) \/ Writes(calls, a)
        /\ \A a : Kept(a)' <=> Kept(a) \/ Writes(calls, a)
    BY <1>2, <1>3, BegunNews DEF StreamInv, GeneralInv
  <2>4. \A a : ~Writes(calls, a)
    BY <1>2, NamesSay
  <2>5. GeneralInv'
    <3>1. BeginInv'
      BY <1>3, <2>2, <2>3, ThreadFacts DEF StreamInv, GeneralInv, BeginInv, SameCarriers, Carries
    <3>2. PartsInv'
      BY <2>3, <2>4 DEF StreamInv, GeneralInv, PartsInv
    <3> QED
      BY <1>3, <2>3, <3>1, <3>2 DEF StreamInv, GeneralInv, RetriesInv
  <2>6. ASSUME Serial'
        PROVE  SerialInv'
    <3>1. Serial /\ SerialInv /\ n = 1
      BY <1>3, <1>4, <1>6, <2>2, <2>6 DEF Serial, StreamInv
    <3>2. /\ \A t \in Threads : stack[t] = <<>> /\ ~Carries(t)
          /\ \A r \in Reqs : ~InHand(r)
          /\ ~Closing => writeBio = <<>>
      BY <1>3, <2>2, <2>6, <3>1, AllAnswered DEF Serial
    <3>3. \A r \in Reqs : InHand(r)' => r = sent'
      <4> SUFFICES ASSUME NEW r \in Reqs, InHand(r)'
                   PROVE  r = sent + 1
        BY <1>1, <3>1
      <4>1. InBio(r)'
        BY <2>3, <2>4, <3>2 DEF InHand
      <4>2. InBio(r) \/ r \in sent + 1 .. sent + 1
        BY <1>1, <3>1, <4>1
      <4> QED
        BY <1>4, <3>2, <4>2 DEF InHand
    <3>4. InOrder(made)' /\ FlowInv'
      BY <1>3, <1>4, <2>3, <3>1 DEF SerialInv, InOrder, FlowInv, SameCarriers
    <3>5. HeadComes(calls)
      <4>1. \A i \in 1 .. Len(calls) : \A a : calls[i] # AsyncWriteOf(a)
        BY <1>2, NoBodies
      <4> QED
        BY <4>1 DEF HeadComes
    <3>6. HeadInv'
      BY <1>3, <1>4, <2>3, <3>1, <3>5, HeadsBegun DEF SerialInv
    <3>7. PieceInv'
      BY <2>3, <3>2, ThreadFacts DEF PieceInv
    <3>8. On(Loop, "read")'
      <4>1. 1 \in 1 .. Len(calls) /\ calls[1].call = "read"
        BY <1>2 DEF Call
      <4> QED
        BY <2>3, <4>1 DEF On
    <3>9. FlushedInv'
      BY <1>2, <1>3, <1>4, <2>3, <3>2, <3>8 DEF FlushedInv, Flusher
    <3> QED
      BY <3>3, <3>4, <3>6, <3>7, <3>9 DEF SerialInv, LastInv
  <2> QED
    BY <2>5, <2>6 DEF StreamInv
<1> QED
  BY <1>5, <1>6

\* What an AsyncEvent writes: all in one piece, or a head and a body.
LEMMA FileWrites ==
    ASSUME NEW r \in Reqs, NEW parts \in FileAnswers
    PROVE  LET calls == [i \in DOMAIN parts |-> AsyncWriteOf([req |-> r, part |-> parts[i]])]
           IN  /\ calls \in Seq(Calls) /\ Names(calls) = {"asyncWrite"}
               /\ HeadComes(calls)
               /\ \A a, b : Writes(calls, a) /\ Writes(calls, b) =>
                     a.req = r /\ (a.part = "whole" <=> b.part = "whole")
<1> DEFINE calls == [i \in DOMAIN parts |-> AsyncWriteOf([req |-> r, part |-> parts[i]])]
<1>1. \A part \in {"whole", "head", "body"} : Part(r, part) \in Answers
  BY DEF Answers, Part
<1>2. CASE parts = <<"whole">>
  <2>1. PICK n : n = calls
    OBVIOUS
  <2>2. PICK a \in Answers : a = Part(r, "whole")
    BY <1>1
  <2>3. n = <<AsyncWriteOf(a)>>
    BY <1>2, <2>1, <2>2 DEF Part
  <2>4. \A b : Writes(n, b) <=> b = a
    BY <2>3, OneWrite
  <2>5. n \in Seq(Calls) /\ Names(n) = {"asyncWrite"}
    <3>1. \A b \in Answers :
             <<AsyncWriteOf(b)>> \in Seq(Calls) /\ Names(<<AsyncWriteOf(b)>>) = {"asyncWrite"}
      BY Pushed
    <3> QED
      BY ONLY <2>3, <3>1
  <2>6. HeadComes(n)
    <3>1. \A i \in 1 .. Len(n) : n[i] = AsyncWriteOf(a)
      BY <2>3
    <3>2. \A q : AsyncWriteOf(a) # AsyncWriteOf(Part(q, "body"))
      <4>1. a.part = "whole" /\ \A q : Part(q, "body").part = "body"
        BY <2>2 DEF Part
      <4> QED
        BY <4>1, PartFacts
    <3> QED
      BY <3>1, <3>2 DEF HeadComes
  <2>7. \A b, c : Writes(n, b) /\ Writes(n, c) =>
           b.req = r /\ (b.part = "whole" <=> c.part = "whole")
    BY <2>4, <2>2, PartFacts
  <2> QED
    BY <2>1, <2>5, <2>6, <2>7
<1>3. CASE parts = <<"head", "body">>
  <2>1. calls = <<AsyncWriteOf(Part(r, "head")), AsyncWriteOf(Part(r, "body"))>>
    BY <1>3 DEF Part
  <2>2. /\ AsyncWriteOf(Part(r, "head")) \in Calls /\ AsyncWriteOf(Part(r, "body")) \in Calls
        /\ \A part : /\ AsyncWriteOf(Part(r, part)).call = "asyncWrite"
                     /\ AsyncWriteOf(Part(r, part)).answer = Part(r, part)
    BY <1>1, CallTypes DEF AsyncWriteOf
  <2>3. PICK n : n = calls
    OBVIOUS
  <2>4. /\ n \in Seq(Calls) /\ Len(n) = 2
        /\ n[1] = AsyncWriteOf(Part(r, "head")) /\ n[2] = AsyncWriteOf(Part(r, "body"))
    BY <2>1, <2>2, <2>3
  <2>5. \A i \in 1 .. Len(n) : i = 1 \/ i = 2
    BY <2>4
  <2>6. Names(n) = {"asyncWrite"}
    BY <2>2, <2>4, <2>5 DEF Names
  <2>7. HeadComes(n)
    <3> SUFFICES ASSUME NEW i \in 1 .. Len(n), NEW q \in Reqs, n[i] = AsyncWriteOf(Part(q, "body"))
                 PROVE  \E j \in 1 .. i - 1 : n[j] = AsyncWriteOf(Part(q, "head"))
      BY DEF HeadComes, Comes
    <3>1. i = 2 /\ q = r
      BY <2>4, <2>5, PartFacts
    <3> QED
      BY <2>4, <3>1
  <2>8. \A a : Writes(n, a) => a = Part(r, "head") \/ a = Part(r, "body")
    BY <2>2, <2>4, <2>5 DEF Writes
  <2>9. \A a, b : Writes(n, a) /\ Writes(n, b) =>
           a.req = r /\ (a.part = "whole" <=> b.part = "whole")
    BY <2>8, PartFacts
  <2> QED
    BY <2>3, <2>4, <2>6, <2>7, <2>9
<1> QED
  BY <1>2, <1>3 DEF FileAnswers

\* Writing what was due before: what both OnRead and an AsyncEvent do.
LEMMA AnswerParts ==
    ASSUME Base, PartsInv, NEW r \in Reqs, Due(r), NEW calls,
           \A a : Kept(a)' => Kept(a) \/ Writes(calls, a),
           \A a, b : Writes(calls, a) /\ Writes(calls, b) =>
              a.req = r /\ (a.part = "whole" <=> b.part = "whole")
    PROVE  PartsInv'
<1>1. \A a : Kept(a) => a.req # r
  BY DEF Base, KeptInv, DueInv
<1> QED
  BY <1>1 DEF PartsInv

LEMMA AsyncStream ==
    ASSUME Base, StreamInv, NEW r \in Reqs, AsyncEvent(r)
    PROVE  StreamInv'
<1>1. /\ LoopIdle /\ r \in fetched /\ fetched' \subseteq fetched
      /\ UNCHANGED <<sock, ssl, readBio, writeBio, pending, sent, made, wire, retries, overlapped>>
  BY DEF AsyncEvent
<1>2. Due(r) /\ ssl # "handshake" /\ stack[r] = <<>>
  BY <1>1 DEF Due, Base, IInv, HandshakeInv, KeptInv, DueInv
<1>3. (Closing' <=> Closing) /\ \A q \in Reqs : InBio(q)' <=> InBio(q)
  BY <1>1 DEF Closing, InBio
<1>4. CASE stack' = stack
  <2>1. PICK calls \in Seq(Calls) : calls = <<>> /\ Names(calls) = {}
    BY Pushed
  <2>2. stack' = [stack EXCEPT ![Loop] = calls]
    BY <1>1, <1>4, <2>1, IdleStack DEF Base
  <2> QED
    BY <1>1, <1>3, <2>1, <2>2, CalmBegun
<1>5. ASSUME NEW parts \in FileAnswers,
             stack' = [stack EXCEPT ![Loop] =
                         [i \in DOMAIN parts |-> AsyncWriteOf([req |-> r, part |-> parts[i]])]]
      PROVE  StreamInv'
  <2>1. PICK calls : calls = [i \in DOMAIN parts |-> AsyncWriteOf([req |-> r, part |-> parts[i]])]
    OBVIOUS
  <2>2. /\ calls \in Seq(Calls) /\ Names(calls) = {"asyncWrite"} /\ HeadComes(calls)
        /\ \A a, b : Writes(calls, a) /\ Writes(calls, b) =>
              a.req = r /\ (a.part = "whole" <=> b.part = "whole")
    BY <2>1, FileWrites
  <2>3. stack' = [stack EXCEPT ![Loop] = calls]
    BY <1>5, <2>1
  <2>4. /\ TopInv' /\ SameCarriers /\ (Flusher => Flusher')
        /\ stack'[Loop] = calls
        /\ \A q \in Reqs : stack'[q] = stack[q]
        /\ \A q : ~OnReading(q)'
        /\ \A q \in Reqs : Due(q)' => Due(q)
        /\ \A a : Unmade(a)' <=> Unmade(a) \/ Writes(calls, a)
        /\ \A a : Kept(a)' <=> Kept(a) \/ Writes(calls, a)
    BY <1>1, <2>2, <2>3, BegunNews DEF StreamInv, GeneralInv
  <2>5. GeneralInv'
    <3>1. PartsInv'
      BY <1>2, <2>2, <2>4, AnswerParts DEF StreamInv, GeneralInv
    <3> QED
      BY <1>1, <1>2, <2>4, <3>1 DEF StreamInv, GeneralInv, BeginInv, RetriesInv
  <2>6. ASSUME Serial
        PROVE  SerialInv'
    <3>1. SerialInv /\ LastInv
      BY <2>6 DEF StreamInv, SerialInv
    <3>2. r = sent
      BY <1>2, <3>1 DEF LastInv, InHand
    <3>3. LastInv'
      <4> SUFFICES ASSUME NEW q \in Reqs, InHand(q)'
                   PROVE  q = sent
        BY <1>1 DEF LastInv
      <4>1. InHand(q) \/ \E a : Writes(calls, a) /\ a.req = q
        BY <1>3, <2>4 DEF InHand
      <4> QED
        BY <2>2, <3>1, <3>2, <4>1 DEF LastInv
    <3>4. InOrder(made)' /\ FlowInv'
      BY <1>1, <1>3, <2>4, <3>1 DEF SerialInv, InOrder, FlowInv, SameCarriers
    <3>5. HeadInv'
      BY <1>1, <1>3, <2>2, <2>4, <3>1, HeadsBegun DEF SerialInv
    <3>6. \A q \in Reqs : stack'[q] = <<>>
      BY <1>2, <2>4, <3>1, <3>2 DEF LastInv, InHand
    <3>7. PieceInv'
      BY <3>6 DEF PieceInv
    <3>8. \A q \in Reqs : ~InBio(q)' /\ ~OnReading(q)'
      BY <1>2, <1>3, <2>4, <3>1, Apart
    <3>9. FlushedInv'
      BY <1>1, <1>3, <2>4, <3>1, <3>8 DEF SerialInv, FlushedInv, Incoming
    <3> QED
      BY <3>3, <3>4, <3>5, <3>7, <3>9 DEF SerialInv
  <2> QED
    BY <1>1, <2>5, <2>6 DEF StreamInv, Serial
<1> QED
  BY <1>4, <1>5 DEF AsyncEvent

LEMMA EventStream ==
    ASSUME Base, StreamInv, Event
    PROVE  StreamInv'
BY SocketEventStream, CloseCallStream, DataStream, AsyncStream DEF Event
------------------------------------------------------------------------------
(* onSocketData, onRead and the workers *)

\* OpenSSL speaks for the last time, or does not speak.
LEMMA EndRead ==
    ASSUME Base, StreamInv, SslRead, Goes(Loop, <<Call("close")>>), ssl' \notin {"handshake", "ready"},
           \/ made' = made
           \/ \E record \in OutRecords : record.req = 0 /\ made' = Append(made, record),
           readBio' = readBio \/ (readBio # <<>> /\ readBio' = Tail(readBio))
    PROVE  StreamInv'
<1>1. /\ stack[Loop] # <<>> /\ Head(stack[Loop]).call = "read"
      /\ UNCHANGED <<pending, fetched, retries>>
  BY DEF SslRead, At
<1>2. PICK calls \in Seq(Calls) : calls = <<Call("close")>> /\ Names(calls) = {"close"} /\ Goes(Loop, calls)
  BY Pushed
<1>3. \A a : In(made', a) => Kept(a) \/ a.req = 0
  <2>1. made \in Seq(OutRecords)
    BY DEF Base, IInv, TypeOK
  <2>2. \A a : In(made', a) => In(made, a) \/ a.req = 0
    <3>1. ASSUME NEW record \in OutRecords, record.req = 0, made' = Append(made, record)
          PROVE  \A a : In(made', a) => In(made, a) \/ a.req = 0
      <4>1. \A a : In(made', a) <=> In(made, a) \/ a = record
        BY ONLY <2>1, <3>1, record \in OutRecords, InAppend
      <4> QED
        BY <3>1, <4>1
    <3> QED
      BY <3>1
  <2> QED
    BY <2>2 DEF Kept
<1>4. \A r \in Reqs : InBio(r)' => InBio(r)
  BY ReadFacts DEF InBio, Base
<1> QED
  BY <1>1, <1>2, <1>3, <1>4, ThreadFacts, EndStream

\* SSL_read wants more: what OpenSSL has made is flushed.
LEMMA WantsMore ==
    ASSUME Base, StreamInv, SslRead, readBio = <<>>, Goes(Loop, FlushCalls),
           UNCHANGED <<ssl, readBio, made, writeBio>>
    PROVE  StreamInv'
<1>1. /\ stack[Loop] # <<>> /\ Head(stack[Loop]).call = "read" /\ (Closing' <=> Closing)
      /\ UNCHANGED <<sock, pending, fetched, sent, wire, retries, overlapped>>
  BY DEF SslRead, At, Closing
<1>2. PICK calls \in Seq(Calls) :
         calls = FlushCalls /\ Names(calls) = {"flushSslBuffer", "retry"} /\ Goes(Loop, calls)
  BY Pushed
<1>3. TopInv' /\ PartsInv' /\ SameCarriers /\ NoNews
  <2>1. \A a : In(pending', a) => Unmade(a)
    BY <1>1 DEF Unmade
  <2>2. \A a : In(made', a) => Kept(a)
    BY DEF Kept
  <2>3. \A r \in Reqs : InBio(r)' => InBio(r)
    BY DEF InBio
  <2> QED
    BY <1>1, <1>2, <2>1, <2>2, <2>3, ThreadFacts, GeneralQuiet DEF StreamInv
<1>4. BeginInv' /\ RetriesInv'
  BY <1>1, <1>3, ThreadFacts
     DEF StreamInv, GeneralInv, BeginInv, RetriesInv, SameCarriers, Carries
<1>5. ASSUME Serial
      PROVE  SerialInv'
  <2>1. SerialInv
    BY <1>5 DEF StreamInv
  <2>2. LastInv' /\ InOrder(made)' /\ FlowInv' /\ PieceInv'
    BY <1>1, <1>3, <2>1, CalmKeeps
  <2>3. \A r \in Reqs : ~InBio(r) /\ ~OnReading(r)
    <3>1. \A r \in Reqs : ~InBio(r)
      BY DEF InBio
    <3>2. \A r : OnReadOf(r).call = "onRead"
      BY DEF OnReadOf
    <3>3. \A r : ~In(stack[Loop], OnReadOf(r))
      <4>1. \A r : OnReadOf(r) # Head(stack[Loop])
        BY <1>1, <3>2
      <4>2. \A r : In(stack[Loop], OnReadOf(r)) <=> OnReadOf(r) = Head(stack[Loop])
        BY <1>1, <1>2, LoopQuiet DEF Base
      <4> QED
        BY <4>1, <4>2
    <3> QED
      BY <3>1, <3>3 DEF OnReading
  <2>4. On(Loop, "flushSslBuffer")'
    BY <1>1, <1>2, ThreadFacts, GoesOn DEF Base, IInv
  <2>5. FlushedInv'
    BY <1>3, <2>3, <2>4, ThreadFacts DEF FlushedInv, Incoming, NoNews, Flusher
  <2>6. HeadInv'
    <3> SUFFICES ASSUME retries = 0
                 PROVE  HeadsFirst(made') /\ (~Closing => \A u \in Threads : HeadComes(stack[u])')
      BY <1>1 DEF HeadInv
    <3>1. HeadsFirst(made)
      BY <2>1 DEF SerialInv, HeadInv
    <3>2. ASSUME ~Closing
          PROVE  \A u \in Threads : HeadComes(stack[u])'
      <4>1. \A u \in Threads : HeadComes(stack[u])
        BY <2>1, <3>2 DEF SerialInv, HeadInv
      <4>2. \A i \in 1 .. Len(calls) : \A r \in Reqs : calls[i] # AsyncWriteOf(Part(r, "body"))
        BY <1>2, NoBodies
      <4>3. \A a : Head(stack[Loop]) # AsyncWriteOf(a)
        BY <1>1, OtherHead
      <4>4. TypeOK /\ \A x : In(made, x) => In(made', x)
        BY DEF Base, IInv
      <4> QED
        BY <1>1, <1>2, <4>1, <4>2, <4>3, <4>4, ThreadFacts, HeadsGo
    <3> QED
      BY <3>1, <3>2
  <2> QED
    BY <2>2, <2>5, <2>6 DEF SerialInv
<1> QED
  BY <1>1, <1>3, <1>4, <1>5 DEF StreamInv, GeneralInv, Serial

\* The end of the handshake: the first that is said.
LEMMA HelloStream ==
    ASSUME Base, StreamInv, SslRead, readBio # <<>>, Head(readBio).kind = "hello",
           readBio' = Tail(readBio), Make(Control("hello")), ssl' = "ready", stack' = stack
    PROVE  StreamInv'
<1>1. /\ stack[Loop] # <<>> /\ Head(stack[Loop]).call = "read" /\ (Closing' <=> Closing)
      /\ UNCHANGED <<sock, pending, fetched, sent, wire, retries, overlapped>>
  BY DEF SslRead, At, Closing
<1>2. PICK e \in OutRecords : e = Control("hello") /\ e.req = 0 /\ e.part = "hello"
  BY RecordTypes DEF Control
<1>3. ssl = "handshake"
  BY ReadFacts DEF Base, IInv, HandshakeInv
<1>4. /\ made = <<>> /\ wire = <<>> /\ writeBio = <<>> /\ ~On(Loop, "socketWrite")
      /\ ~overlapped => sent = 0
      /\ fetched = {} /\ pending = <<>> /\ \A r \in Reqs : stack[r] = <<>>
      /\ ~On(Loop, "asyncWrite") /\ ~On(Loop, "onRead") /\ stack[Loop] = <<Call("read")>>
  BY <1>3 DEF StreamInv, GeneralInv, BeginInv, Base, IInv, HandshakeInv
<1>5. made' = <<e>> /\ writeBio' = <<e>>
  BY <1>2, <1>4 DEF Make
<1>6. \A t \in Threads : t = Loop \/ t \in Reqs
  BY DEF Threads
<1>7. /\ \A r \in Reqs : Len(stack[r]) = 0
      /\ \A t \in Threads : ~Carries(t)
      /\ \A t \in Threads : \A a : ~Writes(stack[t], a)
  <2>1. \A r \in Reqs : Len(stack[r]) = 0
    BY <1>4
  <2> QED
    BY <1>4, <1>6, <2>1 DEF Carries, On, Writes
<1>8. \A a : ~Unmade(a)
  BY <1>4, <1>7, EmptyHasNone DEF Unmade
<1>9. TopInv' /\ SameCarriers
  BY SameStacks DEF StreamInv, GeneralInv
<1>10. \A a : Unmade(a)' => Unmade(a)
  BY <1>1 DEF Unmade
<1>11. \A a : Kept(a)' => a.req = 0
  <2>1. \A a : In(made', a) <=> a = e
    BY <1>5 DEF In
  <2> QED
    BY <1>2, <1>8, <1>10, <2>1 DEF Kept, Unmade
<1>12. PartsInv'
  BY <1>11 DEF PartsInv
<1>13. BeginInv' /\ RetriesInv'
  BY <1>1 DEF BeginInv, RetriesInv, StreamInv, GeneralInv
<1>14. ASSUME ~overlapped
       PROVE  SerialInv'
  <2>1. \A r \in Reqs : ~InBio(r)
    <3>1. ASSUME NEW r \in Reqs, NEW i \in 1 .. Len(readBio), readBio[i].req = r
          PROVE  FALSE
      <4>1. readBio[i] \in InRecords /\ r \in Nat /\ r # 0
        BY MaxRequestsAssumption DEF Base, IInv, TypeOK, Reqs
      <4>2. IsApp(i)
        BY <3>1, <4>1, RecordKinds DEF IsApp
      <4>3. r <= 0
        BY <1>4, <1>14, <3>1, <4>2 DEF Base, IInv, CountInv
      <4> QED
        BY <4>1, <4>3
    <3> QED
      BY <3>1 DEF InBio
  <2>2. \A r \in Reqs : ~InBio(r)' /\ ~OnReading(r)' /\ ~Due(r)'
    <3>1. \A r \in Reqs : InBio(r)' => InBio(r)
      BY ReadFacts DEF InBio, Base
    <3>2. \A r : ~OnReading(r)
      BY <1>4 DEF OnReading, In, On, OnReadOf
    <3>3. \A r \in Reqs : ~Working(r)
      BY <1>7 DEF Working, On
    <3> QED
      BY <1>1, <1>4, <2>1, <3>1, <3>2, <3>3 DEF Due, OnReading, Working, On
  <2>3. LastInv'
    BY <1>4, <1>8, <1>10, <2>2 DEF LastInv, InHand
  <2>4. InOrder(made')
    BY <1>5 DEF InOrder
  <2>5. HeadInv'
    <3>1. HeadsFirst(made')
      BY <1>2, <1>5 DEF HeadsFirst
    <3>2. \A t \in Threads : \A i \in 1 .. Len(stack[t]) : \A a : stack[t][i] # AsyncWriteOf(a)
      <4>1. \A a : AsyncWriteOf(a).call = "asyncWrite" /\ AsyncWriteOf(a).answer = a
        BY DEF AsyncWriteOf
      <4> QED
        BY <1>7, <4>1 DEF Writes
    <3>3. \A t \in Threads : HeadComes(stack[t])'
      BY <3>2 DEF HeadComes
    <3> QED
      BY <3>1, <3>3 DEF HeadInv
  <2>6. FlowInv'
    <3>1. <<e>> \in Seq(OutRecords)
      BY <1>2, Singles
    <3>2. made' = wire' \o writeBio' /\ writeBio' \in Seq(OutRecords)
      BY <1>1, <1>4, <1>5, <3>1, Joined
    <3>3. \A t \in Threads : ~Carries(t)'
      BY <1>7, <1>9 DEF SameCarriers
    <3> QED
      BY <3>2, <3>3 DEF FlowInv
  <2>7. PieceInv'
    BY <1>4 DEF PieceInv
  <2>8. FlushedInv'
    <3>1. On(Loop, "read")'
      BY <1>4 DEF On, Call
    <3> QED
      BY <2>2, <3>1 DEF FlushedInv, Incoming, Flusher
  <2> QED
    BY <2>3, <2>4, <2>5, <2>6, <2>7, <2>8 DEF SerialInv
<1> QED
  BY <1>1, <1>9, <1>12, <1>13, <1>14 DEF StreamInv, GeneralInv, Serial

\* A request goes from the BIO to onRead.
LEMMA AppStream ==
    ASSUME Base, StreamInv, SslRead, Readable, readBio # <<>>, Head(readBio).kind = "app",
           readBio' = Tail(readBio), UNCHANGED <<ssl, made, writeBio>>,
           Goes(Loop, <<OnReadOf(Head(readBio).req), Call("read")>>)
    PROVE  StreamInv'
<1>1. /\ stack[Loop] # <<>> /\ Head(stack[Loop]).call = "read" /\ (Closing' <=> Closing)
      /\ UNCHANGED <<sock, pending, fetched, sent, wire, retries, overlapped>>
  BY DEF SslRead, At, Closing
<1>2. PICK r \in Reqs : r = Head(readBio).req
  BY ReadFacts, RecordKinds DEF Base
<1>3. PICK calls \in Seq(Calls) :
         calls = <<OnReadOf(r), Call("read")>> /\ Names(calls) = {"onRead", "read"} /\ Goes(Loop, calls)
  BY <1>2, Pushed
<1>4. /\ \A t \in Threads : \A a : Writes(stack'[t], a) <=> Writes(stack[t], a)
      /\ \A q \in Reqs : stack'[q] = stack[q]
      /\ \A q : In(stack'[Loop], OnReadOf(q)) <=> In(calls, OnReadOf(q))
  BY <1>1, <1>3, LoopQuiet DEF Base
<1>5. InBio(r)
  BY <1>2, ReadFacts DEF InBio, Base
<1>6. \A q \in Reqs : InBio(q)' => InBio(q) /\ q # r
  <2> SUFFICES ASSUME NEW q \in Reqs, NEW i \in 1 .. Len(readBio'), readBio'[i].req = q
               PROVE  InBio(q) /\ q # r
    BY DEF InBio
  <2>1. i + 1 \in 1 .. Len(readBio) /\ i + 1 > 1 /\ readBio[i + 1].req = q /\ 1 \in 1 .. Len(readBio)
        /\ readBio[1].req = r /\ readBio[1].kind = "app"
    BY <1>2, ReadFacts DEF Base
  <2>2. PICK j \in 1 .. Len(readBio) : j = i + 1
    BY <2>1
  <2>3. readBio[j] \in InRecords /\ q \in Nat /\ q # 0 /\ r \in Nat
    BY MaxRequestsAssumption DEF Base, IInv, TypeOK, Reqs
  <2>4. IsApp(1) /\ IsApp(j)
    BY <2>1, <2>2, <2>3, RecordKinds DEF IsApp
  <2>5. r < q
    BY <2>1, <2>2, <2>4 DEF Base, IInv, CountInv
  <2> QED
    BY <2>1, <2>3, <2>5 DEF InBio
<1>7. \A a : (Unmade(a)' <=> Unmade(a)) /\ (Kept(a)' <=> Kept(a))
  BY <1>1, <1>4 DEF Unmade, Kept
<1>8. \A q \in Reqs : Due(q)' => Due(q) \/ q = r
  <2>1. \A q \in Reqs : OnReading(q)' => q = r
    <3>1. \A q : OnReadOf(q).call = "onRead" /\ OnReadOf(q).req = q /\ Call("read").call = "read"
      BY DEF OnReadOf, Call
    <3>2. \A q : In(calls, OnReadOf(q)) => OnReadOf(q) = OnReadOf(r) \/ OnReadOf(q) = Call("read")
      BY <1>3 DEF In
    <3> QED
      BY <1>4, <3>1, <3>2 DEF OnReading
  <2> QED
    BY <1>1, <1>4, <2>1 DEF Due, Working, On
<1>9. TopInv' /\ SameCarriers
  BY <1>1, <1>3, ThreadFacts, PlainGoes DEF Base, IInv, StreamInv, GeneralInv
<1>10. GeneralInv'
  BY <1>1, <1>7, <1>9, ThreadFacts
     DEF StreamInv, GeneralInv, BeginInv, PartsInv, RetriesInv, SameCarriers, Carries
<1>11. ASSUME Serial
       PROVE  SerialInv'
  <2>1. SerialInv /\ LastInv
    BY <1>11 DEF StreamInv, SerialInv
  <2>2. r = sent
    BY <1>5, <2>1 DEF LastInv, InHand
  <2>3. LastInv'
    BY <1>1, <1>4, <1>6, <1>7, <1>8, <2>1, <2>2 DEF LastInv, InHand
  <2>4. InOrder(made)' /\ FlowInv'
    BY <1>1, <1>9, <2>1 DEF SerialInv, InOrder, FlowInv, SameCarriers
  <2>5. HeadInv'
    <3> SUFFICES ASSUME retries = 0
                 PROVE  HeadsFirst(made') /\ (~Closing => \A u \in Threads : HeadComes(stack[u])')
      BY <1>1 DEF HeadInv
    <3>1. HeadsFirst(made)
      BY <2>1 DEF SerialInv, HeadInv
    <3>2. ASSUME ~Closing
          PROVE  \A u \in Threads : HeadComes(stack[u])'
      <4>1. \A u \in Threads : HeadComes(stack[u])
        BY <2>1, <3>2 DEF SerialInv, HeadInv
      <4>2. \A i \in 1 .. Len(calls) : \A q \in Reqs : calls[i] # AsyncWriteOf(Part(q, "body"))
        BY <1>3, NoBodies
      <4>3. \A a : Head(stack[Loop]) # AsyncWriteOf(a)
        BY <1>1, OtherHead
      <4>4. TypeOK /\ \A x : In(made, x) => In(made', x)
        BY DEF Base, IInv
      <4> QED
        BY <1>1, <1>3, <4>1, <4>2, <4>3, <4>4, ThreadFacts, HeadsGo
    <3> QED
      BY <3>1, <3>2
  <2>6. PieceInv'
    BY <1>4, <1>5, <2>1, Apart DEF PieceInv
  <2>7. FlushedInv'
    <3>1. \A q \in Reqs : ~InBio(q)'
      BY <1>6, <2>1, <2>2 DEF LastInv, InHand
    <3>2. ~Closing => writeBio = <<>>
      BY <1>5, <2>1 DEF SerialInv, FlushedInv, Incoming
    <3> QED
      BY <1>1, <3>1, <3>2 DEF FlushedInv
  <2> QED
    BY <2>3, <2>4, <2>5, <2>6, <2>7 DEF SerialInv
<1> QED
  BY <1>1, <1>10, <1>11 DEF StreamInv, Serial

LEMMA SslReadStream ==
    ASSUME Base, StreamInv, SslRead
    PROVE  StreamInv'
<1>1. CASE ~Readable /\ Goes(Loop, <<Call("close")>>) /\ UNCHANGED <<ssl, readBio, made, writeBio>>
  BY <1>1, EndRead DEF Readable
<1>2. CASE Readable /\ readBio = <<>> /\ Goes(Loop, FlushCalls)
           /\ UNCHANGED <<ssl, readBio, made, writeBio>>
  BY <1>2, WantsMore
<1>3. CASE Readable /\ readBio # <<>> /\ readBio' = Tail(readBio)
  <2>1. CASE Head(readBio).kind = "hello" /\ ssl' = "ready" /\ Make(Control("hello")) /\ UNCHANGED stack
    BY <1>3, <2>1, HelloStream
  <2>2. CASE /\ Head(readBio).kind = "app" /\ UNCHANGED <<ssl, made, writeBio>>
             /\ Goes(Loop, <<OnReadOf(Head(readBio).req), Call("read")>>)
    BY <1>3, <2>2, AppStream
  <2>3. CASE /\ ssl' = (IF ssl = "shutdown" THEN "over" ELSE "notified")
             /\ Goes(Loop, <<Call("close")>>) /\ UNCHANGED <<made, writeBio>>
    BY <1>3, <2>3, EndRead
  <2>4. CASE ssl' = "failed" /\ Make(Control("alert")) /\ Goes(Loop, <<Call("close")>>)
    <3>1. Control("alert") \in OutRecords /\ Control("alert").req = 0
      BY RecordTypes DEF Control
    <3>2. made' = Append(made, Control("alert")) /\ ssl' \notin {"handshake", "ready"}
      BY <2>4 DEF Make
    <3> QED
      BY <1>3, <2>4, <3>1, <3>2, EndRead
  <2> QED
    BY <1>3, <2>1, <2>2, <2>3, <2>4 DEF SslRead
<1> QED
  BY <1>1, <1>2, <1>3 DEF SslRead

\* An answer in one piece is handed to asyncWrite, by onRead or by a worker.
LEMMA AnswerStream ==
    ASSUME Base, StreamInv, NEW t \in Threads, stack[t] # <<>>,
           Head(stack[t]).call \in {"onRead", "respond"}, NEW r \in Reqs, Due(r), ~Closing,
           NEW calls \in Seq(Calls), Goes(t, calls), Names(calls) \subseteq {"asyncWrite", "count"},
           \A a : Writes(calls, a) <=> a = Part(r, "whole"), ssl # "handshake",
           UNCHANGED <<sock, ssl, readBio, writeBio, pending, fetched, sent, made, wire,
                       retries, overlapped>>
    PROVE  StreamInv'
<1>1. TypeOK /\ TopInv /\ PartsInv
  BY DEF Base, IInv, StreamInv, GeneralInv
<1>2. /\ \A u \in Threads \ {t} : stack'[u] = stack[u]
      /\ \A name : On(t, name)' <=> name \in Names(calls) \/ Below(t, name)
      /\ \A name : On(t, name) <=> name = Head(stack[t]).call \/ Below(t, name)
      /\ \A u \in Threads \ {t} : \A name : On(u, name)' <=> On(u, name)
  BY <1>1, GoesOn
<1>3. /\ \A a : Writes(stack'[t], a) => Writes(calls, a) \/ Writes(stack[t], a)
      /\ \A c : In(stack'[t], c) => In(calls, c) \/ In(stack[t], c)
  <2>1. PICK rest \in Seq(Calls) :
           /\ \A c : In(stack'[t], c) <=> In(calls, c) \/ In(rest, c)
           /\ \A c : In(stack[t], c) <=> c = Head(stack[t]) \/ In(rest, c)
           /\ \A a : Writes(stack'[t], a) <=> Writes(calls, a) \/ Writes(rest, a)
           /\ \A a : Writes(stack[t], a) <=>
                 \/ Head(stack[t]).call = "asyncWrite" /\ Head(stack[t]).answer = a
                 \/ Writes(rest, a)
    BY <1>1, Flow, ZenonT(60)
  <2> QED
    BY <2>1
<1>4. TopInv' /\ SameCarriers
  BY <1>1, PlainGoes
<1>5. /\ \A a : Unmade(a)' => Unmade(a) \/ a = Part(r, "whole")
      /\ \A a : Kept(a)' => Kept(a) \/ a = Part(r, "whole")
  BY <1>2, <1>3 DEF Unmade, Kept
<1>6. \A q \in Reqs : OnReading(q)' => OnReading(q)
  <2>1. \A q : ~In(calls, OnReadOf(q))
    BY NamesSay
  <2> QED
    BY <1>2, <1>3, <2>1, ThreadFacts DEF OnReading
<1>7. \A q \in Reqs : (Due(q)' => Due(q)) /\ (InBio(q)' <=> InBio(q))
  BY <1>2, <1>6, ThreadFacts DEF Due, Working, InBio
<1>8. \A q \in Reqs : stack'[q] # <<>> => stack[q] # <<>>
  BY <1>2, ThreadFacts
<1>9. PartsInv'
  <2>1. /\ \A a : Kept(a)' => Kept(a) \/ Writes(calls, a)
        /\ \A a, b : Writes(calls, a) /\ Writes(calls, b) =>
              a.req = r /\ (a.part = "whole" <=> b.part = "whole")
    BY <1>5, PartFacts
  <2> QED
    BY <1>1, <2>1, AnswerParts
<1>10. BeginInv' /\ RetriesInv' /\ ~Closing'
  BY DEF StreamInv, GeneralInv, BeginInv, RetriesInv, Closing
<1>11. ASSUME Serial
       PROVE  SerialInv'
  <2>1. SerialInv /\ LastInv
    BY <1>11 DEF StreamInv, SerialInv
  <2>2. r = sent
    BY <2>1 DEF LastInv, InHand
  <2>3. LastInv'
    <3> SUFFICES ASSUME NEW q \in Reqs, InHand(q)'
                 PROVE  q = sent
      BY DEF LastInv
    <3>1. InHand(q) \/ q = r
      BY <1>5, <1>7, <1>8, PartFacts DEF InHand
    <3> QED
      BY <2>1, <2>2, <3>1 DEF LastInv
  <2>4. InOrder(made)' /\ FlowInv'
    BY <1>4, <1>10, <2>1 DEF SerialInv, InOrder, FlowInv, SameCarriers
  <2>5. HeadInv'
    <3> SUFFICES ASSUME retries = 0
                 PROVE  HeadsFirst(made') /\ \A u \in Threads : HeadComes(stack[u])'
      BY DEF HeadInv
    <3>1. HeadsFirst(made) /\ \A u \in Threads : HeadComes(stack[u])
      BY <2>1 DEF SerialInv, HeadInv
    <3>2. \A i \in 1 .. Len(calls) : \A q \in Reqs : calls[i] # AsyncWriteOf(Part(q, "body"))
      <4>1. \A a : AsyncWriteOf(a).call = "asyncWrite" /\ AsyncWriteOf(a).answer = a
        BY DEF AsyncWriteOf
      <4>2. \A q : ~Writes(calls, Part(q, "body"))
        BY PartFacts
      <4> QED
        BY <4>1, <4>2 DEF Writes
    <3>3. \A a : Head(stack[t]) # AsyncWriteOf(a)
      BY OtherHead
    <3>4. \A x : In(made, x) => In(made', x)
      OBVIOUS
    <3> QED
      BY <1>1, <3>1, <3>2, <3>3, <3>4, HeadsGo
  <2>6. PieceInv'
    <3> SUFFICES ASSUME NEW q \in Reqs, stack'[q] # <<>>
                 PROVE  (\A a : Kept(a)' /\ a.req = q => a.part = "whole") /\ Clear'
      BY DEF PieceInv, Clear
    <3>1. stack[q] # <<>> /\ q = r
      BY <1>8, <2>1, <2>2 DEF LastInv, InHand
    <3>2. (\A a : Kept(a) /\ a.req = q => a.part = "whole") /\ Clear
      BY <2>1, <3>1 DEF SerialInv, PieceInv, ToWrite
    <3> QED
      BY <1>4, <1>5, <3>2, PartFacts DEF Clear, SameCarriers
  <2>7. FlushedInv'
    <3>1. \A q \in Reqs : ~InBio(q)'
      BY <1>7, <2>1, Apart
    <3>2. \A q \in Reqs : Incoming(q)' => writeBio' = <<>>
      BY <1>6, <1>7, <2>1 DEF SerialInv, FlushedInv, Incoming
    <3>3. Flusher => Flusher'
      <4>1. \A u \in Threads : \A name \in {"read", "flushSslBuffer"} : On(u, name) => On(u, name)'
        BY <1>2
      <4> QED
        BY <4>1, ThreadFacts DEF Flusher
    <3> QED
      BY <2>1, <3>1, <3>2, <3>3 DEF SerialInv, FlushedInv
  <2> QED
    BY <2>3, <2>4, <2>5, <2>6, <2>7 DEF SerialInv
<1> QED
  BY <1>4, <1>9, <1>10, <1>11 DEF StreamInv, GeneralInv, Serial

\* A worker starts: the BIO is empty, and nobody carries a chunk.
LEMMA WorkerStream ==
    ASSUME Base, StreamInv, OnRead, Active, NEW r \in Reqs, OnReadOf(r) = Head(stack[Loop]),
           stack' = [stack EXCEPT ![Loop] = <<Call("count")>> \o Tail(@),
                                  ![r] = <<Call("route"), Call("respond")>>],
           fetched' = fetched
    PROVE  StreamInv'
<1>1. /\ stack[Loop] # <<>> /\ Head(stack[Loop]).call = "onRead" /\ ~Closing /\ ~Closing'
      /\ UNCHANGED <<sock, ssl, readBio, writeBio, pending, sent, made, wire, retries, overlapped>>
  BY DEF OnRead, At, Active, Closing
<1>2. TypeOK /\ TopInv /\ PartsInv /\ ShapeInv
  BY DEF Base, IInv, StreamInv, GeneralInv
<1>3. PICK s \in Seq(Calls) : s = stack[Loop] /\ Len(s) = 2 /\ s[2].call = "read"
  BY <1>1, <1>2, LoopFacts, ThreadFacts DEF TypeOK
<1>4. PICK c \in Seq(Calls) : c = <<Call("count")>> /\ Names(c) = {"count"} /\ Len(c) = 1 /\ c[1].call = "count"
  <2>1. <<Call("count")>> \in Seq(Calls) /\ Names(<<Call("count")>>) = {"count"}
    BY Pushed
  <2> QED
    BY <2>1 DEF Call
<1>5. PICK n : n = c \o Tail(s)
  OBVIOUS
<1>6. n \in Seq(Calls) /\ Len(n) = 2 /\ n[1].call = "count" /\ n[2].call = "read"
  <2>1. /\ n \in Seq(Calls) /\ Len(n) = Len(c) + Len(s) - 1
        /\ \A i \in 1 .. Len(c) : n[i] = c[i]
        /\ \A i \in 2 .. Len(s) : n[Len(c) + i - 1] = s[i]
    <3>1. s # <<>>
      BY <1>1, <1>3
    <3> QED
      BY ONLY <3>1, <1>4, <1>5, s \in Seq(Calls), c \in Seq(Calls), Spliced
  <2>2. n[1] = c[1] /\ n[2] = s[2]
    <3>1. 1 \in 1 .. Len(c) /\ 2 \in 2 .. Len(s) /\ Len(c) + 2 - 1 = 2
      BY <1>3, <1>4
    <3> QED
      BY <2>1, <3>1
  <2> QED
    BY <1>3, <1>4, <2>1, <2>2
<1>7. PICK w \in Seq(Calls) : w = <<Call("route"), Call("respond")>> /\ Names(w) = {"route", "respond"}
  BY Pushed
<1>8. /\ stack'[Loop] = n /\ stack'[r] = w
      /\ \A u \in Threads \ {Loop, r} : stack'[u] = stack[u]
  <2>1. stack \in [Threads -> Seq(Calls)] /\ Loop \in Threads /\ r \in Threads /\ r # Loop
    BY <1>2, ThreadFacts DEF TypeOK
  <2> QED
    BY <1>3, <1>4, <1>5, <1>7, <2>1
<1>9. \A i \in 1 .. Len(n) : n[i].call \in {"count", "read"}
  <2>1. \A i \in 1 .. Len(n) : i = 1 \/ i = 2
    BY <1>6
  <2> QED
    BY <1>6, <2>1
<1>10. \A i \in 1 .. Len(w) : w[i].call \in {"route", "respond"}
  BY <1>7 DEF Names
<1>11. OnReading(r) /\ Due(r) /\ stack[r] = <<>> /\ ssl # "handshake"
  <2>1. s[1] = OnReadOf(r) /\ 1 \in 1 .. Len(s) /\ Head(s).call = "onRead"
    BY <1>1, <1>3
  <2>2. OnReading(r) /\ On(Loop, "onRead")
    BY <1>1, <1>3, <2>1 DEF OnReading, In, On
  <2> QED
    BY <2>2 DEF Due, Base, KeptInv, DueInv, IInv, HandshakeInv
<1>12. /\ \A a : ~Writes(n, a) /\ ~Writes(w, a)
       /\ \A q : ~In(n, OnReadOf(q))
  <2>1. \A q : OnReadOf(q).call = "onRead"
    BY DEF OnReadOf
  <2> QED
    BY <1>9, <1>10, <2>1 DEF Writes, In
<1>13. \A a : (Unmade(a)' => Unmade(a)) /\ (Kept(a)' => Kept(a))
  BY <1>1, <1>8, <1>12 DEF Unmade, Kept
<1>14. \A q \in Reqs : (Due(q)' => Due(q)) /\ ~OnReading(q)' /\ (InBio(q)' <=> InBio(q))
  <2>1. \A q \in Reqs : ~OnReading(q)' /\ (InBio(q)' <=> InBio(q))
    BY <1>1, <1>8, <1>12 DEF OnReading, InBio
  <2>2. \A q \in Reqs : q # r => (Working(q)' <=> Working(q))
    BY <1>8, ThreadFacts DEF Working, On
  <2> QED
    BY <1>11, <2>1, <2>2 DEF Due
<1>15. TopInv' /\ SameCarriers
  <2>1. ~Below(Loop, "socketWrite")' /\ ~Carries(Loop)'
    <3>1. \A i \in 2 .. Len(n) : i \in 1 .. Len(n)
      BY <1>6
    <3> QED
      BY <1>8, <1>9, <3>1 DEF Below, Carries, On
  <2>2. ~Below(r, "socketWrite")' /\ ~Carries(r)'
    <3>1. \A i \in 2 .. Len(w) : i \in 1 .. Len(w)
      BY <1>7
    <3> QED
      BY <1>8, <1>10, <3>1 DEF Below, Carries, On
  <2>3. ~Carries(Loop) /\ ~Carries(r)
    <3>1. Head(stack[Loop]).call # "socketWrite" /\ Loop \in Threads /\ r \in Threads
      BY <1>1, ThreadFacts
    <3> QED
      BY <1>2, <1>11, <3>1, CarriesTop
  <2>4. \A u \in Threads \ {Loop, r} : (Below(u, "socketWrite")' <=> Below(u, "socketWrite"))
                                       /\ (Carries(u)' <=> Carries(u))
    BY <1>8 DEF Below, Carries, On
  <2>5. TopInv'
    BY <1>2, <2>1, <2>2, <2>4 DEF TopInv
  <2> QED
    BY <1>8, <2>1, <2>2, <2>3, <2>4, <2>5 DEF SameCarriers
<1>16. GeneralInv'
  BY <1>1, <1>2, <1>11, <1>13, <1>15 DEF StreamInv, GeneralInv, BeginInv, PartsInv, RetriesInv
<1>17. ASSUME Serial
       PROVE  SerialInv'
  <2>1. SerialInv /\ LastInv
    BY <1>17 DEF StreamInv, SerialInv
  <2>2. r = sent
    BY <1>11, <2>1 DEF LastInv, InHand
  <2>3. /\ \A q \in Reqs : stack[q] = <<>> /\ ~InBio(q)
        /\ writeBio = <<>>
    BY <1>1, <1>11, <2>1, Apart DEF SerialInv, FlushedInv, Incoming
  <2>4. \A q \in Reqs : stack'[q] # <<>> => q = r
    BY <1>8, <2>3, ThreadFacts
  <2>5. LastInv'
    BY <1>1, <1>13, <1>14, <2>1, <2>2, <2>4 DEF LastInv, InHand
  <2>6. InOrder(made)' /\ FlowInv'
    BY <1>1, <1>15, <2>1 DEF SerialInv, InOrder, FlowInv, SameCarriers
  <2>7. Clear'
    <3>1. \A u \in Threads : ~Carries(u)
      <4>1. \A u \in Threads : u = Loop \/ stack[u] = <<>>
        BY <2>3 DEF Threads
      <4> QED
        BY <1>1, <1>2, <4>1, CarriesTop
    <3> QED
      BY <1>1, <1>15, <2>3, <3>1 DEF Clear, SameCarriers
  <2>8. PieceInv'
    <3>1. \A a : Kept(a)' => a.req # r
      BY <1>11, <1>13 DEF Base, KeptInv, DueInv
    <3> QED
      BY <2>4, <2>7, <3>1 DEF PieceInv, Clear
  <2>9. FlushedInv'
    BY <1>1, <1>14, <2>3 DEF FlushedInv, Incoming
  <2>10. HeadInv'
    <3> SUFFICES ASSUME retries = 0
                 PROVE  HeadsFirst(made') /\ \A u \in Threads : HeadComes(stack[u])'
      BY <1>1 DEF HeadInv
    <3>1. HeadsFirst(made) /\ \A u \in Threads : HeadComes(stack[u])
      BY <1>1, <2>1 DEF SerialInv, HeadInv
    <3>2. \A a : AsyncWriteOf(a).call = "asyncWrite"
      BY DEF AsyncWriteOf
    <3>3. /\ \A i \in 1 .. Len(n) : \A a : n[i] # AsyncWriteOf(a)
          /\ \A i \in 1 .. Len(w) : \A a : w[i] # AsyncWriteOf(a)
      <4>1. \A i \in 1 .. Len(n) : n[i].call # "asyncWrite"
        BY <1>9
      <4>2. \A i \in 1 .. Len(w) : w[i].call # "asyncWrite"
        BY <1>10
      <4> QED
        BY <3>2, <4>1, <4>2
    <3>4. ASSUME NEW u \in Threads
          PROVE  HeadComes(stack[u])'
      <4>1. CASE u = Loop
        BY ONLY <1>8, <3>3, <4>1 DEF HeadComes
      <4>2. CASE u = r
        BY ONLY <1>8, <3>3, <4>2 DEF HeadComes
      <4>3. CASE u \notin {Loop, r}
        <5>1. stack'[u] = stack[u] /\ HeadComes(stack[u]) /\ made' = made
          BY <1>1, <1>8, <3>1, <4>3
        <5> QED
          BY ONLY <5>1 DEF HeadComes, Comes
      <4> QED
        BY <4>1, <4>2, <4>3
    <3> QED
      BY <1>1, <3>1, <3>4
  <2> QED
    BY <2>1, <2>5, <2>6, <2>8, <2>9, <2>10 DEF SerialInv
<1> QED
  BY <1>1, <1>16, <1>17 DEF StreamInv, Serial

LEMMA OnReadStream ==
    ASSUME Base, StreamInv, OnRead
    PROVE  StreamInv'
<1>1. /\ stack[Loop] # <<>> /\ Head(stack[Loop]).call = "onRead" /\ (Closing' <=> Closing)
      /\ UNCHANGED <<sock, ssl, readBio, writeBio, pending, sent, made, wire, retries, overlapped>>
  BY DEF OnRead, At, Closing
<1>2. PICK r \in Reqs : r = Head(stack[Loop]).req
  BY <1>1, HeadCall, CallParts, ThreadFacts DEF Base, IInv
<1>3. Head(stack[Loop]) = OnReadOf(r)
  <2>1. Head(stack[Loop]) \in Calls
    BY <1>1, HeadCall, ThreadFacts DEF Base, IInv
  <2>2. \A c \in Calls : c.call = "onRead" => c = OnReadOf(c.req)
    BY DEF Calls, OnReadOf
  <2> QED
    BY <1>1, <1>2, <2>1, <2>2
<1>4. Due(r) /\ ssl # "handshake"
  <2>1. stack[Loop] \in Seq(Calls)
    BY <1>1, HeadCall, ThreadFacts DEF Base, IInv
  <2>2. 1 \in 1 .. Len(stack[Loop]) /\ stack[Loop][1] = Head(stack[Loop])
    BY <1>1, <2>1
  <2>3. OnReading(r) /\ On(Loop, "onRead")
    BY <1>1, <1>3, <2>2 DEF OnReading, In, On
  <2> QED
    BY <2>3 DEF Due, Base, IInv, HandshakeInv
<1>5. CASE stack' = stack /\ fetched' = fetched
  BY <1>1, <1>5, SameStream
<1>6. CASE Goes(Loop, <<Call("count")>>) /\ fetched' \subseteq fetched \cup {r}
  <2>1. PICK calls \in Seq(Calls) : calls = <<Call("count")>> /\ Names(calls) = {"count"} /\ Goes(Loop, calls)
    BY <1>6, Pushed
  <2>2. fetched' \subseteq fetched \cup {q \in Reqs : Due(q)}
    BY <1>4, <1>6
  <2>3. \A a : In(pending', a) => Unmade(a)
    BY <1>1 DEF Unmade
  <2> QED
    BY <1>1, <2>1, <2>2, <2>3, ThreadFacts, QuietStream
<1>7. CASE /\ Goes(Loop, <<AsyncWriteOf([req |-> r, part |-> "whole"]), Call("count")>>)
           /\ fetched' = fetched /\ Active
  <2>1. PICK a \in Answers : a = Part(r, "whole") /\ a = [req |-> r, part |-> "whole"]
    BY DEF Answers, Part
  <2>2. PICK calls \in Seq(Calls) :
           /\ calls = <<AsyncWriteOf(a), Call("count")>> /\ Names(calls) = {"asyncWrite", "count"}
           /\ \A b : Writes(calls, b) <=> b = a
    BY Pushed, OneWrite
  <2>3. Goes(Loop, calls)
    BY <1>7, <2>1, <2>2
  <2>4. ~Closing
    BY <1>7 DEF Active, Closing
  <2> QED
    BY <1>1, <1>4, <1>7, <2>1, <2>2, <2>3, <2>4, ThreadFacts, AnswerStream
<1>8. CASE /\ stack' = [stack EXCEPT ![Loop] = <<Call("count")>> \o Tail(@),
                                     ![r] = <<Call("route"), Call("respond")>>]
           /\ fetched' = fetched /\ Active
  BY <1>3, <1>8, WorkerStream
<1>9. fetched \subseteq fetched \cup {r}
  OBVIOUS
<1> QED
  BY <1>2, <1>5, <1>6, <1>7, <1>8, <1>9 DEF OnRead

LEMMA CountStream ==
    ASSUME Base, StreamInv, CountRequest
    PROVE  StreamInv'
<1>1. /\ stack[Loop] # <<>> /\ Head(stack[Loop]).call = "count"
      /\ UNCHANGED <<ssl, readBio, writeBio, pending, fetched, sent, made, wire, retries, overlapped>>
  BY DEF CountRequest, At
<1>2. Closing => Closing'
  BY DEF CountRequest, Closing
<1>3. PICK calls \in Seq(Calls) : calls = <<>> /\ Names(calls) = {} /\ Goes(Loop, calls)
  BY Pushed DEF CountRequest
<1>4. \A a : In(pending', a) => Unmade(a)
  BY <1>1 DEF Unmade
<1> QED
  BY <1>1, <1>2, <1>3, <1>4, ThreadFacts, QuietStream

LEMMA RouteStream ==
    ASSUME Base, StreamInv, NEW r \in Reqs, Route(r)
    PROVE  StreamInv'
<1>1. /\ stack[r] # <<>> /\ Head(stack[r]).call = "route"
      /\ UNCHANGED <<sock, ssl, readBio, writeBio, pending, fetched, sent, made, wire, retries, overlapped>>
  BY DEF Route, At
<1>2. PICK calls \in Seq(Calls) : calls = <<>> /\ Names(calls) = {} /\ Goes(r, calls)
  BY Pushed DEF Route
<1>3. (Closing => Closing') /\ \A a : In(pending', a) => Unmade(a)
  BY <1>1 DEF Unmade, Closing
<1> QED
  BY <1>1, <1>2, <1>3, ThreadFacts, QuietStream

LEMMA RespondStream ==
    ASSUME Base, StreamInv, NEW r \in Reqs, Respond(r)
    PROVE  StreamInv'
<1>1. /\ stack[r] # <<>> /\ Head(stack[r]).call = "respond"
      /\ UNCHANGED <<sock, ssl, readBio, writeBio, pending, fetched, sent, made, wire, retries, overlapped>>
  BY DEF Respond, At
<1>2. CASE Closing
  <2>1. PICK calls \in Seq(Calls) : calls = <<>> /\ Names(calls) = {} /\ Goes(r, calls)
    BY <1>2, Pushed DEF Respond
  <2>2. (Closing => Closing') /\ \A a : In(pending', a) => Unmade(a)
    BY <1>1 DEF Unmade, Closing
  <2> QED
    BY <1>1, <2>1, <2>2, ThreadFacts, QuietStream
<1>3. CASE ~Closing
  <2>1. PICK a \in Answers : a = Part(r, "whole") /\ a = [req |-> r, part |-> "whole"]
    BY DEF Answers, Part
  <2>2. PICK calls \in Seq(Calls) :
           /\ calls = <<AsyncWriteOf(a)>> /\ Names(calls) = {"asyncWrite"}
           /\ \A b : Writes(calls, b) <=> b = a
    BY Pushed, OneWrite
  <2>3. Goes(r, calls)
    BY <1>3, <2>1, <2>2 DEF Respond
  <2>4. Due(r) /\ ssl # "handshake"
    <3>1. stack[r] \in Seq(Calls)
      BY <1>1, HeadCall, ThreadFacts DEF Base, IInv
    <3>2. 1 \in 1 .. Len(stack[r]) /\ stack[r][1] = Head(stack[r])
      BY <1>1, <3>1
    <3> QED
      BY <1>1, <3>2 DEF Due, Working, On, Base, IInv, HandshakeInv
  <2> QED
    BY <1>1, <1>3, <2>1, <2>2, <2>3, <2>4, ThreadFacts, AnswerStream
<1> QED
  BY <1>2, <1>3
------------------------------------------------------------------------------
(* The theorem *)

LEMMA StartsStream ==
    ASSUME Init
    PROVE  StreamInv
<1>1. /\ \A t \in Threads : stack[t] = <<>> /\ Len(stack[t]) = 0
      /\ pending = <<>> /\ made = <<>> /\ wire = <<>> /\ writeBio = <<>> /\ readBio = <<>>
      /\ sent = 0 /\ fetched = {} /\ ssl = "handshake"
  BY DEF Init
<1>2. \A t \in Threads : \A name : ~On(t, name) /\ ~Below(t, name)
  <2>1. \A t \in Threads : \A i \in 2 .. Len(stack[t]) : FALSE
    BY <1>1
  <2> QED
    BY <1>1, <2>1 DEF On, Below
<1>3. \A a : ~Kept(a)
  BY <1>1, EmptyHasNone DEF Kept
<1> QED
  BY <1>1, <1>2, <1>3, ThreadFacts
     DEF StreamInv, GeneralInv, Serial, BeginInv, TopInv, PartsInv, RetriesInv

LEMMA NextStream ==
    ASSUME Base, Base', StreamInv, [Next]_vars
    PROVE  StreamInv'
<1>1. CASE UNCHANGED vars
  BY <1>1, SameStream DEF vars, Closing
<1>2. CASE Event
  BY <1>2, EventStream
<1>3. CASE LoopStep
  BY <1>3, StepStream, SslReadStream, OnReadStream, CountStream, ThreadFacts DEF LoopStep
<1>4. ASSUME NEW r \in Reqs, WorkerStep(r)
      PROVE  StreamInv'
  BY <1>4, StepStream, RouteStream, RespondStream, ThreadFacts DEF WorkerStep
<1> QED
  BY <1>1, <1>2, <1>3, <1>4 DEF Next

\* The inductive invariant behind RecordsStayInOrder: what is between OpenSSL and
\* the socket is in the order it was made.
THEOREM StreamIsKept == Spec => [](Base /\ StreamInv)
<1>1. Init => Base /\ StreamInv
  BY Starts, StartsKept, StartsStream DEF Base
<1>2. Base /\ StreamInv /\ [Next]_vars => (Base /\ StreamInv)'
  <2>1. Base /\ [Next]_vars => Base'
    BY NextKeeps, NextKept DEF Base
  <2> QED
    BY <2>1, NextStream
<1> QED
  BY <1>1, <1>2, PTL DEF Spec

\* As long as requests do not overlap and OpenSSL is not shutting down, the
\* socket has a prefix of what OpenSSL made, answers come in the order of the
\* requests and, if no write had to be retried, heads before bodies.
THEOREM RecordsStayInOrder == Spec => []StreamIntact
<1>1. Base /\ StreamInv => StreamIntact
  <2> SUFFICES ASSUME Base, StreamInv, Serial
               PROVE  /\ IsPrefix(wire, made)
                      /\ \A i, j \in DOMAIN made :
                            i < j /\ made[j].req # 0 => made[i].req <= made[j].req
                      /\ retries = 0 =>
                            \A j \in DOMAIN made : made[j].part = "body" =>
                                \E i \in 1 .. j - 1 : made[i] = [made[j] EXCEPT !.part = "head"]
    BY DEF StreamIntact, Serial
  <2>1. SerialInv
    BY DEF StreamInv
  <2>2. made \in Seq(OutRecords) /\ wire \in Seq(OutRecords) /\ DOMAIN made = 1 .. Len(made)
    BY DEF Base, IInv, TypeOK
  <2>3. IsPrefix(wire, made)
    <3>1. PICK rest \in Seq(OutRecords) : made = wire \o rest
      BY <2>1 DEF SerialInv, FlowInv
    <3>2. /\ Len(made) = Len(wire) + Len(rest) /\ Len(wire) \in Nat /\ Len(rest) \in Nat
          /\ \A i \in 1 .. Len(wire) : made[i] = wire[i]
      BY ONLY <2>2, <3>1, rest \in Seq(OutRecords)
    <3>3. SubSeq(wire, 1, Len(wire)) = SubSeq(made, 1, Len(wire))
      BY <2>2, <3>2
    <3> QED
      BY <3>2, <3>3 DEF IsPrefix
  <2>4. \A i, j \in DOMAIN made : i < j /\ made[j].req # 0 => made[i].req <= made[j].req
    BY <2>1, <2>2 DEF SerialInv, InOrder
  <2>5. ASSUME retries = 0, NEW j \in DOMAIN made, made[j].part = "body"
        PROVE  \E i \in 1 .. j - 1 : made[i] = [made[j] EXCEPT !.part = "head"]
    <3>1. PICK i \in 1 .. j - 1 : made[i] = Part(made[j].req, "head")
      BY <2>1, <2>2, <2>5 DEF SerialInv, HeadInv, HeadsFirst
    <3>2. PICK a \in OutRecords : a = made[j]
      BY <2>2
    <3>3. [a EXCEPT !.part = "head"] = Part(a.req, "head")
      BY DEF OutRecords, Answers, Control, Part
    <3> QED
      BY <3>1, <3>2, <3>3
  <2> QED
    BY <2>3, <2>4, <2>5
<1> QED
  BY <1>1, StreamIsKept, PTL

==============================================================================
