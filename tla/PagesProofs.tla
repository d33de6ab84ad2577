----------------------------- MODULE PagesProofs ------------------------------
(***************************************************************************)
(* Proofs about Pages, for any number of workers, any texts and any number *)
(* of writes, ticks and pages.                                             *)
(*                                                                         *)
(* The parameters of what follows: X, the files whose versions need not be *)
(* as new as they should; C, the cache; D, the disk; R, what was raced; p, *)
(* a page; s, a stack of calls; c, a call.                                 *)
(***************************************************************************)
EXTENDS Pages, SequenceTheorems, TLAPS

------------------------------------------------------------------------------
(***************************************************************************)
(* The invariant                                                           *)
(***************************************************************************)

\* A write of them was missed, or two workers generated them at once.
Exempt == {f \in Files : raced[f] \/ overlapped[f]}

Good(X, f, version, wanted) == version >= wanted \/ f \in X

\* Calls of generateCache that have a version of f and will store it.
Making(c, f) == c.call \in {"stamp", "store"} /\ c.file = f
VersionOf(c) == IF c.call = "store" THEN c.entry.version ELSE c.version
SeenOf(c) == IF c.call = "store" THEN c.entry.seen ELSE c.seen

Generates(c, f) == c.call \in {"check", "open", "stamp", "store"} /\ c.file = f

\* The call c, unless it fails, leaves in the cache a version of f that is at
\* least v.
Brings(X, c, f, v) ==
    \/ c.call \in {"check", "open"} /\ c.file = f
    \/ Making(c, f) /\ Good(X, f, VersionOf(c), v)

InCache(C, X, f, v) == f \in DOMAIN C /\ Good(X, f, C[f].version, v)

\* Call c, for page p, takes f from the cache, and it has to be v or newer.
Wants(p, c, f, v) ==
    \/ c.call = "root" /\ f = c.file /\ v = p.asked
    \/ c.call = "include" /\ f = Part /\ v = p.seen
    \/ /\ c.call \in {"stamp", "store"}
       /\ Reads(c.file, VersionOf(c)) > 0
       /\ f = Part /\ v = SeenOf(c)

\* Whatever a call takes from the cache is there, new enough, or is brought by a
\* call before it.
WantsMet(C, X, p, s) ==
    \A i \in 1 .. Len(s) : \A f \in Files, v \in 0 .. MaxWrites :
        Wants(p, s[i], f, v) =>
            InCache(C, X, f, v) \/ \E j \in 1 .. i - 1 : Brings(X, s[j], f, v)

\* The root of the page has not been taken.
Begun(s) == \E i \in 1 .. Len(s) : s[i].call \in {"lookup", "root"}

\* The stack of a worker: lookup is alone and root at the bottom; check and grow
\* are on top; what is rendered comes after the root; a file is not generated
\* while it is being generated, and only the part while another is.
Shape(s) ==
    /\ \A i \in 1 .. Len(s) :
          /\ s[i].call = "lookup" => Len(s) = 1
          /\ s[i].call = "root" => i = Len(s)
          /\ s[i].call \in {"check", "grow"} => i = 1
          /\ s[i].call = "include" => ~Begun(s)
    /\ \A i, j \in 1 .. Len(s) : \A f, g \in Files :
          j < i /\ Generates(s[j], f) /\ Making(s[i], g) => f = Part /\ g # Part

\* An entry is not stamped later than its file, and what looks up to date is.
Honest(D, R, f, e) ==
    /\ e.stamp <= D[f].time
    /\ D[f].time <= e.stamp => e.version = D[f].version \/ R[f]

Bounded(D, f, version, seen) == version <= D[f].version /\ seen <= D[Part].version

\* A check of a file that is not found older finds the version of the file.
CheckInv(D, X, C, c) ==
    /\ c.stamp <= D[c.file].time
    /\ c.file \in DOMAIN C
    /\ D[c.file].time <= c.stamp => Good(X, c.file, C[c.file].version, D[c.file].version)

\* What is being made is not newer than the file and not older than the entry
\* that it will replace.
MakingInv(D, X, C, c) ==
    /\ Bounded(D, c.file, VersionOf(c), SeenOf(c))
    /\ c.file \in DOMAIN C => Good(X, c.file, VersionOf(c), C[c.file].version)

CallInv(D, R, X, C, p, c) ==
    /\ c.call \in {"lookup", "check", "root"} => c.file = p.file
    /\ c.call = "check" => CheckInv(D, X, C, c)
    /\ c.call = "stamp" => c.version = D[c.file].version \/ R[c.file]
    /\ c.call = "store" => Honest(D, R, c.file, c.entry)
    /\ c.call \in {"stamp", "store"} => MakingInv(D, X, C, c)

StackInv(w) ==
    /\ Shape(calls[w])
    /\ calls[w] # <<>> => page[w].status = "rendering"
    /\ WantsMet(cachedTemplating, Exempt, page[w], calls[w])
    /\ \A i \in 1 .. Len(calls[w]) :
          CallInv(disk, raced, Exempt, cachedTemplating, page[w], calls[w][i])

\* Two workers generate a file at once only if that was recorded.
Makes(w, f) == \E i \in 1 .. Len(calls[w]) : Making(calls[w][i], f)

AloneInv ==
    \A f \in Files : ~overlapped[f] =>
        \A u, w \in Workers : Makes(u, f) /\ Makes(w, f) => u = w

EntryInv(D, R, X, C, f) ==
    /\ Honest(D, R, f, C[f])
    /\ Bounded(D, f, C[f].version, C[f].seen)
    /\ Reads(f, C[f].version) > 0 => InCache(C, X, Part, C[f].seen)

CacheInv ==
    \A f \in DOMAIN cachedTemplating : EntryInv(disk, raced, Exempt, cachedTemplating, f)

TimeInv == \A f \in Files : disk[f].time <= clock

\* Root and part, if any, of a page are new enough.
Fresh(X, p) ==
    /\ Good(X, p.file, p.root, p.asked)
    /\ p.part = 0 \/ Good(X, Part, p.part, p.seen)

\* What is known of a page: nothing until its root is taken.
PageInv(w) ==
    /\ page[w].asked <= disk[page[w].file].version
    /\ page[w].seen <= disk[Part].version
    /\ page[w].status \in {"rendering", "served"} =>
          IF Begun(calls[w]) THEN page[w].part = 0 ELSE Fresh(Exempt, page[w])

\* Who appends to routesFile is alone; what a page links to is there, or is
\* about to be; nothing is there twice.
Appending(w) ==
    /\ Head(calls[w]).before = routesFile
    /\ ~Found(Callee(w))
    /\ \A u \in Workers : At(u, "grow") => u = w

Linked(w) ==
    page[w].status \in {"rendering", "served"} =>
        \A f \in page[w].links : Found(f) \/ (At(w, "grow") /\ Callee(w) = f)

Distinct(s) == \A i, j \in DOMAIN s : s[i] = s[j] => i = j

RouteInv ==
    ~clashed =>
        /\ \A w \in Workers : At(w, "grow") => Appending(w)
        /\ \A w \in Workers : Linked(w)
        /\ Distinct(routesFile)

IInv ==
    /\ TypeOK
    /\ \A w \in Workers : StackInv(w)
    /\ AloneInv
    /\ CacheInv
    /\ TimeInv
    /\ \A w \in Workers : PageInv(w)
    /\ RouteInv

------------------------------------------------------------------------------
(* Calls and stacks                                                         *)

LEMMA Facts ==
    /\ Part \in Files /\ "page" \in Files
    /\ MaxWrites \in Nat \ {0} /\ MaxTime \in Nat \ {0} /\ MaxRenders \in Nat \ {0}
BY BoundsAssumption DEF Files, Part

LEMMA EntryParts ==
    ASSUME NEW e \in Entries
    PROVE  /\ e.version \in Versions /\ e.version \in Nat /\ e.version > 0
           /\ e.stamp \in 1 .. MaxTime /\ e.stamp \in Nat
           /\ e.seen \in 0 .. MaxWrites /\ e.seen \in Nat
BY BoundsAssumption DEF Entries, Versions

\* What a call carries.
LEMMA CallParts ==
    ASSUME NEW c \in Calls
    PROVE  /\ c.file \in Files
           /\ c.call = "check" => c.stamp \in 1 .. MaxTime
           /\ c.call = "stamp" => c.version \in Versions /\ c.seen \in 0 .. MaxWrites
           /\ c.call = "store" => c.entry \in Entries
           /\ c.call = "grow" => c.before \in Seq(Files)
           /\ c.call \in {"stamp", "store"} =>
                 /\ VersionOf(c) \in Versions /\ VersionOf(c) \in Nat
                 /\ SeenOf(c) \in 0 .. MaxWrites /\ SeenOf(c) \in Nat
<1>1. /\ c.file \in Files
      /\ c.call = "check" => c.stamp \in 1 .. MaxTime
      /\ c.call = "stamp" => c.version \in Versions /\ c.seen \in 0 .. MaxWrites
      /\ c.call = "store" => c.entry \in Entries
      /\ c.call = "grow" => c.before \in Seq(Files)
  BY DEF Calls
<1>2. Versions \subseteq Nat /\ 0 .. MaxWrites \subseteq Nat
  BY Facts DEF Versions
<1>3. c.call = "store" => c.entry.version \in Versions /\ c.entry.seen \in 0 .. MaxWrites
  BY <1>1, EntryParts
<1> QED
  BY <1>1, <1>2, <1>3 DEF VersionOf, SeenOf

LEMMA CallTypes ==
    /\ \A f \in Files : \A name \in {"lookup", "open", "root", "include", "link", "throw"} :
          Call(name, f) \in Calls /\ Call(name, f).call = name /\ Call(name, f).file = f
    /\ \A f \in Files : \A t \in 1 .. MaxTime :
          /\ Check(f, t) \in Calls
          /\ Check(f, t).call = "check" /\ Check(f, t).file = f /\ Check(f, t).stamp = t
    /\ \A f \in Files : \A v \in Versions : \A n \in 0 .. MaxWrites :
          /\ Stamp(f, v, n) \in Calls
          /\ Stamp(f, v, n).call = "stamp" /\ Stamp(f, v, n).file = f
          /\ Stamp(f, v, n).version = v /\ Stamp(f, v, n).seen = n
    /\ \A f \in Files : \A e \in Entries :
          /\ Store(f, e) \in Calls
          /\ Store(f, e).call = "store" /\ Store(f, e).file = f /\ Store(f, e).entry = e
    /\ \A f \in Files : \A s \in Seq(Files) :
          /\ Grow(f, s) \in Calls
          /\ Grow(f, s).call = "grow" /\ Grow(f, s).file = f /\ Grow(f, s).before = s
<1>1. \A f \in Files : \A name \in {"lookup", "open", "root", "include", "link", "throw"} :
         Call(name, f) \in Calls /\ Call(name, f).call = name /\ Call(name, f).file = f
  BY DEF Call, Calls
<1>2. \A f \in Files : \A t \in 1 .. MaxTime :
         /\ Check(f, t) \in Calls
         /\ Check(f, t).call = "check" /\ Check(f, t).file = f /\ Check(f, t).stamp = t
  BY DEF Check, Calls
<1>3. \A f \in Files : \A v \in Versions : \A n \in 0 .. MaxWrites :
         /\ Stamp(f, v, n) \in Calls
         /\ Stamp(f, v, n).call = "stamp" /\ Stamp(f, v, n).file = f
         /\ Stamp(f, v, n).version = v /\ Stamp(f, v, n).seen = n
  BY DEF Stamp, Calls
<1>4. \A f \in Files : \A e \in Entries :
         /\ Store(f, e) \in Calls
         /\ Store(f, e).call = "store" /\ Store(f, e).file = f /\ Store(f, e).entry = e
  BY DEF Store, Calls
<1>5. \A f \in Files : \A s \in Seq(Files) :
         /\ Grow(f, s) \in Calls
         /\ Grow(f, s).call = "grow" /\ Grow(f, s).file = f /\ Grow(f, s).before = s
  BY DEF Grow, Calls
<1> QED
  BY <1>1, <1>2, <1>3, <1>4, <1>5

\* What a sequence is once its head is replaced by `m`.
LEMMA Spliced ==
    ASSUME NEW S, NEW s \in Seq(S), s # <<>>, NEW m \in Seq(S), NEW n, n = m \o Tail(s)
    PROVE  /\ n \in Seq(S)
           /\ Len(n) = Len(m) + Len(s) - 1
           /\ Len(m) \in Nat /\ Len(s) \in Nat \ {0} /\ Len(n) \in Nat
           /\ \A i \in 1 .. Len(m) : i \in 1 .. Len(n) /\ n[i] = m[i]
           /\ \A i \in 2 .. Len(s) :
                 Len(m) + i - 1 \in 1 .. Len(n) /\ n[Len(m) + i - 1] = s[i]
           /\ \A i \in 1 .. Len(n) :
                 \/ i \in 1 .. Len(m) /\ n[i] = m[i]
                 \/ /\ i > Len(m)
                    /\ i - Len(m) + 1 \in 2 .. Len(s)
                    /\ n[i] = s[i - Len(m) + 1]
<1>1. /\ Tail(s) \in Seq(S) /\ Len(Tail(s)) = Len(s) - 1
      /\ \A i \in 1 .. Len(Tail(s)) : Tail(s)[i] = s[i + 1]
  BY HeadTailProperties
<1>2. Len(s) \in Nat \ {0} /\ Len(m) \in Nat
  BY EmptySeq, LenProperties
<1>3. /\ n \in Seq(S)
      /\ Len(n) = Len(m) + Len(Tail(s))
      /\ \A i \in 1 .. Len(m) + Len(Tail(s)) :
            n[i] = IF i <= Len(m) THEN m[i] ELSE Tail(s)[i - Len(m)]
  BY <1>1, ConcatProperties
<1>4. Len(n) = Len(m) + Len(s) - 1 /\ Len(n) \in Nat
  BY <1>1, <1>2, <1>3
<1>5. ASSUME NEW i \in 1 .. Len(m)
      PROVE  i \in 1 .. Len(n) /\ n[i] = m[i]
  <2>1. i \in 1 .. Len(m) + Len(Tail(s)) /\ i <= Len(m)
    BY <1>1, <1>2
  <2> QED
    BY <1>3, <2>1
<1>6. ASSUME NEW i \in 2 .. Len(s)
      PROVE  Len(m) + i - 1 \in 1 .. Len(n) /\ n[Len(m) + i - 1] = s[i]
  <2>1. i - 1 \in 1 .. Len(Tail(s)) /\ Len(m) + i - 1 \in 1 .. Len(m) + Len(Tail(s))
    BY <1>1, <1>2
  <2>2. ~(Len(m) + i - 1 <= Len(m)) /\ (Len(m) + i - 1) - Len(m) = i - 1
    BY <1>2
  <2> QED
    BY <1>1, <1>3, <2>1, <2>2
<1>7. ASSUME NEW i \in 1 .. Len(n), ~(i \in 1 .. Len(m))
      PROVE  /\ i > Len(m)
             /\ i - Len(m) + 1 \in 2 .. Len(s)
             /\ n[i] = s[i - Len(m) + 1]
  <2>1. /\ i > Len(m) /\ i - Len(m) + 1 \in 2 .. Len(s)
        /\ Len(m) + (i - Len(m) + 1) - 1 = i
    BY <1>2, <1>4, <1>7
  <2> QED
    BY <1>6, <2>1
<1> QED
  BY <1>2, <1>3, <1>4, <1>5, <1>6, <1>7

\* The stack of one that is on top of nothing.
LEMMA Singles ==
    ASSUME NEW S, NEW a \in S
    PROVE  /\ <<a>> \in Seq(S) /\ Len(<<a>>) = 1 /\ <<a>>[1] = a
           /\ \A b \in S : <<a, b>> \in Seq(S) /\ Len(<<a, b>>) = 2
                              /\ <<a, b>>[1] = a /\ <<a, b>>[2] = b
OBVIOUS

------------------------------------------------------------------------------
(* What parsing and rendering call                                          *)

LEMMA TextFacts ==
    ASSUME NEW f \in Files, NEW v \in Versions
    PROVE  /\ TextOf(f, v) \in Templates
           /\ Reads(f, v) \in Nat
           /\ TextOf(f, v).effects \in Seq({"include", "link"})
           /\ Reads(f, v) = 0 => "include" \notin Range(TextOf(f, v).effects)
           /\ f = Part => Reads(f, v) = 0
<1> DEFINE k == ((v - 1) % Len(Text[f])) + 1
<1>1. Text[f] \in Seq(Templates) /\ Text[f] # <<>>
  BY TextAssumption
<1>2. Len(Text[f]) \in Nat \ {0} /\ DOMAIN Text[f] = 1 .. Len(Text[f])
  BY <1>1, EmptySeq, LenProperties
<1>3. v \in Nat /\ v >= 1
  BY Facts DEF Versions
<1>4. k \in 1 .. Len(Text[f])
  <2>1. (v - 1) \in Nat
    BY <1>3
  <2>2. (v - 1) % Len(Text[f]) \in 0 .. Len(Text[f]) - 1
    BY <1>2, <2>1
  <2> QED
    BY <1>2, <2>2
<1>5. TextOf(f, v) = Text[f][k] /\ Text[f][k] \in Templates
  BY <1>1, <1>4, ElementOfSeq DEF TextOf
<1>6. /\ Text[f][k].includes = 0 => "include" \notin Range(Text[f][k].effects)
      /\ f = Part => Text[f][k].includes = 0
  BY <1>2, <1>4, TextAssumption
<1>7. Text[f][k].includes \in Nat /\ Text[f][k].effects \in Seq({"include", "link"})
  BY <1>5 DEF Templates
<1> QED
  BY <1>5, <1>6, <1>7 DEF Reads

\* Parsing a file opens the part for each include, and ends with its stamp.
Generating(f, v, n) == ParseCalls(f, v) \o <<Stamp(f, v, n)>>

LEMMA Parsing ==
    ASSUME NEW f \in Files, NEW v \in Versions, NEW n \in 0 .. MaxWrites,
           NEW m, m = Generating(f, v, n)
    PROVE  /\ m \in Seq(Calls) /\ Len(m) \in Nat \ {0}
           /\ m[Len(m)] = Stamp(f, v, n)
           /\ \A i \in 1 .. Len(m) - 1 :
                 (m[i] = Call("open", Part) /\ Reads(f, v) > 0) \/ m[i] = Call("throw", f)
           /\ Reads(f, v) > 0 => Len(m) > 1 /\ m[1] = Call("open", Part)
<1>1. PICK r \in Nat : r = Reads(f, v)
  BY TextFacts
<1>2. PICK a : a = [i \in 1 .. r |-> Call("open", Part)]
  OBVIOUS
<1>3. a \in Seq(Calls) /\ Len(a) = r /\ \A i \in 1 .. r : a[i] = Call("open", Part)
  BY <1>2, CallTypes, Facts
<1>4. PICK b : b = IF TextOf(f, v).parsed THEN <<>> ELSE <<Call("throw", f)>>
  OBVIOUS
<1>5. /\ b \in Seq(Calls) /\ Len(b) \in Nat
      /\ \A i \in 1 .. Len(b) : b[i] = Call("throw", f)
  <2>1. CASE TextOf(f, v).parsed
    BY <1>4, <2>1
  <2>2. CASE ~TextOf(f, v).parsed
    <3>1. Call("throw", f) \in Calls
      BY CallTypes
    <3> QED
      BY <1>4, <2>2, <3>1
  <2> QED
    BY <2>1, <2>2
<1>6. PICK p : p = a \o b
  OBVIOUS
<1>7. /\ p \in Seq(Calls) /\ Len(p) = r + Len(b)
      /\ \A i \in 1 .. r + Len(b) : p[i] = IF i <= r THEN a[i] ELSE b[i - r]
  BY <1>3, <1>5, <1>6, ConcatProperties
<1>8. \A i \in 1 .. Len(p) : (p[i] = Call("open", Part) /\ r > 0) \/ p[i] = Call("throw", f)
  <2> SUFFICES ASSUME NEW i \in 1 .. Len(p)
               PROVE  (p[i] = Call("open", Part) /\ r > 0) \/ p[i] = Call("throw", f)
    OBVIOUS
  <2>1. CASE i <= r
    BY <1>1, <1>3, <1>5, <1>7, <2>1
  <2>2. CASE i > r
    <3>1. i - r \in 1 .. Len(b)
      BY <1>1, <1>5, <1>7, <2>2
    <3>2. p[i] = b[i - r]
      BY <1>1, <1>5, <1>7, <2>2
    <3> QED
      BY <1>5, <3>1, <3>2
  <2> QED
    BY <1>1, <2>1, <2>2
<1>9. ParseCalls(f, v) = p
  BY <1>1, <1>2, <1>4, <1>6 DEF ParseCalls
<1>10. PICK c \in Calls : c = Stamp(f, v, n)
  BY CallTypes
<1>11. PICK q \in Seq(Calls) : q = <<c>> /\ Len(q) = 1 /\ q[1] = c
  BY <1>10, Singles
<1>12. /\ m \in Seq(Calls) /\ Len(m) = Len(p) + 1
       /\ \A i \in 1 .. Len(p) + 1 : m[i] = IF i <= Len(p) THEN p[i] ELSE q[i - Len(p)]
  <2>1. m = p \o q
    BY <1>9, <1>10, <1>11 DEF Generating
  <2>2. p \in Seq(Calls)
    BY <1>7
  <2> QED
    BY ONLY <1>11, <2>1, <2>2, ConcatProperties
<1>13. Len(p) \in Nat
  BY <1>1, <1>5, <1>7
<1>14. m[Len(m)] = c
  <2>1. Len(m) \in 1 .. Len(p) + 1 /\ ~(Len(m) <= Len(p)) /\ Len(m) - Len(p) = 1
    BY <1>12, <1>13
  <2> QED
    BY <1>11, <1>12, <2>1
<1>15. \A i \in 1 .. Len(m) - 1 : i \in 1 .. Len(p) /\ m[i] = p[i]
  BY <1>12, <1>13
<1>16. r > 0 => Len(m) > 1 /\ m[1] = Call("open", Part)
  <2> SUFFICES ASSUME r > 0
               PROVE  Len(m) > 1 /\ m[1] = Call("open", Part)
    OBVIOUS
  <2>1. Len(p) >= 1 /\ 1 \in 1 .. Len(p) /\ 1 \in 1 .. r
    BY <1>1, <1>5, <1>7
  <2>2. p[1] = Call("open", Part)
    BY <1>1, <1>3, <1>5, <1>7, <2>1
  <2>3. Len(m) > 1 /\ 1 \in 1 .. Len(m) - 1
    BY <1>12, <1>13, <2>1
  <2> QED
    BY <1>15, <2>2, <2>3
<1> QED
  BY <1>1, <1>8, <1>10, <1>12, <1>13, <1>14, <1>15, <1>16

\* Rendering a text includes and links; who includes has parsed an include.
LEMMA Rendering ==
    ASSUME NEW f \in Files, NEW v \in Versions, NEW m, m = RenderCalls(f, v)
    PROVE  /\ m \in Seq(Calls) /\ Len(m) \in Nat
           /\ \A i \in 1 .. Len(m) :
                 \/ m[i] = Call("include", f) /\ Reads(f, v) > 0
                 \/ m[i] = Call("link", f)
                 \/ m[i] = Call("throw", f)
<1>1. PICK e \in Seq({"include", "link"}) : e = TextOf(f, v).effects
  BY TextFacts
<1>2. /\ Len(e) \in Nat /\ DOMAIN e = 1 .. Len(e)
      /\ \A i \in 1 .. Len(e) : e[i] \in {"include", "link"}
      /\ \A i \in 1 .. Len(e) : e[i] = "include" => Reads(f, v) > 0
  <2>1. /\ Len(e) \in Nat /\ DOMAIN e = 1 .. Len(e)
        /\ \A i \in 1 .. Len(e) : e[i] \in {"include", "link"}
    BY <1>1, LenProperties, ElementOfSeq
  <2>2. Reads(f, v) \in Nat /\ (Reads(f, v) = 0 => "include" \notin Range(e))
    BY <1>1, TextFacts
  <2>3. \A i \in 1 .. Len(e) : e[i] \in Range(e)
    BY <2>1 DEF Range
  <2> QED
    BY <2>1, <2>2, <2>3
<1>3. PICK a : a = [i \in DOMAIN e |-> Call(e[i], f)]
  OBVIOUS
<1>4. \A i \in 1 .. Len(e) : Call(e[i], f) \in Calls
  BY <1>2, CallTypes
<1>5. /\ a \in Seq(Calls) /\ Len(a) = Len(e)
      /\ \A i \in 1 .. Len(e) : a[i] = Call(e[i], f)
  BY <1>2, <1>3, <1>4
<1>6. PICK b : b = IF TextOf(f, v).thrown THEN <<Call("throw", f)>> ELSE <<>>
  OBVIOUS
<1>7. /\ b \in Seq(Calls) /\ Len(b) \in Nat
      /\ \A i \in 1 .. Len(b) : b[i] = Call("throw", f)
  <2>1. Call("throw", f) \in Calls
    BY CallTypes
  <2>2. CASE TextOf(f, v).thrown
    BY <1>6, <2>1, <2>2
  <2>3. CASE ~TextOf(f, v).thrown
    BY <1>6, <2>3
  <2> QED
    BY <2>2, <2>3
<1>8. m = a \o b
  BY <1>1, <1>3, <1>6 DEF RenderCalls
<1>9. /\ m \in Seq(Calls) /\ Len(m) = Len(a) + Len(b)
      /\ \A i \in 1 .. Len(a) + Len(b) : m[i] = IF i <= Len(a) THEN a[i] ELSE b[i - Len(a)]
  BY ONLY <1>5, <1>7, <1>8, ConcatProperties
<1>10. Len(m) \in Nat
  BY <1>2, <1>5, <1>7, <1>9
<1>11. ASSUME NEW i \in 1 .. Len(m)
       PROVE  \/ m[i] = Call("include", f) /\ Reads(f, v) > 0
              \/ m[i] = Call("link", f)
              \/ m[i] = Call("throw", f)
  <2>1. CASE i <= Len(a)
    <3>1. i \in 1 .. Len(e) /\ m[i] = a[i]
      BY <1>2, <1>5, <1>7, <1>9, <2>1
    <3> QED
      BY <1>2, <1>5, <3>1
  <2>2. CASE i > Len(a)
    <3>1. i - Len(a) \in 1 .. Len(b) /\ m[i] = b[i - Len(a)]
      BY <1>2, <1>5, <1>7, <1>9, <2>2
    <3> QED
      BY <1>7, <3>1
  <2> QED
    BY <1>2, <1>5, <2>1, <2>2
<1> QED
  BY <1>9, <1>10, <1>11

------------------------------------------------------------------------------
(* What the cache and a stack keep                                          *)

CacheOK(C) == DOMAIN C \subseteq Files /\ \A f \in DOMAIN C : C[f] \in Entries

\* C2 has what C has, in these versions or newer ones, and X2 exempts no less.
Newer(C, X, C2, X2) ==
    /\ X \subseteq X2
    /\ \A f \in DOMAIN C : f \in DOMAIN C2 /\ Good(X2, f, C2[f].version, C[f].version)

LEMMA GoodTransitive ==
    ASSUME NEW X, NEW f, NEW a \in Nat, NEW b \in Nat, NEW c \in Nat,
           Good(X, f, a, b), Good(X, f, b, c)
    PROVE  Good(X, f, a, c)
BY DEF Good

LEMMA GoodKept ==
    ASSUME NEW X, NEW X2, X \subseteq X2
    PROVE  /\ \A f, a, b : Good(X, f, a, b) => Good(X2, f, a, b)
           /\ \A c, f, v : Brings(X, c, f, v) => Brings(X2, c, f, v)
           /\ \A C, f, v : InCache(C, X, f, v) => InCache(C, X2, f, v)
<1>1. \A f, a, b : Good(X, f, a, b) => Good(X2, f, a, b)
  BY DEF Good
<1> QED
  BY <1>1 DEF Brings, InCache

LEMMA NewerSame ==
    ASSUME NEW C, CacheOK(C), NEW X, NEW X2, X \subseteq X2
    PROVE  Newer(C, X, C, X2)
<1>1. \A f \in DOMAIN C : C[f].version \in Nat
  BY EntryParts DEF CacheOK
<1>2. \A f \in DOMAIN C : C[f].version >= C[f].version
  BY <1>1
<1> QED
  BY <1>2 DEF Newer, Good

LEMMA InCacheKept ==
    ASSUME NEW C, CacheOK(C), NEW X, NEW C2, CacheOK(C2), NEW X2, Newer(C, X, C2, X2),
           NEW f, NEW v \in Nat, InCache(C, X, f, v)
    PROVE  InCache(C2, X2, f, v)
<1>1. f \in DOMAIN C /\ f \in DOMAIN C2 /\ C[f] \in Entries /\ C2[f] \in Entries
  BY DEF Newer, InCache, CacheOK
<1>2. C[f].version \in Nat /\ C2[f].version \in Nat
  BY <1>1, EntryParts
<1>3. Good(X2, f, C2[f].version, C[f].version) /\ Good(X2, f, C[f].version, v)
  BY <1>1, GoodKept DEF Newer, InCache
<1>4. Good(X2, f, C2[f].version, v)
  BY <1>2, <1>3, GoodTransitive
<1> QED
  BY <1>1, <1>4 DEF InCache

\* A cache that is newer has what a stack wants of it.
LEMMA WantsKept ==
    ASSUME NEW C, CacheOK(C), NEW X, NEW C2, CacheOK(C2), NEW X2, Newer(C, X, C2, X2),
           NEW p, NEW s, WantsMet(C, X, p, s)
    PROVE  WantsMet(C2, X2, p, s)
<1> SUFFICES ASSUME NEW i \in 1 .. Len(s), NEW f \in Files, NEW v \in 0 .. MaxWrites,
                    Wants(p, s[i], f, v)
             PROVE  InCache(C2, X2, f, v) \/ \E j \in 1 .. i - 1 : Brings(X2, s[j], f, v)
  BY DEF WantsMet
<1>1. v \in Nat
  BY Facts
<1>2. CASE InCache(C, X, f, v)
  BY <1>1, <1>2, InCacheKept
<1>3. CASE \E j \in 1 .. i - 1 : Brings(X, s[j], f, v)
  BY <1>3, GoodKept DEF Newer
<1> QED
  BY <1>2, <1>3 DEF WantsMet

\* What the calls below the head of s want for p2, they wanted for p; what the
\* head brought to them is there, or is brought by m.
SameWants(p, p2, s) ==
    \A i \in 2 .. Len(s) : \A f \in Files, v \in 0 .. MaxWrites :
        Wants(p2, s[i], f, v) => Wants(p, s[i], f, v)

HandsOn(X, C2, X2, p, s, m) ==
    \A i \in 2 .. Len(s) : \A f \in Files, v \in 0 .. MaxWrites :
        Wants(p, s[i], f, v) /\ Brings(X, s[1], f, v) =>
            InCache(C2, X2, f, v) \/ \E j \in 1 .. Len(m) : Brings(X2, m[j], f, v)

\* The head of a stack gives way to m.
LEMMA WantsSpliced ==
    ASSUME NEW C, CacheOK(C), NEW X, NEW C2, CacheOK(C2), NEW X2, Newer(C, X, C2, X2),
           NEW s \in Seq(Calls), s # <<>>, NEW m \in Seq(Calls), NEW n, n = m \o Tail(s),
           NEW p, NEW p2, WantsMet(C, X, p, s),
           SameWants(p, p2, s), WantsMet(C2, X2, p2, m), HandsOn(X, C2, X2, p, s, m)
    PROVE  WantsMet(C2, X2, p2, n)
<1> SUFFICES ASSUME NEW i \in 1 .. Len(n), NEW f \in Files, NEW v \in 0 .. MaxWrites,
                    Wants(p2, n[i], f, v)
             PROVE  InCache(C2, X2, f, v) \/ \E j \in 1 .. i - 1 : Brings(X2, n[j], f, v)
  BY DEF WantsMet
<1>1. /\ Len(m) \in Nat /\ Len(s) \in Nat \ {0} /\ Len(n) \in Nat
      /\ \A j \in 1 .. Len(m) : j \in 1 .. Len(n) /\ n[j] = m[j]
      /\ \A j \in 2 .. Len(s) : Len(m) + j - 1 \in 1 .. Len(n) /\ n[Len(m) + j - 1] = s[j]
      /\ \/ i \in 1 .. Len(m) /\ n[i] = m[i]
         \/ /\ i > Len(m) /\ i - Len(m) + 1 \in 2 .. Len(s)
            /\ n[i] = s[i - Len(m) + 1]
  BY Spliced
<1>2. CASE i \in 1 .. Len(m) /\ n[i] = m[i]
  <2>1. InCache(C2, X2, f, v) \/ \E j \in 1 .. i - 1 : Brings(X2, m[j], f, v)
    BY <1>2 DEF WantsMet
  <2>2. \A j \in 1 .. i - 1 : n[j] = m[j]
    BY <1>1, <1>2
  <2> QED
    BY <2>1, <2>2
<1>3. CASE /\ i > Len(m) /\ i - Len(m) + 1 \in 2 .. Len(s)
           /\ n[i] = s[i - Len(m) + 1]
  <2>1. PICK k \in 2 .. Len(s) : k = i - Len(m) + 1 /\ n[i] = s[k]
    BY <1>3
  <2>2. k \in 1 .. Len(s) /\ Wants(p, s[k], f, v)
    <3>1. k \in 1 .. Len(s)
      BY ONLY <1>1, <2>1
    <3> QED
      BY <2>1, <3>1 DEF SameWants
  <2>3. InCache(C, X, f, v) \/ \E j \in 1 .. k - 1 : Brings(X, s[j], f, v)
    BY <2>2 DEF WantsMet
  <2>4. CASE InCache(C, X, f, v)
    <3>1. v \in Nat
      BY Facts
    <3> QED
      BY <2>4, <3>1, InCacheKept
  <2>5. ASSUME NEW j \in 1 .. k - 1, Brings(X, s[j], f, v)
        PROVE  InCache(C2, X2, f, v) \/ \E l \in 1 .. i - 1 : Brings(X2, n[l], f, v)
    <3>1. CASE j = 1
      <4>1. InCache(C2, X2, f, v) \/ \E l \in 1 .. Len(m) : Brings(X2, m[l], f, v)
        BY <2>1, <2>2, <2>5, <3>1 DEF HandsOn
      <4>2. \A l \in 1 .. Len(m) : l \in 1 .. i - 1 /\ n[l] = m[l]
        BY <1>1, <1>3
      <4> QED
        BY <4>1, <4>2
    <3>2. CASE j # 1
      <4>1. j \in 2 .. Len(s) /\ Len(m) + j - 1 \in 1 .. i - 1
        BY <1>1, <1>3, <2>1, <3>2
      <4>2. n[Len(m) + j - 1] = s[j]
        BY <1>1, <4>1
      <4>3. Brings(X2, s[j], f, v)
        BY <2>5, GoodKept DEF Newer
      <4> QED
        BY <4>1, <4>2, <4>3
    <3> QED
      BY <3>1, <3>2
  <2> QED
    BY <2>3, <2>4, <2>5
<1> QED
  BY <1>1, <1>2, <1>3

\* The calls m may take the place of the head of s.
Fits(s, m) ==
    /\ \A i \in 1 .. Len(m) :
          /\ m[i].call # "lookup"
          /\ m[i].call = "root" => i = Len(m) /\ Len(s) = 1
          /\ m[i].call \in {"check", "grow"} => i = 1
          /\ m[i].call = "include" =>
                Len(s) = 1 /\ \A j \in 1 .. Len(m) : m[j].call # "root"
          /\ \A f \in Files : Generates(m[i], f) /\ Len(s) # 1 =>
                \E h \in Files : Generates(s[1], h) /\ f \in {h, Part}
    /\ \A i, j \in 1 .. Len(m) : \A f, g \in Files :
          j < i /\ Generates(m[j], f) /\ Making(m[i], g) => f = Part /\ g # Part

LEMMA ShapeSpliced ==
    ASSUME NEW s \in Seq(Calls), s # <<>>, NEW m \in Seq(Calls), NEW n, n = m \o Tail(s),
           Shape(s), Fits(s, m)
    PROVE  Shape(n)
<1>1. /\ Len(m) \in Nat /\ Len(s) \in Nat \ {0} /\ Len(n) \in Nat
      /\ Len(n) = Len(m) + Len(s) - 1
      /\ \A i \in 1 .. Len(n) :
            \/ i \in 1 .. Len(m) /\ n[i] = m[i]
            \/ /\ i > Len(m) /\ i - Len(m) + 1 \in 2 .. Len(s)
               /\ n[i] = s[i - Len(m) + 1]
  BY Spliced
<1>2. ASSUME NEW i \in 1 .. Len(n)
      PROVE  /\ n[i].call = "lookup" => Len(n) = 1
             /\ n[i].call = "root" => i = Len(n)
             /\ n[i].call \in {"check", "grow"} => i = 1
  <2>1. CASE i \in 1 .. Len(m) /\ n[i] = m[i]
    <3>1. /\ m[i].call # "lookup"
          /\ m[i].call = "root" => i = Len(m) /\ Len(s) = 1
          /\ m[i].call \in {"check", "grow"} => i = 1
      BY <2>1 DEF Fits
    <3>2. Len(s) = 1 => Len(n) = Len(m)
      BY ONLY <1>1
    <3> QED
      BY <2>1, <3>1, <3>2
  <2>2. CASE /\ i > Len(m) /\ i - Len(m) + 1 \in 2 .. Len(s)
             /\ n[i] = s[i - Len(m) + 1]
    <3>1. PICK k \in 2 .. Len(s) : k = i - Len(m) + 1 /\ n[i] = s[k]
      BY <2>2
    <3>2. k \in 1 .. Len(s) /\ k # 1 /\ Len(s) # 1
      BY ONLY <1>1, <3>1
    <3>3. /\ s[k].call # "lookup" /\ s[k].call \notin {"check", "grow"}
          /\ s[k].call = "root" => k = Len(s)
      BY <3>2 DEF Shape
    <3>4. k = Len(s) => i = Len(n)
      BY ONLY <1>1, <3>1
    <3> QED
      BY <3>1, <3>3, <3>4
  <2> QED
    BY <1>1, <2>1, <2>2
<1>3. ASSUME NEW i \in 1 .. Len(n), NEW j \in 1 .. Len(n), NEW f \in Files, NEW g \in Files,
             j < i, Generates(n[j], f), Making(n[i], g)
      PROVE  f = Part /\ g # Part
  <2>1. CASE i \in 1 .. Len(m) /\ n[i] = m[i]
    <3>1. j \in 1 .. Len(m) /\ n[j] = m[j]
      BY <1>1, <1>3, <2>1
    <3> QED
      BY <1>3, <2>1, <3>1 DEF Fits
  <2>2. CASE i - Len(m) + 1 \in 2 .. Len(s) /\ n[i] = s[i - Len(m) + 1]
    <3>1. PICK k \in 2 .. Len(s) : k = i - Len(m) + 1 /\ n[i] = s[k]
      BY <2>2
    <3>2. k \in 1 .. Len(s) /\ 1 \in 1 .. Len(s) /\ 1 < k /\ Len(s) # 1
      BY ONLY <1>1, <3>1
    <3>3. CASE j \in 1 .. Len(m) /\ n[j] = m[j]
      <4>1. PICK h \in Files : Generates(s[1], h) /\ f \in {h, Part}
        BY <1>3, <3>2, <3>3 DEF Fits
      <4>2. h = Part /\ g # Part
        BY <1>3, <3>1, <3>2, <4>1 DEF Shape
      <4> QED
        BY <4>1, <4>2
    <3>4. CASE j - Len(m) + 1 \in 2 .. Len(s) /\ n[j] = s[j - Len(m) + 1]
      <4>1. PICK l \in 2 .. Len(s) : l = j - Len(m) + 1 /\ n[j] = s[l]
        BY <3>4
      <4>2. l \in 1 .. Len(s) /\ l < k
        BY <1>1, <1>3, <3>1, <4>1
      <4> QED
        BY <1>3, <3>1, <3>2, <4>1, <4>2 DEF Shape
    <3> QED
      BY <1>1, <3>3, <3>4
  <2> QED
    BY <1>1, <2>1, <2>2
<1>4. ASSUME NEW i \in 1 .. Len(n), n[i].call = "include",
             NEW j \in 1 .. Len(n), n[j].call \in {"lookup", "root"}
      PROVE  FALSE
  <2>1. CASE n[j].call = "lookup"
    <3>1. Len(n) = 1
      BY <1>2, <2>1
    <3>2. i = j
      BY ONLY <1>4, <3>1
    <3> QED
      BY <1>4, <2>1, <3>2
  <2>2. CASE Len(s) = 1
    <3>1. i \in 1 .. Len(m) /\ n[i] = m[i] /\ j \in 1 .. Len(m) /\ n[j] = m[j]
      BY ONLY <1>1, <1>4, <2>2
    <3> QED
      BY <1>4, <3>1 DEF Fits
  <2>3. CASE Len(s) # 1
    <3>1. PICK k \in 2 .. Len(s) : n[i] = s[k]
      <4>1. CASE i \in 1 .. Len(m) /\ n[i] = m[i]
        BY <1>4, <2>3, <4>1 DEF Fits
      <4> QED
        BY <1>1, <4>1
    <3>2. k \in 1 .. Len(s)
      BY ONLY <1>1, <3>1
    <3>3. ~Begun(s)
      BY <1>4, <3>1, <3>2 DEF Shape
    <3>4. CASE j \in 1 .. Len(m) /\ n[j] = m[j]
      BY <1>4, <2>3, <3>4 DEF Fits
    <3>5. CASE j - Len(m) + 1 \in 2 .. Len(s) /\ n[j] = s[j - Len(m) + 1]
      <4>1. j - Len(m) + 1 \in 1 .. Len(s)
        BY ONLY <1>1, <3>5
      <4> QED
        BY <1>4, <3>3, <3>5, <4>1 DEF Begun
    <3> QED
      BY <1>1, <3>4, <3>5
  <2> QED
    BY <2>2, <2>3
<1> QED
  BY <1>2, <1>3, <1>4 DEF Shape, Begun

------------------------------------------------------------------------------
(* What a step keeps of the calls and pages that it does not touch          *)

LEMMA StateFacts ==
    ASSUME TypeOK
    PROVE  /\ CacheOK(cachedTemplating)
           /\ Exempt \subseteq Files
           /\ \A f \in Files : /\ disk[f].version \in Versions /\ disk[f].version \in Nat
                               /\ disk[f].time \in 1 .. MaxTime /\ disk[f].time \in Nat
                               /\ disk[f].there \in BOOLEAN
           /\ clock \in Nat
           /\ \A w \in Workers :
                 /\ calls[w] \in Seq(Calls)
                 /\ page[w] \in Pages
                 /\ page[w].file \in Files
                 /\ page[w].asked \in 0 .. MaxWrites /\ page[w].asked \in Nat
                 /\ page[w].root \in 0 .. MaxWrites /\ page[w].root \in Nat
                 /\ page[w].seen \in 0 .. MaxWrites /\ page[w].seen \in Nat
                 /\ page[w].part \in 0 .. MaxWrites /\ page[w].part \in Nat
                 /\ page[w].links \subseteq Files
<1>1. CacheOK(cachedTemplating)
  BY DEF TypeOK, CacheOK
<1>2. Exempt \subseteq Files
  BY DEF Exempt
<1>3. \A f \in Files : /\ disk[f].version \in Versions /\ disk[f].version \in Nat
                       /\ disk[f].time \in 1 .. MaxTime /\ disk[f].time \in Nat
                       /\ disk[f].there \in BOOLEAN
  BY Facts DEF TypeOK, Versions
<1>4. clock \in Nat
  BY Facts DEF TypeOK
<1>5. ASSUME NEW w \in Workers
      PROVE  /\ calls[w] \in Seq(Calls)
             /\ page[w] \in Pages
             /\ page[w].file \in Files
             /\ page[w].asked \in 0 .. MaxWrites /\ page[w].asked \in Nat
             /\ page[w].root \in 0 .. MaxWrites /\ page[w].root \in Nat
             /\ page[w].seen \in 0 .. MaxWrites /\ page[w].seen \in Nat
             /\ page[w].part \in 0 .. MaxWrites /\ page[w].part \in Nat
             /\ page[w].links \subseteq Files
  <2>1. calls[w] \in Seq(Calls) /\ page[w] \in Pages
    BY DEF TypeOK
  <2>2. /\ page[w].file \in Files
        /\ page[w].asked \in 0 .. MaxWrites /\ page[w].root \in 0 .. MaxWrites
        /\ page[w].seen \in 0 .. MaxWrites /\ page[w].part \in 0 .. MaxWrites
        /\ page[w].links \subseteq Files
    BY <2>1 DEF Pages
  <2> QED
    BY <2>1, <2>2, Facts
<1> QED
  BY <1>1, <1>2, <1>3, <1>4, <1>5

\* The head of a stack that is not empty.
LEMMA HeadFacts ==
    ASSUME TypeOK, NEW w \in Workers, calls[w] # <<>>
    PROVE  /\ Head(calls[w]) = calls[w][1] /\ Head(calls[w]) \in Calls
           /\ Len(calls[w]) \in Nat \ {0} /\ 1 \in 1 .. Len(calls[w])
           /\ Callee(w) = calls[w][1].file /\ Callee(w) \in Files
<1>1. PICK s \in Seq(Calls) : s = calls[w]
  BY StateFacts
<1>2. Len(s) \in Nat \ {0} /\ 1 \in 1 .. Len(s)
  BY <1>1, EmptySeq, LenProperties
<1>3. Head(s) = s[1] /\ s[1] \in Calls
  BY <1>1, <1>2, HeadTailProperties, ElementOfSeq
<1> QED
  BY <1>1, <1>2, <1>3, CallParts DEF Callee

LEMMA GoesOn ==
    ASSUME TypeOK, NEW w \in Workers, NEW m, Goes(w, m)
    PROVE  /\ calls'[w] = m \o Tail(calls[w])
           /\ \A u \in Workers \ {w} : calls'[u] = calls[u]
           /\ calls' = [calls EXCEPT ![w] = m \o Tail(calls[w])]
BY DEF TypeOK, Goes

LEMMA GoesType ==
    ASSUME TypeOK, NEW w \in Workers, calls[w] # <<>>, NEW m \in Seq(Calls), Goes(w, m)
    PROVE  calls' \in [Workers -> Seq(Calls)]
<1>1. PICK n : n = m \o Tail(calls[w])
  OBVIOUS
<1>2. n \in Seq(Calls)
  BY <1>1, StateFacts, Spliced
<1>3. calls' = [calls EXCEPT ![w] = n]
  BY <1>1, GoesOn
<1>4. calls \in [Workers -> Seq(Calls)]
  BY DEF TypeOK
<1> QED
  BY ONLY <1>2, <1>3, <1>4

\* What is known of a call or an entry remains so if more files are exempt.
LEMMA CallKept ==
    ASSUME NEW D, NEW R, NEW C, NEW X, NEW X2, X \subseteq X2, NEW p, NEW p2, p2.file = p.file,
           NEW c, CallInv(D, R, X, C, p, c)
    PROVE  CallInv(D, R, X2, C, p2, c)
<1>1. CheckInv(D, X, C, c) => CheckInv(D, X2, C, c)
  BY GoodKept DEF CheckInv
<1>2. MakingInv(D, X, C, c) => MakingInv(D, X2, C, c)
  BY GoodKept DEF MakingInv
<1> QED
  BY <1>1, <1>2 DEF CallInv

LEMMA EntryKept ==
    ASSUME NEW D, NEW R, NEW C, NEW X, NEW X2, X \subseteq X2, NEW f, EntryInv(D, R, X, C, f)
    PROVE  EntryInv(D, R, X2, C, f)
BY GoodKept DEF EntryInv

\* A worker goes on, and the cache may get newer.
LEMMA StackKept ==
    ASSUME TypeOK, NEW w \in Workers, calls[w] # <<>>, NEW m \in Seq(Calls), Goes(w, m),
           \A u \in Workers : StackInv(u),
           CacheOK(cachedTemplating'),
           Newer(cachedTemplating, Exempt, cachedTemplating', Exempt'),
           \A u \in Workers \ {w} : page'[u] = page[u],
           page'[w].status = page[w].status,
           Fits(calls[w], m),
           SameWants(page[w], page'[w], calls[w]),
           WantsMet(cachedTemplating', Exempt', page'[w], m),
           HandsOn(Exempt, cachedTemplating', Exempt', page[w], calls[w], m),
           \A u \in Workers \ {w} : \A i \in 1 .. Len(calls[u]) :
              CallInv(disk', raced', Exempt', cachedTemplating', page[u], calls[u][i]),
           \A i \in 1 .. Len(m) :
              CallInv(disk', raced', Exempt', cachedTemplating', page'[w], m[i]),
           \A i \in 2 .. Len(calls[w]) :
              CallInv(disk', raced', Exempt', cachedTemplating', page'[w], calls[w][i])
    PROVE  \A u \in Workers : StackInv(u)'
<1>1. CacheOK(cachedTemplating)
  BY StateFacts
<1>2. ASSUME NEW u \in Workers \ {w}
      PROVE  StackInv(u)'
  <2>1. calls'[u] = calls[u] /\ page'[u] = page[u]
    BY GoesOn
  <2>2. /\ Shape(calls[u])
        /\ calls[u] # <<>> => page[u].status = "rendering"
        /\ WantsMet(cachedTemplating, Exempt, page[u], calls[u])
    BY DEF StackInv
  <2>3. WantsMet(cachedTemplating', Exempt', page[u], calls[u])
    BY <1>1, <2>2, WantsKept
  <2>4. \A i \in 1 .. Len(calls[u]) :
           CallInv(disk', raced', Exempt', cachedTemplating', page[u], calls[u][i])
    OBVIOUS
  <2> QED
    BY ONLY <2>1, <2>2, <2>3, <2>4 DEF StackInv
<1>3. PICK s \in Seq(Calls) : s = calls[w]
  BY StateFacts
<1>4. PICK n : n = m \o Tail(s)
  OBVIOUS
<1>5. calls'[w] = n
  BY <1>3, <1>4, GoesOn
<1>6. /\ Shape(s) /\ page[w].status = "rendering"
      /\ WantsMet(cachedTemplating, Exempt, page[w], s)
  BY <1>3 DEF StackInv
<1>7. Shape(n)
  BY <1>3, <1>4, <1>6, ShapeSpliced
<1>8. WantsMet(cachedTemplating', Exempt', page'[w], n)
  <2>1. /\ s # <<>> /\ SameWants(page[w], page'[w], s)
        /\ HandsOn(Exempt, cachedTemplating', Exempt', page[w], s, m)
    BY <1>3
  <2> QED
    BY <1>1, <1>4, <1>6, <2>1, WantsSpliced
<1>9. ASSUME NEW i \in 1 .. Len(n)
      PROVE  CallInv(disk', raced', Exempt', cachedTemplating', page'[w], n[i])
  <2>1. \/ i \in 1 .. Len(m) /\ n[i] = m[i]
        \/ /\ i - Len(m) + 1 \in 2 .. Len(s)
           /\ n[i] = s[i - Len(m) + 1]
    BY <1>3, <1>4, Spliced
  <2> QED
    BY <1>3, <2>1
<1>10. StackInv(w)'
  <2>1. page'[w].status = "rendering"
    BY <1>6
  <2> QED
    BY ONLY <1>5, <1>7, <1>8, <1>9, <2>1 DEF StackInv
<1> QED
  BY <1>2, <1>10

LEMMA BegunSpliced ==
    ASSUME NEW s \in Seq(Calls), s # <<>>, NEW m \in Seq(Calls), NEW n, n = m \o Tail(s),
           s[1].call \notin {"lookup", "root"},
           \A i \in 1 .. Len(m) : m[i].call \notin {"lookup", "root"}
    PROVE  Begun(n) <=> Begun(s)
<1>1. ASSUME Begun(s)
      PROVE  Begun(n)
  <2>1. PICK i \in 1 .. Len(s) : s[i].call \in {"lookup", "root"}
    BY <1>1 DEF Begun
  <2>2. i \in 2 .. Len(s)
    <3>1. i # 1
      BY <2>1
    <3> QED
      BY <3>1
  <2>3. Len(m) + i - 1 \in 1 .. Len(n) /\ n[Len(m) + i - 1] = s[i]
    BY <2>2, Spliced
  <2> QED
    BY <2>1, <2>3 DEF Begun
<1>2. ASSUME Begun(n)
      PROVE  Begun(s)
  <2>1. PICK i \in 1 .. Len(n) : n[i].call \in {"lookup", "root"}
    BY <1>2 DEF Begun
  <2>2. \/ i \in 1 .. Len(m) /\ n[i] = m[i]
        \/ /\ i - Len(m) + 1 \in 2 .. Len(s)
           /\ n[i] = s[i - Len(m) + 1]
    BY Spliced
  <2>3. \A k \in 2 .. Len(s) : k \in 1 .. Len(s)
    BY LenProperties
  <2> QED
    BY <2>1, <2>2, <2>3 DEF Begun
<1> QED
  BY <1>1, <1>2

LEMMA PageKept ==
    ASSUME TypeOK, NEW u \in Workers, PageInv(u), disk' = disk, Exempt \subseteq Exempt',
           page'[u] = page[u], calls'[u] = calls[u]
    PROVE  PageInv(u)'
<1>1. Fresh(Exempt, page[u]) => Fresh(Exempt', page[u])
  BY GoodKept DEF Fresh
<1> QED
  BY <1>1 DEF PageInv

\* The same for a worker that goes on, but not by taking its root or including.
LEMMA PageGoes ==
    ASSUME TypeOK, NEW w \in Workers, PageInv(w), disk' = disk, Exempt \subseteq Exempt',
           NEW m \in Seq(Calls), Goes(w, m), calls[w] # <<>>,
           calls[w][1].call \notin {"lookup", "root"},
           \A i \in 1 .. Len(m) : m[i].call \notin {"lookup", "root"},
           page'[w].file = page[w].file, page'[w].status = page[w].status,
           page'[w].asked = page[w].asked, page'[w].root = page[w].root,
           page'[w].seen = page[w].seen, page'[w].part = page[w].part
    PROVE  PageInv(w)'
<1>1. PICK s \in Seq(Calls) : s = calls[w]
  BY StateFacts
<1>2. PICK n : n = m \o Tail(s)
  OBVIOUS
<1>3. calls'[w] = n
  BY <1>1, <1>2, GoesOn
<1>4. Begun(calls'[w]) <=> Begun(calls[w])
  <2>1. /\ s # <<>> /\ s[1].call \notin {"lookup", "root"} /\ m \in Seq(Calls)
        /\ \A i \in 1 .. Len(m) : m[i].call \notin {"lookup", "root"}
    BY <1>1
  <2>2. Begun(n) <=> Begun(s)
    BY ONLY <1>1, <1>2, <2>1, BegunSpliced
  <2> QED
    BY ONLY <1>1, <1>3, <2>2
<1>5. Fresh(Exempt, page[w]) => Fresh(Exempt', page'[w])
  BY GoodKept DEF Fresh
<1> QED
  BY <1>4, <1>5 DEF PageInv

\* The generating of a file, of one worker only, goes on.
LEMMA AloneKept ==
    ASSUME TypeOK, AloneInv, NEW w \in Workers,
           \A u \in Workers \ {w} : calls'[u] = calls[u],
           \A f \in Files : overlapped[f] => overlapped'[f],
           \A f \in Files : Makes(w, f)' =>
              \/ Makes(w, f)
              \/ overlapped'[f]
              \/ \A u \in Workers \ {w} : ~Makes(u, f)
    PROVE  AloneInv'
<1> SUFFICES ASSUME NEW f \in Files, ~overlapped'[f], NEW u \in Workers, NEW x \in Workers,
                    Makes(u, f)', Makes(x, f)', u # x
             PROVE  FALSE
  BY DEF AloneInv
<1>1. \A y \in Workers \ {w} : Makes(y, f)' => Makes(y, f)
  BY DEF Makes
<1>2. ~overlapped[f]
  OBVIOUS
<1>3. CASE u # w /\ x # w
  BY <1>1, <1>2, <1>3 DEF AloneInv
<1>4. ASSUME NEW y \in Workers \ {w}, Makes(y, f)', Makes(w, f)'
      PROVE  FALSE
  <2>1. Makes(y, f)
    BY <1>1, <1>4
  <2>2. Makes(w, f)
    BY <1>4, <2>1
  <2> QED
    BY <1>2, <2>1, <2>2 DEF AloneInv
<1> QED
  BY <1>3, <1>4

\* What a worker makes once the head of its stack is replaced.
LEMMA MakesSpliced ==
    ASSUME TypeOK, NEW w \in Workers, calls[w] # <<>>, NEW m \in Seq(Calls), Goes(w, m),
           NEW f \in Files, Makes(w, f)'
    PROVE  Makes(w, f) \/ \E i \in 1 .. Len(m) : Making(m[i], f)
<1>1. PICK s \in Seq(Calls) : s = calls[w]
  BY StateFacts
<1>2. PICK n : n = m \o Tail(s)
  OBVIOUS
<1>3. calls'[w] = n
  BY <1>1, <1>2, GoesOn
<1>4. PICK i \in 1 .. Len(n) : Making(n[i], f)
  BY <1>3 DEF Makes
<1>5. \/ i \in 1 .. Len(m) /\ n[i] = m[i]
      \/ /\ i - Len(m) + 1 \in 2 .. Len(s)
         /\ n[i] = s[i - Len(m) + 1]
  BY <1>1, <1>2, Spliced
<1>6. \A k \in 2 .. Len(s) : k \in 1 .. Len(s)
  BY <1>1, LenProperties
<1> QED
  BY <1>1, <1>4, <1>5, <1>6 DEF Makes

\* The worker that goes on does not begin to append to routesFile.
LEMMA NoGrow ==
    ASSUME TypeOK, NEW w \in Workers, calls[w] # <<>>, Shape(calls[w]),
           NEW m \in Seq(Calls), Goes(w, m), \A i \in 1 .. Len(m) : m[i].call # "grow"
    PROVE  ~At(w, "grow")'
<1>1. PICK s \in Seq(Calls) : s = calls[w]
  BY StateFacts
<1>2. PICK n : n = m \o Tail(s)
  OBVIOUS
<1>3. calls'[w] = n
  BY <1>1, <1>2, GoesOn
<1> SUFFICES ASSUME n # <<>>
             PROVE  Head(n).call # "grow"
  BY <1>3 DEF At
<1>4. n \in Seq(Calls) /\ Head(n) = n[1] /\ 1 \in 1 .. Len(n)
  <2>1. n \in Seq(Calls)
    BY <1>1, <1>2, Spliced
  <2> QED
    BY <2>1, EmptySeq, LenProperties, HeadTailProperties
<1>5. \/ 1 \in 1 .. Len(m) /\ n[1] = m[1]
      \/ /\ 1 - Len(m) + 1 \in 2 .. Len(s)
         /\ n[1] = s[1 - Len(m) + 1]
  BY <1>1, <1>2, <1>4, Spliced
<1>6. \A k \in 2 .. Len(s) : k \in 1 .. Len(s) /\ k # 1
  BY <1>1, LenProperties
<1>7. \A k \in 2 .. Len(s) : s[k].call # "grow"
  BY <1>1, <1>6 DEF Shape
<1> QED
  BY <1>4, <1>5, <1>7

LEMMA RouteKept ==
    ASSUME TypeOK, RouteInv, NEW w \in Workers,
           \A u \in Workers \ {w} : calls'[u] = calls[u] /\ page'[u] = page[u],
           routesFile' = routesFile, clashed' = clashed,
           page'[w].status \in {"rendering", "served"} =>
              /\ page[w].status \in {"rendering", "served"}
              /\ \A f \in page'[w].links : f \in page[w].links \/ Found(f)
              /\ ~At(w, "grow"),
           ~At(w, "grow")'
    PROVE  RouteInv'
<1> SUFFICES ASSUME ~clashed
             PROVE  /\ \A u \in Workers : At(u, "grow")' => Appending(u)'
                    /\ \A u \in Workers : Linked(u)'
                    /\ Distinct(routesFile)
  BY DEF RouteInv
<1>1. \A f : Found(f)' <=> Found(f)
  BY DEF Found
<1>2. \A u \in Workers \ {w} : (At(u, "grow")' <=> At(u, "grow")) /\ Callee(u)' = Callee(u)
  BY DEF At, Callee
<1>3. ASSUME NEW u \in Workers, At(u, "grow")'
      PROVE  Appending(u)'
  <2>1. u # w /\ At(u, "grow")
    BY <1>2, <1>3
  <2>2. Appending(u)
    BY <2>1 DEF RouteInv
  <2>3. \A x \in Workers : At(x, "grow")' => x = u
    BY <1>2, <2>2 DEF Appending
  <2> QED
    BY <1>1, <1>2, <2>1, <2>2, <2>3 DEF Appending
<1>4. ASSUME NEW u \in Workers
      PROVE  Linked(u)'
  <2>1. CASE u # w
    BY <1>1, <1>2, <2>1 DEF Linked, RouteInv
  <2>2. CASE u = w
    BY <1>1, <2>2 DEF Linked, RouteInv
  <2> QED
    BY <2>1, <2>2
<1> QED
  BY <1>3, <1>4 DEF RouteInv

\* An exception in one worker.
LEMMA FailsKept ==
    ASSUME IInv, NEW w \in Workers, Fails(w),
           UNCHANGED <<disk, clock, cachedTemplating, routesFile, renders, raced, overlapped,
                       clashed>>
    PROVE  IInv'
<1> USE DEF IInv
<1>1. /\ calls'[w] = <<>> /\ page'[w] = [page[w] EXCEPT !.status = "error"]
      /\ \A u \in Workers \ {w} : calls'[u] = calls[u] /\ page'[u] = page[u]
  BY DEF Fails, TypeOK
<1>2. Exempt' = Exempt
  BY DEF Exempt
<1>3. page'[w] \in Pages /\ page'[w].status = "error" /\ page'[w].file = page[w].file
      /\ page'[w].asked = page[w].asked /\ page'[w].seen = page[w].seen
  BY <1>1, StateFacts DEF Pages
<1>4. TypeOK'
  BY <1>3 DEF TypeOK, Fails
<1>5. \A u \in Workers : StackInv(u)'
  <2>1. Shape(<<>>) /\ \A C, X, p : WantsMet(C, X, p, <<>>)
    BY DEF Shape, WantsMet
  <2>2. StackInv(w)'
    BY ONLY <1>1, <2>1 DEF StackInv
  <2>3. \A u \in Workers \ {w} : StackInv(u)'
    BY <1>1, <1>2 DEF StackInv
  <2> QED
    BY <2>2, <2>3
<1>6. AloneInv'
  <2>1. \A f \in Files : ~Makes(w, f)'
    BY <1>1 DEF Makes
  <2> QED
    BY <1>1, <2>1, AloneKept
<1>7. CacheInv' /\ TimeInv'
  BY <1>2 DEF CacheInv, TimeInv
<1>8. \A u \in Workers : PageInv(u)'
  <2>1. PageInv(w)'
    BY <1>3 DEF PageInv
  <2>2. \A u \in Workers \ {w} : PageInv(u)'
    BY <1>1, <1>2, PageKept
  <2> QED
    BY <2>1, <2>2
<1>9. RouteInv'
  <2>1. ~At(w, "grow")'
    BY <1>1 DEF At
  <2> QED
    BY <1>1, <1>3, <2>1, RouteKept
<1> QED
  BY <1>4, <1>5, <1>6, <1>7, <1>8, <1>9

------------------------------------------------------------------------------
(* The calls of a worker                                                    *)

\* What a call wants is not newer than the file is now.
LEMMA WantBound ==
    ASSUME TypeOK, NEW w \in Workers, PageInv(w), NEW c \in Calls,
           CallInv(disk, raced, Exempt, cachedTemplating, page[w], c),
           NEW f \in Files, NEW v \in 0 .. MaxWrites, Wants(page[w], c, f, v)
    PROVE  v <= disk[f].version
<1>1. CASE c.call = "root" /\ f = c.file /\ v = page[w].asked
  <2>1. c.file = page[w].file
    BY <1>1 DEF CallInv
  <2> QED
    BY <1>1, <2>1 DEF PageInv
<1>2. CASE c.call = "include" /\ f = Part /\ v = page[w].seen
  BY <1>2 DEF PageInv
<1>3. CASE c.call \in {"stamp", "store"} /\ f = Part /\ v = SeenOf(c)
  BY <1>3 DEF CallInv, MakingInv, Bounded
<1> QED
  BY <1>1, <1>2, <1>3 DEF Wants

\* What is below a call wants a version no newer than the file has.
LEMMA BelowBound ==
    ASSUME IInv, NEW w \in Workers, calls[w] # <<>>, NEW i \in 2 .. Len(calls[w]),
           NEW g \in Files, NEW v \in 0 .. MaxWrites, Wants(page[w], calls[w][i], g, v)
    PROVE  v <= disk[g].version
<1> USE DEF IInv
<1>1. i \in 1 .. Len(calls[w])
  BY HeadFacts
<1>2. calls[w][i] \in Calls
  BY <1>1, StateFacts, ElementOfSeq
<1> QED
  BY <1>1, <1>2, WantBound DEF StackInv

\* A worker goes on and the disk, the cache and the times stay as they are.
LEMMA QuietKept ==
    ASSUME IInv, NEW w \in Workers, calls[w] # <<>>, NEW m \in Seq(Calls), Goes(w, m),
           UNCHANGED <<disk, clock, cachedTemplating, raced>>,
           \A f \in Files : overlapped[f] => overlapped'[f],
           \A u \in Workers \ {w} : page'[u] = page[u],
           page'[w].status = page[w].status, page'[w].file = page[w].file,
           Fits(calls[w], m),
           SameWants(page[w], page'[w], calls[w]),
           WantsMet(cachedTemplating, Exempt', page'[w], m),
           HandsOn(Exempt, cachedTemplating, Exempt', page[w], calls[w], m),
           \A i \in 1 .. Len(m) :
              CallInv(disk, raced, Exempt', cachedTemplating, page'[w], m[i]),
           \A f \in Files : \A i \in 1 .. Len(m) : Making(m[i], f) =>
              Makes(w, f) \/ overlapped'[f] \/ \A u \in Workers \ {w} : ~Makes(u, f)
    PROVE  /\ \A u \in Workers : StackInv(u)'
           /\ AloneInv' /\ CacheInv' /\ TimeInv'
           /\ \A u \in Workers \ {w} : PageInv(u)'
           /\ Exempt \subseteq Exempt'
<1> USE DEF IInv
<1>1. Exempt \subseteq Exempt'
  BY DEF Exempt
<1>2. CacheOK(cachedTemplating)
  BY StateFacts
<1>3. Newer(cachedTemplating, Exempt, cachedTemplating, Exempt')
  BY <1>1, <1>2, NewerSame
<1>4. \A u \in Workers \ {w} : \A i \in 1 .. Len(calls[u]) :
         CallInv(disk, raced, Exempt', cachedTemplating, page[u], calls[u][i])
  BY <1>1, CallKept DEF StackInv
<1>5. \A i \in 2 .. Len(calls[w]) :
         CallInv(disk, raced, Exempt', cachedTemplating, page'[w], calls[w][i])
  <2>1. \A i \in 2 .. Len(calls[w]) : i \in 1 .. Len(calls[w])
    BY HeadFacts
  <2> QED
    BY <1>1, <2>1, CallKept DEF StackInv
<1>6. \A u \in Workers : StackInv(u)'
  BY <1>2, <1>3, <1>4, <1>5, StackKept
<1>7. AloneInv'
  <2>1. \A f \in Files : Makes(w, f)' =>
           Makes(w, f) \/ overlapped'[f] \/ \A u \in Workers \ {w} : ~Makes(u, f)
    BY MakesSpliced
  <2> QED
    BY <2>1, GoesOn, AloneKept
<1>8. CacheInv'
  BY <1>1, EntryKept DEF CacheInv
<1>9. TimeInv'
  BY DEF TimeInv
<1>10. \A u \in Workers \ {w} : PageInv(u)'
  BY <1>1, GoesOn, PageKept
<1> QED
  BY <1>1, <1>6, <1>7, <1>8, <1>9, <1>10

LEMMA LookupKept ==
    ASSUME IInv, NEW w \in Workers, Lookup(w)
    PROVE  IInv'
<1> USE DEF IInv
<1>1. PICK f : f = Callee(w)
  OBVIOUS
<1>2. PICK a : a = IF f \in DOMAIN cachedTemplating
                   THEN Check(f, cachedTemplating[f].stamp) ELSE Call("open", f)
  OBVIOUS
<1>3. PICK b : b = Call("root", f)
  OBVIOUS
<1>4. PICK m : m = <<a, b>>
  OBVIOUS
<1>5. /\ calls[w] # <<>> /\ calls[w][1].call = "lookup" /\ f = calls[w][1].file /\ f \in Files
      /\ 1 \in 1 .. Len(calls[w]) /\ Len(calls[w]) \in Nat
  BY <1>1, HeadFacts DEF Lookup, At
<1>6. Goes(w, m)
  BY <1>1, <1>2, <1>3, <1>4 DEF Lookup
<1>7. /\ UNCHANGED <<disk, clock, cachedTemplating, routesFile, page, renders, raced,
                     overlapped, clashed>>
      /\ Exempt' = Exempt
  BY DEF Lookup, Exempt
<1>8. Len(calls[w]) = 1 /\ f = page[w].file
  <2>1. /\ Shape(calls[w])
        /\ CallInv(disk, raced, Exempt, cachedTemplating, page[w], calls[w][1])
    BY <1>5 DEF StackInv
  <2>2. Len(calls[w]) = 1
    BY <1>5, <2>1 DEF Shape
  <2>3. f = page[w].file
    BY <1>5, <2>1 DEF CallInv
  <2> QED
    BY <2>2, <2>3
<1>9. /\ b \in Calls /\ b.call = "root" /\ b.file = f
      /\ a \in Calls /\ a.file = f /\ a.call \in {"check", "open"}
      /\ a.call = "check" => f \in DOMAIN cachedTemplating /\ a.stamp = cachedTemplating[f].stamp
  <2>1. f \in DOMAIN cachedTemplating => cachedTemplating[f].stamp \in 1 .. MaxTime
    BY StateFacts, EntryParts DEF CacheOK
  <2> QED
    BY <1>2, <1>3, <1>5, <2>1, CallTypes
<1>10. m \in Seq(Calls) /\ Len(m) = 2 /\ m[1] = a /\ m[2] = b
  BY <1>4, <1>9, Singles
<1>11. \A i \in 1 .. Len(m) : (i = 1 /\ m[i] = a) \/ (i = 2 /\ m[i] = b)
  BY <1>10
<1>12. Fits(calls[w], m)
  BY <1>8, <1>9, <1>10, <1>11 DEF Fits, Making
<1>13. /\ SameWants(page[w], page'[w], calls[w])
       /\ HandsOn(Exempt, cachedTemplating, Exempt', page[w], calls[w], m)
  BY <1>8 DEF SameWants, HandsOn
<1>14. WantsMet(cachedTemplating, Exempt', page'[w], m)
  <2> SUFFICES ASSUME NEW i \in 1 .. Len(m), NEW g \in Files, NEW v \in 0 .. MaxWrites,
                      Wants(page'[w], m[i], g, v)
               PROVE  \E j \in 1 .. i - 1 : Brings(Exempt', m[j], g, v)
    BY DEF WantsMet
  <2>1. i = 2 /\ m[i] = b
    BY <1>9, <1>11 DEF Wants
  <2>2. g = f
    BY <1>9, <2>1 DEF Wants
  <2>3. 1 \in 1 .. i - 1 /\ Brings(Exempt', m[1], g, v)
    BY <1>9, <1>10, <2>1, <2>2 DEF Brings
  <2> QED
    BY <2>3
<1>15. CallInv(disk, raced, Exempt', cachedTemplating, page'[w], a)
  <2>1. a.call = "check" => CheckInv(disk, Exempt, cachedTemplating, a)
    <3> SUFFICES ASSUME a.call = "check"
                 PROVE  CheckInv(disk, Exempt, cachedTemplating, a)
      OBVIOUS
    <3>1. /\ f \in DOMAIN cachedTemplating /\ a.stamp = cachedTemplating[f].stamp
          /\ Honest(disk, raced, f, cachedTemplating[f])
      BY <1>9 DEF CacheInv, EntryInv
    <3>2. disk[f].time <= a.stamp =>
             Good(Exempt, f, cachedTemplating[f].version, disk[f].version)
      BY <1>5, <3>1, StateFacts DEF Honest, Good, Exempt
    <3> QED
      BY <1>9, <3>1, <3>2 DEF CheckInv, Honest
  <2> QED
    BY <1>7, <1>8, <1>9, <2>1 DEF CallInv
<1>16. CallInv(disk, raced, Exempt', cachedTemplating, page'[w], b)
  BY <1>7, <1>8, <1>9 DEF CallInv
<1>17. \A g \in Files : \A i \in 1 .. Len(m) : ~Making(m[i], g)
  BY <1>9, <1>11 DEF Making
<1>18. /\ \A u \in Workers : StackInv(u)'
       /\ AloneInv' /\ CacheInv' /\ TimeInv'
       /\ \A u \in Workers \ {w} : PageInv(u)'
  BY <1>5, <1>6, <1>7, <1>10, <1>11, <1>12, <1>13, <1>14, <1>15, <1>16, <1>17, QuietKept
<1>19. PageInv(w)'
  <2>1. Begun(calls[w]) /\ Begun(calls'[w])
    <3>1. calls'[w] = m \o Tail(calls[w])
      BY <1>6, GoesOn
    <3>2. 2 \in 1 .. Len(calls'[w]) /\ calls'[w][2] = b
      <4>1. PICK s \in Seq(Calls) : s = calls[w]
        BY StateFacts
      <4>2. PICK n : n = m \o Tail(s)
        OBVIOUS
      <4>3. s # <<>> /\ m \in Seq(Calls) /\ 2 \in 1 .. Len(m)
        BY <1>5, <1>10, <4>1
      <4>4. 2 \in 1 .. Len(n) /\ n[2] = m[2]
        BY ONLY <4>1, <4>2, <4>3, Spliced
      <4> QED
        BY <1>10, <3>1, <4>1, <4>2, <4>4
    <3> QED
      BY <1>5, <1>9, <3>2 DEF Begun
  <2> QED
    BY <1>7, <2>1 DEF PageInv
<1>20. RouteInv'
  <2>1. ~At(w, "grow")'
    BY <1>5, <1>6, <1>9, <1>10, <1>11, NoGrow DEF StackInv
  <2>2. ~At(w, "grow")
    BY DEF At, Lookup
  <2> QED
    BY <1>6, <1>7, <2>1, <2>2, GoesOn, RouteKept
<1>21. TypeOK'
  <2>1. calls' \in [Workers -> Seq(Calls)]
    BY <1>5, <1>6, <1>10, GoesType
  <2> QED
    BY <1>7, <2>1 DEF TypeOK
<1> QED
  BY <1>18, <1>19, <1>20, <1>21

\* Nothing below the head is another's root, and what is below wants what it did,
\* as long as the page keeps what it asks for.
LEMMA SameWantsKept ==
    ASSUME NEW p, NEW p2, p2.asked = p.asked, p2.seen = p.seen, NEW s
    PROVE  SameWants(p, p2, s)
BY DEF SameWants, Wants

LEMMA CheckTimeKept ==
    ASSUME IInv, NEW w \in Workers, CheckTime(w)
    PROVE  IInv'
<1> USE DEF IInv
<1>1. PICK f : f = Callee(w)
  OBVIOUS
<1>2. PICK c \in Calls : c = calls[w][1] /\ c = Head(calls[w])
  BY HeadFacts DEF CheckTime, At
<1>3. /\ calls[w] # <<>> /\ c.call = "check" /\ f = c.file /\ f \in Files
      /\ 1 \in 1 .. Len(calls[w]) /\ Len(calls[w]) \in Nat
  BY <1>1, <1>2, HeadFacts DEF CheckTime, At
<1>4. CASE Missing(f) /\ Fails(w)
  BY <1>4, FailsKept DEF CheckTime
<1>5. CASE ~(Missing(f) /\ Fails(w))
  <2>1. PICK m : m = IF disk[f].time > c.stamp THEN <<Call("open", f)>> ELSE <<>>
    OBVIOUS
  <2>2. /\ Goes(w, m)
        /\ UNCHANGED <<disk, clock, cachedTemplating, routesFile, page, renders, raced,
                       overlapped, clashed>>
        /\ Exempt' = Exempt
    BY <1>1, <1>2, <1>5, <2>1 DEF CheckTime, Exempt
  <2>3. PICK a \in Calls : a = Call("open", f) /\ a.call = "open" /\ a.file = f
    BY <1>3, CallTypes
  <2>4. /\ m \in Seq(Calls) /\ Len(m) \in {0, 1}
        /\ \A i \in 1 .. Len(m) : i = 1 /\ m[i] = a
        /\ disk[f].time > c.stamp => 1 \in 1 .. Len(m)
    <3>1. CASE disk[f].time > c.stamp
      BY <2>1, <2>3, <3>1, Singles
    <3>2. CASE ~(disk[f].time > c.stamp)
      BY <2>1, <3>2
    <3> QED
      BY <3>1, <3>2
  <2>5. Generates(calls[w][1], f)
    BY <1>2, <1>3 DEF Generates
  <2>6. Fits(calls[w], m)
    BY <1>3, <2>3, <2>4, <2>5 DEF Fits, Making, Generates
  <2>7. SameWants(page[w], page'[w], calls[w])
    BY <2>2, SameWantsKept
  <2>8. WantsMet(cachedTemplating, Exempt', page'[w], m)
    BY <2>3, <2>4 DEF WantsMet, Wants
  <2>9. HandsOn(Exempt, cachedTemplating, Exempt', page[w], calls[w], m)
    <3> SUFFICES ASSUME NEW i \in 2 .. Len(calls[w]), NEW g \in Files,
                        NEW v \in 0 .. MaxWrites,
                        Wants(page[w], calls[w][i], g, v), Brings(Exempt, calls[w][1], g, v)
                 PROVE  \/ InCache(cachedTemplating, Exempt, g, v)
                        \/ \E j \in 1 .. Len(m) : Brings(Exempt, m[j], g, v)
      BY <2>2 DEF HandsOn
    <3>1. g = f
      BY <1>2, <1>3 DEF Brings, Making
    <3>2. CASE disk[f].time > c.stamp
      BY <2>3, <2>4, <3>1, <3>2 DEF Brings
    <3>3. CASE ~(disk[f].time > c.stamp)
      <4>1. v <= disk[g].version
        BY <1>3, BelowBound
      <4>2. CheckInv(disk, Exempt, cachedTemplating, c)
        BY <1>2, <1>3 DEF StackInv, CallInv
      <4>3. disk[f].time <= c.stamp
        BY <1>3, <3>3, StateFacts, CallParts
      <4>4. f \in DOMAIN cachedTemplating
            /\ Good(Exempt, f, cachedTemplating[f].version, disk[f].version)
        BY <1>3, <4>2, <4>3 DEF CheckInv
      <4>5. cachedTemplating[f].version \in Nat /\ disk[f].version \in Nat /\ v \in Nat
        BY <1>3, <4>4, StateFacts, EntryParts, Facts DEF CacheOK
      <4> QED
        BY <3>1, <4>1, <4>4, <4>5 DEF InCache, Good
    <3> QED
      BY <3>2, <3>3
  <2>10. \A i \in 1 .. Len(m) :
            CallInv(disk, raced, Exempt', cachedTemplating, page'[w], m[i])
    BY <2>3, <2>4 DEF CallInv
  <2>11. \A g \in Files : \A i \in 1 .. Len(m) : ~Making(m[i], g)
    BY <2>3, <2>4 DEF Making
  <2>12. /\ \A u \in Workers : StackInv(u)'
         /\ AloneInv' /\ CacheInv' /\ TimeInv'
         /\ \A u \in Workers \ {w} : PageInv(u)'
    BY <1>3, <2>2, <2>4, <2>6, <2>7, <2>8, <2>9, <2>10, <2>11, QuietKept
  <2>13. PageInv(w)'
    BY <1>2, <1>3, <2>2, <2>3, <2>4, PageGoes
  <2>14. RouteInv'
    <3>1. ~At(w, "grow")'
      BY <1>3, <2>2, <2>3, <2>4, NoGrow DEF StackInv
    <3>2. ~At(w, "grow")
      BY <1>2, <1>3 DEF At
    <3> QED
      BY <2>2, <3>1, <3>2, GoesOn, RouteKept
  <2>15. TypeOK'
    <3>1. calls' \in [Workers -> Seq(Calls)]
      BY <1>3, <2>2, <2>4, GoesType
    <3> QED
      BY <2>2, <3>1 DEF TypeOK
  <2> QED
    BY <2>12, <2>13, <2>14, <2>15
<1> QED
  BY <1>4, <1>5

LEMMA OpenFileKept ==
    ASSUME IInv, NEW w \in Workers, OpenFile(w)
    PROVE  IInv'
<1> USE DEF IInv
<1>1. PICK f : f = Callee(w)
  OBVIOUS
<1>2. PICK c \in Calls : c = calls[w][1] /\ c = Head(calls[w])
  BY HeadFacts DEF OpenFile, At
<1>3. /\ calls[w] # <<>> /\ c.call = "open" /\ f = c.file /\ f \in Files
      /\ 1 \in 1 .. Len(calls[w]) /\ Len(calls[w]) \in Nat
  BY <1>1, <1>2, HeadFacts DEF OpenFile, At
<1>4. CASE Missing(f) /\ Fails(w) /\ UNCHANGED overlapped
  BY <1>4, FailsKept DEF OpenFile
<1>5. CASE ~(Missing(f) /\ Fails(w) /\ UNCHANGED overlapped)
  <2>1. PICK v \in Versions : v = disk[f].version
    BY <1>3, StateFacts
  <2>2. PICK n \in 0 .. MaxWrites : n = disk[Part].version
    BY StateFacts, Facts DEF Versions
  <2>3. PICK m : m = Generating(f, v, n)
    OBVIOUS
  <2>4. /\ Goes(w, m)
        /\ UNCHANGED <<disk, clock, cachedTemplating, routesFile, page, renders, raced, clashed>>
        /\ overlapped' = [overlapped EXCEPT ![f] = @ \/ \E u \in Workers \ {w} :
              \E i \in DOMAIN calls[u] :
                 calls[u][i].call \in {"stamp", "store"} /\ calls[u][i].file = f]
    BY <1>1, <1>5, <2>1, <2>2, <2>3 DEF OpenFile, Generating
  <2>5. /\ overlapped' \in [Files -> BOOLEAN]
        /\ \A g \in Files : overlapped[g] => overlapped'[g]
        /\ overlapped'[f] \/ \A u \in Workers \ {w} : ~Makes(u, f)
    <3>1. \A u \in Workers : DOMAIN calls[u] = 1 .. Len(calls[u])
      BY StateFacts, LenProperties
    <3>2. \A u \in Workers : Makes(u, f) <=> \E i \in DOMAIN calls[u] :
             calls[u][i].call \in {"stamp", "store"} /\ calls[u][i].file = f
      BY <3>1 DEF Makes, Making
    <3>3. overlapped' = [overlapped EXCEPT ![f] = @ \/ \E u \in Workers \ {w} : Makes(u, f)]
      BY <2>4, <3>2
    <3> QED
      BY <1>3, <3>3 DEF TypeOK
  <2>6. PICK a \in Calls : a = Call("open", Part) /\ a.call = "open" /\ a.file = Part
    BY CallTypes, Facts
  <2>7. PICK t \in Calls : t = Call("throw", f) /\ t.call = "throw" /\ t.file = f
    BY <1>3, CallTypes
  <2>8. PICK b \in Calls : /\ b = Stamp(f, v, n) /\ b.call = "stamp" /\ b.file = f
                           /\ b.version = v /\ b.seen = n
    BY <1>3, CallTypes
  <2>9. /\ m \in Seq(Calls) /\ Len(m) \in Nat \ {0} /\ m[Len(m)] = b
        /\ \A i \in 1 .. Len(m) - 1 : (m[i] = a /\ Reads(f, v) > 0) \/ m[i] = t
        /\ Reads(f, v) > 0 => Len(m) > 1 /\ m[1] = a
    <3>1. /\ m \in Seq(Calls) /\ Len(m) \in Nat \ {0}
          /\ m[Len(m)] = Stamp(f, v, n)
          /\ \A i \in 1 .. Len(m) - 1 :
                (m[i] = Call("open", Part) /\ Reads(f, v) > 0) \/ m[i] = Call("throw", f)
          /\ Reads(f, v) > 0 => Len(m) > 1 /\ m[1] = Call("open", Part)
      BY <1>3, <2>3, Parsing
    <3> QED
      BY <2>6, <2>7, <2>8, <3>1
  <2>10. \A i \in 1 .. Len(m) :
            \/ i < Len(m) /\ m[i] = a /\ Reads(f, v) > 0
            \/ i < Len(m) /\ m[i] = t
            \/ i = Len(m) /\ m[i] = b
    BY <2>9
  <2>11. Reads(f, v) > 0 => f # Part
    BY <1>3, TextFacts
  <2>12. Generates(calls[w][1], f)
    BY <1>2, <1>3 DEF Generates
  <2>13. Fits(calls[w], m)
    <3>1. ASSUME NEW i \in 1 .. Len(m), NEW g \in Files, Generates(m[i], g)
          PROVE  g \in {f, Part}
      BY <2>6, <2>7, <2>8, <2>10, <3>1 DEF Generates
    <3>2. ASSUME NEW i \in 1 .. Len(m), NEW j \in 1 .. Len(m), NEW g \in Files, NEW h \in Files,
                 j < i, Generates(m[j], g), Making(m[i], h)
          PROVE  g = Part /\ h # Part
      <4>1. i = Len(m) /\ h = f
        BY <2>6, <2>7, <2>8, <2>10, <3>2 DEF Making
      <4>2. j < Len(m)
        BY <3>2, <4>1
      <4>3. m[j] = a /\ Reads(f, v) > 0
        BY <2>7, <2>10, <3>2, <4>2 DEF Generates
      <4> QED
        BY <2>6, <2>11, <3>2, <4>1, <4>3 DEF Generates
    <3>3. \A i \in 1 .. Len(m) : m[i].call \in {"open", "throw", "stamp"}
      BY <2>6, <2>7, <2>8, <2>10
    <3> QED
      BY <1>3, <2>12, <3>1, <3>2, <3>3 DEF Fits
  <2>14. SameWants(page[w], page'[w], calls[w])
    BY <2>4, SameWantsKept
  <2>15. WantsMet(cachedTemplating, Exempt', page'[w], m)
    <3> SUFFICES ASSUME NEW i \in 1 .. Len(m), NEW g \in Files, NEW x \in 0 .. MaxWrites,
                        Wants(page'[w], m[i], g, x)
                 PROVE  \E j \in 1 .. i - 1 : Brings(Exempt', m[j], g, x)
      BY DEF WantsMet
    <3>1. i = Len(m) /\ m[i] = b
      BY <2>6, <2>7, <2>10 DEF Wants
    <3>2. g = Part /\ Reads(f, v) > 0
      BY <2>8, <3>1 DEF Wants, VersionOf
    <3>3. 1 \in 1 .. i - 1 /\ Brings(Exempt', m[1], g, x)
      BY <2>6, <2>9, <3>1, <3>2 DEF Brings
    <3> QED
      BY <3>3
  <2>16. HandsOn(Exempt, cachedTemplating, Exempt', page[w], calls[w], m)
    <3> SUFFICES ASSUME NEW i \in 2 .. Len(calls[w]), NEW g \in Files,
                        NEW x \in 0 .. MaxWrites,
                        Wants(page[w], calls[w][i], g, x), Brings(Exempt, calls[w][1], g, x)
                 PROVE  \E j \in 1 .. Len(m) : Brings(Exempt', m[j], g, x)
      BY DEF HandsOn
    <3>1. g = f
      BY <1>2, <1>3 DEF Brings, Making
    <3>2. x <= v
      BY <1>3, <2>1, <3>1, BelowBound
    <3>3. v \in Nat /\ x \in Nat
      BY Facts DEF Versions
    <3>4. Brings(Exempt', b, g, x)
      BY <2>8, <3>1, <3>2, <3>3 DEF Brings, Making, Good, VersionOf
    <3>5. Len(m) \in 1 .. Len(m) /\ m[Len(m)] = b
      BY <2>9
    <3> QED
      BY <3>4, <3>5
  <2>17. \A i \in 1 .. Len(m) :
            CallInv(disk, raced, Exempt', cachedTemplating, page'[w], m[i])
    <3>1. /\ CallInv(disk, raced, Exempt', cachedTemplating, page'[w], a)
          /\ CallInv(disk, raced, Exempt', cachedTemplating, page'[w], t)
      BY <2>6, <2>7 DEF CallInv
    <3>2. Bounded(disk, f, v, n)
      BY <1>3, <2>1, <2>2, StateFacts, Facts DEF Bounded
    <3>3. f \in DOMAIN cachedTemplating => Good(Exempt', f, v, cachedTemplating[f].version)
      <4> SUFFICES ASSUME f \in DOMAIN cachedTemplating
                   PROVE  v >= cachedTemplating[f].version
        BY DEF Good
      <4>1. cachedTemplating[f].version <= v
        BY <2>1 DEF CacheInv, EntryInv, Bounded
      <4>2. cachedTemplating[f].version \in Nat /\ v \in Nat
        BY StateFacts, EntryParts, Facts DEF CacheOK, Versions
      <4> QED
        BY <4>1, <4>2
    <3>4. MakingInv(disk, Exempt', cachedTemplating, b)
      BY <2>8, <3>2, <3>3 DEF MakingInv, VersionOf, SeenOf
    <3>5. CallInv(disk, raced, Exempt', cachedTemplating, page'[w], b)
      BY <2>1, <2>8, <3>4 DEF CallInv
    <3> QED
      BY <2>10, <3>1, <3>5
  <2>18. \A g \in Files : \A i \in 1 .. Len(m) : Making(m[i], g) =>
            Makes(w, g) \/ overlapped'[g] \/ \A u \in Workers \ {w} : ~Makes(u, g)
    <3>1. \A g \in Files : \A i \in 1 .. Len(m) : Making(m[i], g) => g = f
      BY <2>6, <2>7, <2>8, <2>10 DEF Making
    <3> QED
      BY <2>5, <3>1
  <2>19. /\ \A u \in Workers : StackInv(u)'
         /\ AloneInv' /\ CacheInv' /\ TimeInv'
         /\ \A u \in Workers \ {w} : PageInv(u)'
         /\ Exempt \subseteq Exempt'
    BY <1>3, <2>4, <2>5, <2>9, <2>13, <2>14, <2>15, <2>16, <2>17, <2>18, QuietKept
  <2>20. PageInv(w)'
    <3>1. \A i \in 1 .. Len(m) : m[i].call \notin {"lookup", "root"}
      BY <2>6, <2>7, <2>8, <2>10
    <3> QED
      BY <1>2, <1>3, <2>4, <2>9, <2>19, <3>1, PageGoes
  <2>21. RouteInv'
    <3>1. ~At(w, "grow")'
      <4>1. \A i \in 1 .. Len(m) : m[i].call # "grow"
        BY <2>6, <2>7, <2>8, <2>10
      <4> QED
        BY <1>3, <2>4, <2>9, <4>1, NoGrow DEF StackInv
    <3>2. ~At(w, "grow")
      BY <1>2, <1>3 DEF At
    <3> QED
      BY <2>4, <3>1, <3>2, GoesOn, RouteKept
  <2>22. TypeOK'
    <3>1. calls' \in [Workers -> Seq(Calls)]
      BY <1>3, <2>4, <2>9, GoesType
    <3> QED
      BY <2>4, <2>5, <3>1 DEF TypeOK
  <2> QED
    BY <2>19, <2>20, <2>21, <2>22
<1> QED
  BY <1>4, <1>5

LEMMA StampFileKept ==
    ASSUME IInv, NEW w \in Workers, StampFile(w)
    PROVE  IInv'
<1> USE DEF IInv
<1>1. PICK f : f = Callee(w)
  OBVIOUS
<1>2. PICK c \in Calls : c = calls[w][1] /\ c = Head(calls[w])
  BY HeadFacts DEF StampFile, At
<1>3. /\ calls[w] # <<>> /\ c.call = "stamp" /\ f = c.file /\ f \in Files
      /\ 1 \in 1 .. Len(calls[w]) /\ Len(calls[w]) \in Nat
  BY <1>1, <1>2, HeadFacts DEF StampFile, At
<1>4. CASE Missing(f) /\ Fails(w)
  BY <1>4, FailsKept DEF StampFile
<1>5. CASE ~(Missing(f) /\ Fails(w))
  <2>1. PICK e : e = [version |-> c.version, stamp |-> disk[f].time, seen |-> c.seen]
    OBVIOUS
  <2>2. /\ e \in Entries /\ e.version = c.version /\ e.stamp = disk[f].time
        /\ e.seen = c.seen
    <3>1. c.version \in Versions /\ c.seen \in 0 .. MaxWrites /\ disk[f].time \in 1 .. MaxTime
      BY <1>3, CallParts, StateFacts
    <3> QED
      BY <2>1, <3>1 DEF Entries
  <2>3. PICK a \in Calls : a = Store(f, e) /\ a.call = "store" /\ a.file = f /\ a.entry = e
    BY <1>3, <2>2, CallTypes
  <2>4. PICK m : m = <<a>>
    OBVIOUS
  <2>5. /\ Goes(w, m)
        /\ UNCHANGED <<disk, clock, cachedTemplating, routesFile, page, renders, raced,
                       overlapped, clashed>>
        /\ Exempt' = Exempt
    BY <1>1, <1>2, <1>5, <2>1, <2>3, <2>4 DEF StampFile, TimeOf, Exempt
  <2>6. m \in Seq(Calls) /\ Len(m) = 1 /\ m[1] = a
    BY <2>4, Singles
  <2>7. \A i \in 1 .. Len(m) : i = 1 /\ m[i] = a
    BY <2>6
  <2>8. VersionOf(a) = VersionOf(c) /\ SeenOf(a) = SeenOf(c)
    BY <1>3, <2>2, <2>3 DEF VersionOf, SeenOf
  <2>9. Fits(calls[w], m)
    <3>1. Generates(calls[w][1], f)
      BY <1>2, <1>3 DEF Generates
    <3> QED
      BY <1>3, <2>3, <2>7, <3>1 DEF Fits, Generates
  <2>10. SameWants(page[w], page'[w], calls[w])
    BY <2>5, SameWantsKept
  <2>11. WantsMet(cachedTemplating, Exempt', page'[w], m)
    <3> SUFFICES ASSUME NEW g \in Files, NEW x \in 0 .. MaxWrites, Wants(page[w], a, g, x)
                 PROVE  InCache(cachedTemplating, Exempt, g, x)
      BY <2>5, <2>7 DEF WantsMet
    <3>1. Wants(page[w], c, g, x)
      BY <1>3, <2>3, <2>8 DEF Wants
    <3>2. WantsMet(cachedTemplating, Exempt, page[w], calls[w])
      BY DEF StackInv
    <3>3. InCache(cachedTemplating, Exempt, g, x)
             \/ \E j \in 1 .. 1 - 1 : Brings(Exempt, calls[w][j], g, x)
      BY <1>2, <1>3, <3>1, <3>2 DEF WantsMet
    <3> QED
      BY <3>3
  <2>12. HandsOn(Exempt, cachedTemplating, Exempt', page[w], calls[w], m)
    <3>1. \A g, x : Brings(Exempt, c, g, x) => Brings(Exempt, a, g, x)
      BY <1>3, <2>3, <2>8 DEF Brings, Making
    <3> QED
      BY <1>2, <2>5, <2>6, <3>1 DEF HandsOn
  <2>13. CallInv(disk, raced, Exempt', cachedTemplating, page'[w], a)
    <3>1. CallInv(disk, raced, Exempt, cachedTemplating, page[w], c)
      BY <1>2, <1>3 DEF StackInv
    <3>2. Honest(disk, raced, f, e)
      BY <1>3, <2>2, <3>1, StateFacts DEF CallInv, Honest
    <3>3. MakingInv(disk, Exempt, cachedTemplating, a)
      BY <1>3, <2>3, <2>8, <3>1 DEF CallInv, MakingInv
    <3> QED
      BY <2>3, <2>5, <3>2, <3>3 DEF CallInv
  <2>14. \A g \in Files : Making(a, g) => Makes(w, g)
    BY <1>2, <1>3, <2>3 DEF Making, Makes
  <2>15. /\ \A u \in Workers : StackInv(u)'
         /\ AloneInv' /\ CacheInv' /\ TimeInv'
         /\ \A u \in Workers \ {w} : PageInv(u)'
    BY <1>3, <2>5, <2>6, <2>7, <2>9, <2>10, <2>11, <2>12, <2>13, <2>14, QuietKept
  <2>16. PageInv(w)'
    BY <1>2, <1>3, <2>3, <2>5, <2>6, <2>7, PageGoes
  <2>17. RouteInv'
    <3>1. ~At(w, "grow")'
      BY <1>3, <2>3, <2>5, <2>6, <2>7, NoGrow DEF StackInv
    <3>2. ~At(w, "grow")
      BY <1>2, <1>3 DEF At
    <3> QED
      BY <2>5, <3>1, <3>2, GoesOn, RouteKept
  <2>18. TypeOK'
    <3>1. calls' \in [Workers -> Seq(Calls)]
      BY <1>3, <2>5, <2>6, GoesType
    <3> QED
      BY <2>5, <3>1 DEF TypeOK
  <2> QED
    BY <2>15, <2>16, <2>17, <2>18
<1> QED
  BY <1>4, <1>5

LEMMA StoreFileKept ==
    ASSUME IInv, NEW w \in Workers, StoreFile(w)
    PROVE  IInv'
<1> USE DEF IInv
<1>1. PICK f : f = Callee(w)
  OBVIOUS
<1>2. PICK c \in Calls : c = calls[w][1] /\ c = Head(calls[w])
  BY HeadFacts DEF StoreFile, At
<1>3. /\ calls[w] # <<>> /\ c.call = "store" /\ f = c.file /\ f \in Files
      /\ 1 \in 1 .. Len(calls[w]) /\ Len(calls[w]) \in Nat
  BY <1>1, <1>2, HeadFacts DEF StoreFile, At
<1>4. PICK e \in Entries : e = c.entry
  BY <1>3, CallParts
<1>5. PICK C : C = cachedTemplating'
  OBVIOUS
<1>6. /\ DOMAIN C = DOMAIN cachedTemplating \cup {f}
      /\ C[f] = e
      /\ \A g \in DOMAIN cachedTemplating : g # f => C[g] = cachedTemplating[g]
  BY <1>1, <1>2, <1>4, <1>5 DEF StoreFile
<1>7. PICK m : m = <<>>
  OBVIOUS
<1>8. m \in Seq(Calls) /\ Len(m) = 0 /\ 1 .. Len(m) = {}
  BY <1>7
<1>9. /\ Goes(w, m)
      /\ UNCHANGED <<disk, clock, routesFile, page, renders, raced, overlapped, clashed>>
      /\ Exempt' = Exempt
  BY <1>7 DEF StoreFile, Exempt
<1>10. CacheOK(cachedTemplating) /\ CacheOK(C)
  BY <1>3, <1>6, StateFacts DEF CacheOK
<1>11. /\ e.version \in Nat /\ e.seen \in Nat /\ e.seen \in 0 .. MaxWrites
       /\ VersionOf(c) = e.version /\ SeenOf(c) = e.seen
       /\ \A g \in DOMAIN cachedTemplating : cachedTemplating[g].version \in Nat
       /\ \A g \in DOMAIN cachedTemplating : cachedTemplating[g].seen \in Nat
  BY <1>3, <1>4, <1>10, EntryParts DEF VersionOf, SeenOf, CacheOK
<1>12. CallInv(disk, raced, Exempt, cachedTemplating, page[w], c)
  BY <1>2, <1>3 DEF StackInv
<1>13. /\ Honest(disk, raced, f, e) /\ Bounded(disk, f, e.version, e.seen)
       /\ f \in DOMAIN cachedTemplating =>
             Good(Exempt, f, e.version, cachedTemplating[f].version)
  BY <1>3, <1>4, <1>11, <1>12 DEF CallInv, MakingInv
<1>14. Newer(cachedTemplating, Exempt, C, Exempt)
  BY <1>6, <1>11, <1>13 DEF Newer, Good
<1>15. Reads(f, e.version) > 0 => InCache(C, Exempt, Part, e.seen)
  <2> SUFFICES ASSUME Reads(f, e.version) > 0
               PROVE  InCache(cachedTemplating, Exempt, Part, e.seen)
    BY <1>10, <1>11, <1>14, InCacheKept
  <2>1. Wants(page[w], calls[w][1], Part, e.seen)
    BY <1>2, <1>3, <1>11 DEF Wants
  <2>2. WantsMet(cachedTemplating, Exempt, page[w], calls[w])
    BY DEF StackInv
  <2>3. InCache(cachedTemplating, Exempt, Part, e.seen)
           \/ \E j \in 1 .. 1 - 1 : Brings(Exempt, calls[w][j], Part, e.seen)
    BY <1>3, <1>11, <2>1, <2>2, Facts DEF WantsMet
  <2> QED
    BY <2>3
<1>16. CacheInv'
  <2> SUFFICES ASSUME NEW g \in DOMAIN C
               PROVE  EntryInv(disk, raced, Exempt, C, g)
    BY <1>5, <1>9 DEF CacheInv
  <2>1. CASE g = f
    BY <1>6, <1>13, <1>15, <2>1 DEF EntryInv
  <2>2. CASE g # f
    <3>1. g \in DOMAIN cachedTemplating /\ C[g] = cachedTemplating[g]
      BY <1>6, <2>2
    <3>2. EntryInv(disk, raced, Exempt, cachedTemplating, g)
      BY <3>1 DEF CacheInv
    <3>3. Reads(g, C[g].version) > 0 => InCache(C, Exempt, Part, C[g].seen)
      BY <1>10, <1>11, <1>14, <3>1, <3>2, InCacheKept DEF EntryInv
    <3> QED
      BY <3>1, <3>2, <3>3 DEF EntryInv
  <2> QED
    BY <2>1, <2>2
\* A call of another worker, or another call of this one, keeps what it knows.
<1>17. ASSUME NEW u \in Workers, NEW i \in 1 .. Len(calls[u]), u # w \/ i # 1
       PROVE  CallInv(disk, raced, Exempt, C, page[u], calls[u][i])
  <2>1. PICK d \in Calls : d = calls[u][i]
    BY StateFacts, ElementOfSeq
  <2>2. CallInv(disk, raced, Exempt, cachedTemplating, page[u], d)
    BY <2>1 DEF StackInv
  <2>3. d.file \in Files
    BY CallParts
  <2>4. d.call = "check" => CheckInv(disk, Exempt, C, d)
    <3> SUFFICES ASSUME d.call = "check"
                 PROVE  CheckInv(disk, Exempt, C, d)
      OBVIOUS
    <3>1. CheckInv(disk, Exempt, cachedTemplating, d)
      BY <2>2 DEF CallInv
    <3>2. d.file \in DOMAIN cachedTemplating /\ d.file \in DOMAIN C
      BY <1>6, <3>1 DEF CheckInv
    <3>3. ASSUME Good(Exempt, d.file, cachedTemplating[d.file].version, disk[d.file].version)
          PROVE  Good(Exempt, d.file, C[d.file].version, disk[d.file].version)
      <4>1. Good(Exempt, d.file, C[d.file].version, cachedTemplating[d.file].version)
        BY <1>14, <3>2 DEF Newer
      <4>2. /\ C[d.file].version \in Nat /\ cachedTemplating[d.file].version \in Nat
            /\ disk[d.file].version \in Nat
        BY <1>6, <1>11, <2>3, <3>2, StateFacts
      <4> QED
        BY <3>3, <4>1, <4>2, GoodTransitive
    <3> QED
      BY <3>1, <3>2, <3>3 DEF CheckInv
  <2>5. d.call \in {"stamp", "store"} => MakingInv(disk, Exempt, C, d)
    <3> SUFFICES ASSUME d.call \in {"stamp", "store"}
                 PROVE  MakingInv(disk, Exempt, C, d)
      OBVIOUS
    <3>1. MakingInv(disk, Exempt, cachedTemplating, d)
      BY <2>2 DEF CallInv
    <3>2. d.file = f => f \in Exempt
      <4> SUFFICES ASSUME d.file = f
                   PROVE  f \in Exempt
        OBVIOUS
      <4>1. Making(c, f) /\ Making(d, f) /\ Generates(c, f)
        BY <1>3 DEF Making, Generates
      <4>2. CASE u = w
        <5>1. Shape(calls[w]) /\ i \in 1 .. Len(calls[w]) /\ 1 < i
          BY <1>17, <4>2 DEF StackInv
        <5>2. f = Part /\ f # Part
          BY <1>2, <1>3, <2>1, <4>1, <4>2, <5>1 DEF Shape
        <5> QED
          BY <5>2
      <4>3. CASE u # w
        <5>1. Makes(u, f) /\ Makes(w, f)
          BY <1>2, <1>3, <2>1, <4>1 DEF Makes
        <5> QED
          BY <1>3, <4>3, <5>1 DEF AloneInv, Exempt
      <4> QED
        BY <4>2, <4>3
    <3>3. d.file \in DOMAIN C => Good(Exempt, d.file, VersionOf(d), C[d.file].version)
      BY <1>6, <3>1, <3>2 DEF MakingInv, Good
    <3> QED
      BY <3>1, <3>3 DEF MakingInv
  <2> QED
    BY <2>1, <2>2, <2>4, <2>5 DEF CallInv
<1>18. HandsOn(Exempt, C, Exempt, page[w], calls[w], m)
  <2>1. \A g, x : Brings(Exempt, c, g, x) => InCache(C, Exempt, g, x)
    BY <1>3, <1>6, <1>11 DEF Brings, Making, InCache
  <2> QED
    BY <1>2, <2>1 DEF HandsOn
<1>19. \A u \in Workers : StackInv(u)'
  <2>1. Fits(calls[w], m)
    BY <1>8 DEF Fits
  <2>2. SameWants(page[w], page'[w], calls[w])
    BY <1>9, SameWantsKept
  <2>3. WantsMet(C, Exempt, page'[w], m)
    BY <1>8 DEF WantsMet
  <2>4. \A i \in 2 .. Len(calls[w]) : i \in 1 .. Len(calls[w]) /\ i # 1
    BY <1>3
  <2>5. \A i \in 2 .. Len(calls[w]) :
           CallInv(disk, raced, Exempt, C, page[w], calls[w][i])
    BY <1>17, <2>4
  <2>6. \A u \in Workers \ {w} : \A i \in 1 .. Len(calls[u]) :
           CallInv(disk, raced, Exempt, C, page[u], calls[u][i])
    BY <1>17
  <2> QED
    BY <1>3, <1>5, <1>8, <1>9, <1>10, <1>14, <1>18, <2>1, <2>2, <2>3, <2>5, <2>6, StackKept
<1>20. AloneInv'
  <2>1. \A g \in Files : Makes(w, g)' => Makes(w, g)
    BY <1>3, <1>8, <1>9, MakesSpliced
  <2> QED
    BY <1>9, <2>1, GoesOn, AloneKept
<1>21. TimeInv'
  BY <1>9 DEF TimeInv
<1>22. \A u \in Workers : PageInv(u)'
  <2>1. PageInv(w)'
    BY <1>2, <1>3, <1>8, <1>9, PageGoes
  <2>2. \A u \in Workers \ {w} : PageInv(u)'
    BY <1>9, GoesOn, PageKept
  <2> QED
    BY <2>1, <2>2
<1>23. RouteInv'
  <2>1. ~At(w, "grow")'
    BY <1>3, <1>8, <1>9, NoGrow DEF StackInv
  <2>2. ~At(w, "grow")
    BY <1>2, <1>3 DEF At
  <2> QED
    BY <1>9, <2>1, <2>2, GoesOn, RouteKept
<1>24. TypeOK'
  <2>1. calls' \in [Workers -> Seq(Calls)]
    BY <1>3, <1>8, <1>9, GoesType
  <2> QED
    BY <1>5, <1>9, <1>10, <2>1 DEF TypeOK, CacheOK
<1> QED
  BY <1>16, <1>19, <1>20, <1>21, <1>22, <1>23, <1>24

LEMMA TakeRootKept ==
    ASSUME IInv, NEW w \in Workers, TakeRoot(w)
    PROVE  IInv'
<1> USE DEF IInv
<1>1. PICK f : f = Callee(w)
  OBVIOUS
<1>2. PICK c \in Calls : c = calls[w][1] /\ c = Head(calls[w])
  BY HeadFacts DEF TakeRoot, At
<1>3. /\ calls[w] # <<>> /\ c.call = "root" /\ f = c.file /\ f \in Files
      /\ 1 \in 1 .. Len(calls[w]) /\ Len(calls[w]) \in Nat
  BY <1>1, <1>2, HeadFacts DEF TakeRoot, At
<1>4. Len(calls[w]) = 1 /\ f = page[w].file /\ page[w].status = "rendering"
  <2>1. /\ Shape(calls[w]) /\ page[w].status = "rendering"
        /\ CallInv(disk, raced, Exempt, cachedTemplating, page[w], c)
    BY <1>2, <1>3 DEF StackInv
  <2>2. Len(calls[w]) = 1
    BY <1>2, <1>3, <2>1 DEF Shape
  <2>3. f = page[w].file
    BY <1>3, <2>1 DEF CallInv
  <2> QED
    BY <2>1, <2>2, <2>3
<1>5. InCache(cachedTemplating, Exempt, f, page[w].asked)
  <2>1. Wants(page[w], calls[w][1], f, page[w].asked)
    BY <1>2, <1>3 DEF Wants
  <2>2. WantsMet(cachedTemplating, Exempt, page[w], calls[w])
    BY DEF StackInv
  <2>3. page[w].asked \in 0 .. MaxWrites
    BY StateFacts
  <2>4. InCache(cachedTemplating, Exempt, f, page[w].asked)
           \/ \E j \in 1 .. 1 - 1 : Brings(Exempt, calls[w][j], f, page[w].asked)
    BY <1>3, <2>1, <2>2, <2>3 DEF WantsMet
  <2> QED
    BY <2>4
<1>6. PICK e \in Entries : e = cachedTemplating[f] /\ f \in DOMAIN cachedTemplating
  BY <1>5, StateFacts DEF InCache, CacheOK
<1>7. PICK v \in Versions : v = e.version
  BY EntryParts
<1>8. PICK m : m = RenderCalls(f, v)
  OBVIOUS
<1>9. /\ Goes(w, m)
      /\ page' = [page EXCEPT ![w].root = v, ![w].seen = e.seen]
      /\ UNCHANGED <<disk, clock, cachedTemplating, routesFile, renders, raced, overlapped,
                     clashed>>
      /\ Exempt' = Exempt
  BY <1>1, <1>6, <1>7, <1>8 DEF TakeRoot, Exempt
<1>10. PICK p : p = [page[w] EXCEPT !.root = v, !.seen = e.seen]
  OBVIOUS
<1>11. page'[w] = p /\ \A u \in Workers \ {w} : page'[u] = page[u]
  BY <1>9, <1>10 DEF TypeOK
<1>12. /\ p \in Pages /\ p.file = page[w].file /\ p.status = page[w].status
       /\ p.asked = page[w].asked /\ p.root = v /\ p.seen = e.seen /\ p.part = page[w].part
       /\ p.links = page[w].links
  <2>1. page[w] \in Pages /\ v \in 0 .. MaxWrites /\ e.seen \in 0 .. MaxWrites
    BY StateFacts, EntryParts DEF Versions
  <2> QED
    BY <1>10, <2>1 DEF Pages
<1>13. PICK a \in Calls : a = Call("include", f) /\ a.call = "include" /\ a.file = f
  BY <1>3, CallTypes
<1>14. PICK b \in Calls : b = Call("link", f) /\ b.call = "link" /\ b.file = f
  BY <1>3, CallTypes
<1>15. PICK t \in Calls : t = Call("throw", f) /\ t.call = "throw" /\ t.file = f
  BY <1>3, CallTypes
<1>16. /\ m \in Seq(Calls) /\ Len(m) \in Nat
       /\ \A i \in 1 .. Len(m) : (m[i] = a /\ Reads(f, v) > 0) \/ m[i] = b \/ m[i] = t
  <2>1. /\ m \in Seq(Calls) /\ Len(m) \in Nat
        /\ \A i \in 1 .. Len(m) :
              \/ m[i] = Call("include", f) /\ Reads(f, v) > 0
              \/ m[i] = Call("link", f)
              \/ m[i] = Call("throw", f)
    BY <1>3, <1>8, Rendering
  <2> QED
    BY <1>13, <1>14, <1>15, <2>1
<1>17. \A i \in 1 .. Len(m) : m[i].call \in {"include", "link", "throw"}
  BY <1>13, <1>14, <1>15, <1>16
<1>18. Fits(calls[w], m)
  BY <1>4, <1>17 DEF Fits, Making
<1>19. /\ SameWants(page[w], page'[w], calls[w])
       /\ HandsOn(Exempt, cachedTemplating, Exempt', page[w], calls[w], m)
  BY <1>4 DEF SameWants, HandsOn
<1>20. WantsMet(cachedTemplating, Exempt', page'[w], m)
  <2> SUFFICES ASSUME NEW i \in 1 .. Len(m), NEW g \in Files, NEW x \in 0 .. MaxWrites,
                      Wants(p, m[i], g, x)
               PROVE  InCache(cachedTemplating, Exempt, g, x)
    BY <1>9, <1>11 DEF WantsMet
  <2>1. m[i] = a /\ Reads(f, v) > 0
    BY <1>14, <1>15, <1>16 DEF Wants
  <2>2. g = Part /\ x = e.seen
    BY <1>12, <1>13, <2>1 DEF Wants
  <2>3. InCache(cachedTemplating, Exempt, Part, e.seen)
    BY <1>6, <1>7, <2>1 DEF CacheInv, EntryInv
  <2> QED
    BY <2>2, <2>3
<1>21. \A i \in 1 .. Len(m) :
          CallInv(disk, raced, Exempt', cachedTemplating, page'[w], m[i])
  BY <1>17 DEF CallInv
<1>22. \A g \in Files : \A i \in 1 .. Len(m) : ~Making(m[i], g)
  BY <1>17 DEF Making
<1>23. /\ \A u \in Workers : StackInv(u)'
       /\ AloneInv' /\ CacheInv' /\ TimeInv'
       /\ \A u \in Workers \ {w} : PageInv(u)'
  BY <1>3, <1>9, <1>11, <1>12, <1>16, <1>18, <1>19, <1>20, <1>21, <1>22, QuietKept
<1>24. PageInv(w)'
  <2>1. page[w].part = 0
    <3>1. Begun(calls[w])
      BY <1>2, <1>3 DEF Begun
    <3> QED
      BY <1>4, <3>1 DEF PageInv
  <2>2. Fresh(Exempt, p)
    BY <1>4, <1>5, <1>6, <1>7, <1>12, <2>1 DEF InCache, Fresh
  <2>3. ~Begun(calls'[w])
    <3>1. PICK s \in Seq(Calls) : s = calls[w]
      BY StateFacts
    <3>2. PICK n : n = m \o Tail(s)
      OBVIOUS
    <3>3. calls'[w] = n
      BY <1>9, <3>1, <3>2, GoesOn
    <3>4. \A i \in 1 .. Len(n) :
             \/ i \in 1 .. Len(m) /\ n[i] = m[i]
             \/ i - Len(m) + 1 \in 2 .. Len(s)
      BY <1>3, <1>16, <3>1, <3>2, Spliced
    <3>5. \A i \in 1 .. Len(n) : n[i].call \in {"include", "link", "throw"}
      <4>1. Len(s) = 1
        BY <1>4, <3>1
      <4>2. \A k : k \notin 2 .. 1
        OBVIOUS
      <4> QED
        BY ONLY <1>17, <3>4, <4>1, <4>2
    <3> QED
      BY <3>3, <3>5 DEF Begun
  <2>4. p.seen <= disk[Part].version
    BY <1>6, <1>12 DEF CacheInv, EntryInv, Bounded
  <2>5. p.asked <= disk[p.file].version
    BY <1>12 DEF PageInv
  <2> QED
    BY <1>9, <1>11, <2>2, <2>3, <2>4, <2>5 DEF PageInv
<1>25. RouteInv'
  <2>1. ~At(w, "grow")'
    BY <1>3, <1>9, <1>16, <1>17, NoGrow DEF StackInv
  <2>2. ~At(w, "grow")
    BY <1>2, <1>3 DEF At
  <2> QED
    BY <1>4, <1>9, <1>11, <1>12, <2>1, <2>2, GoesOn, RouteKept
<1>26. TypeOK'
  <2>1. calls' \in [Workers -> Seq(Calls)]
    BY <1>3, <1>9, <1>16, GoesType
  <2> QED
    BY <1>9, <1>10, <1>12, <2>1 DEF TypeOK
<1> QED
  BY <1>23, <1>24, <1>25, <1>26

LEMMA RenderIncludeKept ==
    ASSUME IInv, NEW w \in Workers, RenderInclude(w)
    PROVE  IInv'
<1> USE DEF IInv
<1>1. PICK c \in Calls : c = calls[w][1] /\ c = Head(calls[w])
  BY HeadFacts DEF RenderInclude, At
<1>2. /\ calls[w] # <<>> /\ c.call = "include"
      /\ 1 \in 1 .. Len(calls[w]) /\ Len(calls[w]) \in Nat
  BY <1>1, HeadFacts DEF RenderInclude, At
<1>3. page[w].status = "rendering" /\ ~Begun(calls[w])
  BY <1>1, <1>2 DEF StackInv, Shape
<1>4. InCache(cachedTemplating, Exempt, Part, page[w].seen)
  <2>1. Wants(page[w], calls[w][1], Part, page[w].seen)
    BY <1>1, <1>2 DEF Wants
  <2>2. WantsMet(cachedTemplating, Exempt, page[w], calls[w])
    BY DEF StackInv
  <2>3. page[w].seen \in 0 .. MaxWrites /\ Part \in Files
    BY StateFacts, Facts
  <2>4. InCache(cachedTemplating, Exempt, Part, page[w].seen)
           \/ \E j \in 1 .. 1 - 1 : Brings(Exempt, calls[w][j], Part, page[w].seen)
    BY <1>2, <2>1, <2>2, <2>3 DEF WantsMet
  <2> QED
    BY <2>4
<1>5. PICK v \in Versions : v = cachedTemplating[Part].version
  BY <1>4, StateFacts, EntryParts DEF InCache, CacheOK
<1>6. PICK m : m = RenderCalls(Part, v)
  OBVIOUS
<1>7. /\ Goes(w, m)
      /\ page' = [page EXCEPT ![w].part = v]
      /\ UNCHANGED <<disk, clock, cachedTemplating, routesFile, renders, raced, overlapped,
                     clashed>>
      /\ Exempt' = Exempt
  BY <1>5, <1>6 DEF RenderInclude, Exempt
<1>8. PICK p : p = [page[w] EXCEPT !.part = v]
  OBVIOUS
<1>9. page'[w] = p /\ \A u \in Workers \ {w} : page'[u] = page[u]
  BY <1>7, <1>8 DEF TypeOK
<1>10. /\ p \in Pages /\ p.file = page[w].file /\ p.status = page[w].status
       /\ p.asked = page[w].asked /\ p.root = page[w].root /\ p.seen = page[w].seen
       /\ p.part = v /\ p.links = page[w].links
  <2>1. page[w] \in Pages /\ v \in 0 .. MaxWrites
    BY StateFacts DEF Versions
  <2> QED
    BY <1>8, <2>1 DEF Pages
<1>11. PICK b \in Calls : b = Call("link", Part) /\ b.call = "link"
  BY CallTypes, Facts
<1>12. PICK t \in Calls : t = Call("throw", Part) /\ t.call = "throw"
  BY CallTypes, Facts
<1>13. /\ m \in Seq(Calls) /\ Len(m) \in Nat
       /\ \A i \in 1 .. Len(m) : m[i] = b \/ m[i] = t
  <2>1. /\ m \in Seq(Calls) /\ Len(m) \in Nat
        /\ \A i \in 1 .. Len(m) :
              \/ m[i] = Call("include", Part) /\ Reads(Part, v) > 0
              \/ m[i] = Call("link", Part)
              \/ m[i] = Call("throw", Part)
    BY <1>6, Rendering, Facts
  <2>2. Reads(Part, v) = 0
    BY TextFacts, Facts
  <2> QED
    BY <1>11, <1>12, <2>1, <2>2
<1>14. \A i \in 1 .. Len(m) : m[i].call \in {"link", "throw"}
  BY <1>11, <1>12, <1>13
<1>15. Fits(calls[w], m)
  BY <1>14 DEF Fits, Making, Generates
<1>16. SameWants(page[w], page'[w], calls[w])
  BY <1>9, <1>10, SameWantsKept
<1>17. HandsOn(Exempt, cachedTemplating, Exempt', page[w], calls[w], m)
  BY <1>1, <1>2 DEF HandsOn, Brings, Making
<1>18. WantsMet(cachedTemplating, Exempt', page'[w], m)
  BY <1>14 DEF WantsMet, Wants
<1>19. \A i \in 1 .. Len(m) :
          CallInv(disk, raced, Exempt', cachedTemplating, page'[w], m[i])
  BY <1>14 DEF CallInv
<1>20. \A g \in Files : \A i \in 1 .. Len(m) : ~Making(m[i], g)
  BY <1>14 DEF Making
<1>21. /\ \A u \in Workers : StackInv(u)'
       /\ AloneInv' /\ CacheInv' /\ TimeInv'
       /\ \A u \in Workers \ {w} : PageInv(u)'
  BY <1>2, <1>7, <1>9, <1>10, <1>13, <1>15, <1>16, <1>17, <1>18, <1>19, <1>20, QuietKept
<1>22. PageInv(w)'
  <2>1. Fresh(Exempt, p)
    <3>1. Fresh(Exempt, page[w])
      BY <1>3 DEF PageInv
    <3> QED
      BY <1>4, <1>5, <1>10, <3>1 DEF InCache, Fresh
  <2>2. ~Begun(calls'[w])
    <3>1. PICK s \in Seq(Calls) : s = calls[w]
      BY StateFacts
    <3>2. PICK n : n = m \o Tail(s)
      OBVIOUS
    <3>3. calls'[w] = n
      BY <1>7, <3>1, <3>2, GoesOn
    <3>4. \A i \in 1 .. Len(m) : m[i].call \notin {"lookup", "root"}
      BY <1>14
    <3> QED
      BY <1>1, <1>2, <1>3, <1>13, <3>1, <3>2, <3>3, <3>4, BegunSpliced
  <2> QED
    BY <1>7, <1>9, <1>10, <2>1, <2>2 DEF PageInv
<1>23. RouteInv'
  <2>1. ~At(w, "grow")'
    BY <1>2, <1>7, <1>13, <1>14, NoGrow DEF StackInv
  <2>2. ~At(w, "grow")
    BY <1>1, <1>2 DEF At
  <2> QED
    BY <1>3, <1>7, <1>9, <1>10, <2>1, <2>2, GoesOn, RouteKept
<1>24. TypeOK'
  <2>1. calls' \in [Workers -> Seq(Calls)]
    BY <1>2, <1>7, <1>13, GoesType
  <2> QED
    BY <1>7, <1>8, <1>10, <2>1 DEF TypeOK
<1> QED
  BY <1>21, <1>22, <1>23, <1>24

LEMMA FindRouteKept ==
    ASSUME IInv, NEW w \in Workers, FindRoute(w)
    PROVE  IInv'
<1> USE DEF IInv
<1>1. PICK f : f = Callee(w)
  OBVIOUS
<1>2. PICK c \in Calls : c = calls[w][1] /\ c = Head(calls[w])
  BY HeadFacts DEF FindRoute, At
<1>3. /\ calls[w] # <<>> /\ c.call = "link" /\ f = c.file /\ f \in Files
      /\ 1 \in 1 .. Len(calls[w]) /\ Len(calls[w]) \in Nat
  BY <1>1, <1>2, HeadFacts DEF FindRoute, At
<1>4. PICK b \in Calls : /\ b = Grow(f, routesFile) /\ b.call = "grow" /\ b.file = f
                         /\ b.before = routesFile
  BY <1>3, CallTypes DEF TypeOK
<1>5. PICK m : m = IF Found(f) THEN <<>> ELSE <<b>>
  OBVIOUS
<1>6. /\ m \in Seq(Calls) /\ Len(m) \in Nat
      /\ Found(f) => 1 .. Len(m) = {}
      /\ ~Found(f) => Len(m) = 1 /\ m[1] = b
      /\ \A i \in 1 .. Len(m) : i = 1 /\ m[i] = b
  <2>1. CASE Found(f)
    BY <1>5, <2>1
  <2>2. CASE ~Found(f)
    BY <1>5, <2>2, Singles
  <2> QED
    BY <2>1, <2>2
<1>7. /\ Goes(w, m)
      /\ page' = [page EXCEPT ![w].links = @ \cup {f}]
      /\ clashed' = (clashed \/ (~Found(f) /\ \E u \in Workers : At(u, "grow")))
      /\ UNCHANGED <<disk, clock, cachedTemplating, routesFile, renders, raced, overlapped>>
      /\ Exempt' = Exempt
  BY <1>1, <1>4, <1>5 DEF FindRoute, Exempt
<1>8. PICK p : p = [page[w] EXCEPT !.links = @ \cup {f}]
  OBVIOUS
<1>9. page'[w] = p /\ \A u \in Workers \ {w} : page'[u] = page[u]
  BY <1>7, <1>8 DEF TypeOK
<1>10. /\ p \in Pages /\ p.file = page[w].file /\ p.status = page[w].status
       /\ p.asked = page[w].asked /\ p.root = page[w].root /\ p.seen = page[w].seen
       /\ p.part = page[w].part /\ p.links = page[w].links \cup {f}
  <2>1. page[w] \in Pages
    BY StateFacts
  <2> QED
    BY <1>3, <1>8, <2>1 DEF Pages
<1>11. Fits(calls[w], m)
  BY <1>4, <1>6 DEF Fits, Making, Generates
<1>12. SameWants(page[w], page'[w], calls[w])
  BY <1>9, <1>10, SameWantsKept
<1>13. HandsOn(Exempt, cachedTemplating, Exempt', page[w], calls[w], m)
  BY <1>2, <1>3 DEF HandsOn, Brings, Making
<1>14. WantsMet(cachedTemplating, Exempt', page'[w], m)
  BY <1>4, <1>6 DEF WantsMet, Wants
<1>15. \A i \in 1 .. Len(m) :
          CallInv(disk, raced, Exempt', cachedTemplating, page'[w], m[i])
  BY <1>4, <1>6 DEF CallInv
<1>16. \A g \in Files : \A i \in 1 .. Len(m) : ~Making(m[i], g)
  BY <1>4, <1>6 DEF Making
<1>17. /\ \A u \in Workers : StackInv(u)'
       /\ AloneInv' /\ CacheInv' /\ TimeInv'
       /\ \A u \in Workers \ {w} : PageInv(u)'
  BY <1>3, <1>6, <1>7, <1>9, <1>10, <1>11, <1>12, <1>13, <1>14, <1>15, <1>16, QuietKept
<1>18. PageInv(w)'
  <2>1. \A i \in 1 .. Len(m) : m[i].call \notin {"lookup", "root"}
    BY <1>4, <1>6
  <2> QED
    BY <1>2, <1>3, <1>6, <1>7, <1>9, <1>10, <2>1, PageGoes
<1>19. ASSUME Found(f)
       PROVE  RouteInv'
  <2>1. ~At(w, "grow")'
    <3>1. \A i \in 1 .. Len(m) : m[i].call # "grow"
      BY <1>6, <1>19
    <3> QED
      BY <1>3, <1>6, <1>7, <3>1, NoGrow DEF StackInv
  <2>2. ~At(w, "grow")
    BY <1>2, <1>3 DEF At
  <2>3. clashed' = clashed
    BY <1>7, <1>19 DEF TypeOK
  <2> QED
    BY <1>7, <1>9, <1>10, <1>19, <2>1, <2>2, <2>3, GoesOn, RouteKept
<1>20. ASSUME ~Found(f)
       PROVE  RouteInv'
  <2>1. /\ calls'[w] # <<>> /\ Head(calls'[w]) = b
    <3>1. PICK s \in Seq(Calls) : s = calls[w]
      BY StateFacts
    <3>2. PICK n : n = m \o Tail(s)
      OBVIOUS
    <3>3. calls'[w] = n
      BY <1>7, <3>1, <3>2, GoesOn
    <3>4. m \in Seq(Calls) /\ s # <<>>
      BY <1>3, <1>6, <3>1
    <3>5. /\ n \in Seq(Calls) /\ 1 \in 1 .. Len(n) /\ n[1] = m[1]
      <4>1. Len(m) = 1
        BY <1>6, <1>20
      <4>2. 1 \in 1 .. Len(m)
        BY ONLY <4>1
      <4> QED
        BY ONLY <3>1, <3>2, <3>4, <4>2, Spliced
    <3>6. n # <<>> /\ Head(n) = n[1]
      BY <3>5, EmptySeq, HeadTailProperties
    <3> QED
      BY <1>6, <1>20, <3>3, <3>5, <3>6
  <2> SUFFICES ASSUME ~clashed'
               PROVE  RouteInv'
    BY DEF RouteInv
  <2>2. ~clashed /\ \A u \in Workers : ~At(u, "grow")
    BY <1>7, <1>20
  <2>3. \A g : Found(g)' <=> Found(g)
    BY <1>7 DEF Found
  <2>4. \A u \in Workers \ {w} : ~At(u, "grow")'
    BY <1>7, <2>2, GoesOn DEF At
  <2>5. At(w, "grow")' /\ Callee(w)' = f /\ Head(calls'[w]).before = routesFile
    BY <1>4, <2>1 DEF At, Callee
  <2>6. \A u \in Workers : At(u, "grow")' => Appending(u)'
    <3>1. Appending(w)'
      BY <1>7, <1>20, <2>3, <2>4, <2>5 DEF Appending
    <3> QED
      BY <2>4, <3>1
  <2>7. \A u \in Workers : Linked(u)
    BY <2>2 DEF RouteInv
  <2>8. ASSUME NEW u \in Workers
        PROVE  Linked(u)'
    <3>1. CASE u = w
      BY <1>9, <1>10, <2>2, <2>3, <2>5, <2>7, <3>1 DEF Linked
    <3>2. CASE u # w
      BY <1>9, <2>2, <2>3, <2>7, <3>2 DEF Linked
    <3> QED
      BY <3>1, <3>2
  <2>9. Distinct(routesFile')
    BY <1>7, <2>2 DEF RouteInv
  <2> QED
    BY <2>6, <2>8, <2>9 DEF RouteInv
<1>21. TypeOK'
  <2>1. calls' \in [Workers -> Seq(Calls)]
    BY <1>3, <1>6, <1>7, GoesType
  <2>2. clashed' \in BOOLEAN
    BY <1>7
  <2> QED
    BY <1>7, <1>8, <1>10, <2>1, <2>2 DEF TypeOK
<1> QED
  BY <1>17, <1>18, <1>19, <1>20, <1>21

LEMMA AppendRouteKept ==
    ASSUME IInv, NEW w \in Workers, AppendRoute(w)
    PROVE  IInv'
<1> USE DEF IInv
<1>1. PICK f : f = Callee(w)
  OBVIOUS
<1>2. PICK c \in Calls : c = calls[w][1] /\ c = Head(calls[w])
  BY HeadFacts DEF AppendRoute, At
<1>3. /\ calls[w] # <<>> /\ c.call = "grow" /\ f = c.file /\ f \in Files
      /\ 1 \in 1 .. Len(calls[w]) /\ Len(calls[w]) \in Nat
  BY <1>1, <1>2, HeadFacts DEF AppendRoute, At
<1>4. PICK before \in Seq(Files) : before = c.before
  BY <1>3, CallParts
<1>5. PICK m : m = <<>>
  OBVIOUS
<1>6. m \in Seq(Calls) /\ Len(m) \in Nat /\ 1 .. Len(m) = {}
  BY <1>5
<1>7. /\ Goes(w, m)
      /\ routesFile' = Append(before, f)
      /\ UNCHANGED <<disk, clock, cachedTemplating, page, renders, raced, overlapped, clashed>>
      /\ Exempt' = Exempt
  BY <1>1, <1>2, <1>4, <1>5 DEF AppendRoute, Exempt
<1>8. Fits(calls[w], m)
  BY <1>6 DEF Fits
<1>9. SameWants(page[w], page'[w], calls[w])
  BY <1>7, SameWantsKept
<1>10. HandsOn(Exempt, cachedTemplating, Exempt', page[w], calls[w], m)
  BY <1>2, <1>3 DEF HandsOn, Brings, Making
<1>11. WantsMet(cachedTemplating, Exempt', page'[w], m)
  BY <1>6 DEF WantsMet
<1>12. /\ \A u \in Workers : StackInv(u)'
       /\ AloneInv' /\ CacheInv' /\ TimeInv'
       /\ \A u \in Workers \ {w} : PageInv(u)'
  BY <1>3, <1>6, <1>7, <1>8, <1>9, <1>10, <1>11, QuietKept
<1>13. PageInv(w)'
  BY <1>2, <1>3, <1>6, <1>7, PageGoes
<1>14. RouteInv'
  <2> SUFFICES ASSUME ~clashed
               PROVE  RouteInv'
    BY <1>7 DEF RouteInv
  <2>1. At(w, "grow")
    BY <1>2, <1>3 DEF At
  <2>2. /\ before = routesFile /\ ~Found(f)
        /\ \A u \in Workers : At(u, "grow") => u = w
    BY <1>1, <1>2, <1>4, <2>1 DEF RouteInv, Appending
  <2>3. PICK r \in Seq(Files) : r = routesFile
    BY DEF TypeOK
  <2>4. /\ Append(r, f) \in Seq(Files) /\ Len(Append(r, f)) = Len(r) + 1
        /\ \A i \in 1 .. Len(r) : Append(r, f)[i] = r[i]
        /\ Append(r, f)[Len(r) + 1] = f
        /\ DOMAIN Append(r, f) = 1 .. Len(r) + 1
        /\ Len(r) \in Nat /\ DOMAIN r = 1 .. Len(r)
    BY <1>3, LenProperties, AppendProperties
  <2>5. routesFile' = Append(r, f)
    BY <1>7, <2>2, <2>3
  <2>6. \A g : Found(g) \/ g = f => Found(g)'
    BY <2>3, <2>4, <2>5 DEF Found, Range
  <2>7. \A u \in Workers : ~At(u, "grow")'
    <3>1. ~At(w, "grow")'
      BY <1>3, <1>6, <1>7, NoGrow DEF StackInv
    <3>2. \A u \in Workers \ {w} : ~At(u, "grow")'
      BY <1>7, <2>2, GoesOn DEF At
    <3> QED
      BY <3>1, <3>2
  <2>8. \A u \in Workers : Linked(u)'
    <3>1. \A u \in Workers : Linked(u)
      BY DEF RouteInv
    <3>2. \A u \in Workers : At(u, "grow") => Callee(u) = f
      BY <1>1, <2>2
    <3> QED
      BY <1>7, <2>6, <3>1, <3>2 DEF Linked
  <2>9. Distinct(routesFile')
    <3>1. Distinct(r) /\ \A i \in 1 .. Len(r) : r[i] # f
      BY <2>2, <2>3, <2>4 DEF RouteInv, Found, Range
    <3> SUFFICES ASSUME NEW i \in 1 .. Len(r) + 1, NEW j \in 1 .. Len(r) + 1,
                        Append(r, f)[i] = Append(r, f)[j]
                 PROVE  i = j
      BY <2>4, <2>5 DEF Distinct
    <3>2. \A k \in 1 .. Len(r) + 1 : k \in 1 .. Len(r) \/ k = Len(r) + 1
      BY <2>4
    <3> QED
      BY <2>4, <3>1, <3>2 DEF Distinct
  <2> QED
    BY <2>7, <2>8, <2>9 DEF RouteInv
<1>15. TypeOK'
  <2>1. calls' \in [Workers -> Seq(Calls)]
    BY <1>3, <1>6, <1>7, GoesType
  <2>2. routesFile' \in Seq(Files)
    BY <1>3, <1>7, AppendProperties
  <2> QED
    BY <1>7, <2>1, <2>2 DEF TypeOK
<1> QED
  BY <1>12, <1>13, <1>14, <1>15

LEMMA ServeKept ==
    ASSUME IInv, NEW w \in Workers, Serve(w)
    PROVE  IInv'
<1> USE DEF IInv
<1>1. PICK p : p = [page[w] EXCEPT !.status = "served"]
  OBVIOUS
<1>2. /\ calls[w] = <<>> /\ page[w].status = "rendering"
      /\ page' = [page EXCEPT ![w] = p]
      /\ UNCHANGED <<disk, clock, cachedTemplating, routesFile, calls, renders, raced,
                     overlapped, clashed>>
      /\ Exempt' = Exempt
  BY <1>1 DEF Serve, Exempt
<1>3. page'[w] = p /\ \A u \in Workers \ {w} : page'[u] = page[u] /\ calls'[u] = calls[u]
  BY <1>2 DEF TypeOK
<1>4. /\ p \in Pages /\ p.file = page[w].file /\ p.status = "served"
      /\ p.asked = page[w].asked /\ p.root = page[w].root /\ p.seen = page[w].seen
      /\ p.part = page[w].part /\ p.links = page[w].links
  <2>1. page[w] \in Pages
    BY StateFacts
  <2> QED
    BY <1>1, <2>1 DEF Pages
<1>5. \A u \in Workers : StackInv(u)'
  <2>1. Shape(<<>>) /\ WantsMet(cachedTemplating, Exempt, p, <<>>)
    BY DEF Shape, WantsMet
  <2>2. StackInv(w)'
    BY ONLY <1>2, <1>3, <2>1 DEF StackInv
  <2>3. \A u \in Workers \ {w} : StackInv(u)'
    BY <1>2, <1>3 DEF StackInv
  <2> QED
    BY <2>2, <2>3
<1>6. AloneInv' /\ CacheInv' /\ TimeInv'
  BY <1>2 DEF AloneInv, Makes, CacheInv, TimeInv
<1>7. \A u \in Workers : PageInv(u)'
  <2>1. PageInv(w)'
    <3>1. ~Begun(calls[w])
      BY <1>2 DEF Begun
    <3>2. Fresh(Exempt, page[w])
      BY <1>2, <3>1 DEF PageInv
    <3>3. Fresh(Exempt, p)
      BY <1>4, <3>2 DEF Fresh
    <3> QED
      BY <1>2, <1>3, <1>4, <3>1, <3>3 DEF PageInv
  <2>2. \A u \in Workers \ {w} : PageInv(u)'
    BY <1>2, <1>3, PageKept
  <2> QED
    BY <2>1, <2>2
<1>8. RouteInv'
  <2>1. ~At(w, "grow") /\ ~At(w, "grow")'
    BY <1>2 DEF At
  <2> QED
    BY <1>2, <1>3, <1>4, <2>1, RouteKept
<1>9. TypeOK'
  BY <1>2, <1>4 DEF TypeOK
<1> QED
  BY <1>5, <1>6, <1>7, <1>8, <1>9

LEMMA StartRenderKept ==
    ASSUME IInv, NEW w \in Workers, NEW f \in Files, StartRender(w, f)
    PROVE  IInv'
<1> USE DEF IInv
<1>1. PICK p : p = [NoPage EXCEPT !.file = f, !.status = "rendering",
                                  !.asked = disk[f].version]
  OBVIOUS
<1>2. PICK a \in Calls : a = Call("lookup", f) /\ a.call = "lookup" /\ a.file = f
  BY CallTypes
<1>3. PICK n \in Seq(Calls) : n = <<a>> /\ Len(n) = 1 /\ n[1] = a
  BY Singles
<1>4. /\ calls[w] = <<>>
      /\ renders' \in [Workers -> 0 .. MaxRenders]
      /\ calls' = [calls EXCEPT ![w] = n]
      /\ page' = [page EXCEPT ![w] = p]
      /\ UNCHANGED <<disk, clock, cachedTemplating, routesFile, raced, overlapped, clashed>>
      /\ Exempt' = Exempt
  BY <1>1, <1>2, <1>3, Facts DEF StartRender, Exempt, TypeOK
<1>5. /\ calls'[w] = n /\ page'[w] = p
      /\ \A u \in Workers \ {w} : page'[u] = page[u] /\ calls'[u] = calls[u]
  BY <1>4 DEF TypeOK
<1>6. /\ p \in Pages /\ p.file = f /\ p.status = "rendering" /\ p.asked = disk[f].version
      /\ p.seen = 0 /\ p.part = 0 /\ p.links = {}
  <2>1. disk[f].version \in 0 .. MaxWrites /\ 0 \in 0 .. MaxWrites
    BY StateFacts, Facts DEF Versions
  <2> QED
    BY <1>1, <2>1, Facts DEF NoPage, Pages
<1>7. \A i \in 1 .. Len(n) : i = 1 /\ n[i] = a
  BY <1>3
<1>8. \A u \in Workers : StackInv(u)'
  <2>1. Shape(n)
    BY <1>2, <1>3, <1>7 DEF Shape, Making
  <2>2. WantsMet(cachedTemplating, Exempt, p, n)
    BY <1>2, <1>7 DEF WantsMet, Wants
  <2>3. \A i \in 1 .. Len(n) : CallInv(disk, raced, Exempt, cachedTemplating, p, n[i])
    BY <1>2, <1>6, <1>7 DEF CallInv
  <2>4. StackInv(w)'
    BY ONLY <1>4, <1>5, <1>6, <2>1, <2>2, <2>3 DEF StackInv
  <2>5. \A u \in Workers \ {w} : StackInv(u)'
    BY <1>4, <1>5 DEF StackInv
  <2> QED
    BY <2>4, <2>5
<1>9. AloneInv'
  <2>1. \A g \in Files : ~Makes(w, g)'
    BY <1>2, <1>5, <1>7 DEF Makes, Making
  <2> QED
    BY <1>4, <1>5, <2>1, AloneKept
<1>10. CacheInv' /\ TimeInv'
  BY <1>4 DEF CacheInv, TimeInv
<1>11. \A u \in Workers : PageInv(u)'
  <2>1. PageInv(w)'
    <3>1. Begun(n)
      BY <1>2, <1>3 DEF Begun
    <3>2. /\ disk[f].version <= disk[f].version
          /\ 0 <= disk[Part].version
      BY StateFacts, Facts
    <3> QED
      BY <1>4, <1>5, <1>6, <3>1, <3>2 DEF PageInv
  <2>2. \A u \in Workers \ {w} : PageInv(u)'
    BY <1>4, <1>5, PageKept
  <2> QED
    BY <2>1, <2>2
<1>12. RouteInv'
  <2>1. ~At(w, "grow")
    BY <1>4 DEF At
  <2>2. ~At(w, "grow")'
    <3>1. Head(n) = a
      BY <1>3
    <3> QED
      BY <1>2, <1>5, <3>1 DEF At
  <2> SUFFICES ASSUME ~clashed
               PROVE  RouteInv'
    BY <1>4 DEF RouteInv
  <2>3. \A u \in Workers \ {w} : (At(u, "grow")' <=> At(u, "grow")) /\ Callee(u)' = Callee(u)
    BY <1>5 DEF At, Callee
  <2>4. \A g : Found(g)' <=> Found(g)
    BY <1>4 DEF Found
  <2>5. ASSUME NEW u \in Workers, At(u, "grow")'
        PROVE  Appending(u)'
    <3>1. u # w /\ At(u, "grow") /\ Appending(u)
      BY <2>2, <2>3, <2>5 DEF RouteInv
    <3>2. \A x \in Workers : At(x, "grow")' => x = u
      BY <2>2, <2>3, <3>1 DEF Appending
    <3> QED
      BY <1>4, <1>5, <2>3, <2>4, <3>1, <3>2 DEF Appending
  <2>6. \A u \in Workers : Linked(u)'
    <3>1. Linked(w)'
      BY <1>5, <1>6 DEF Linked
    <3>2. \A u \in Workers \ {w} : Linked(u)'
      BY <1>5, <2>3, <2>4 DEF Linked, RouteInv
    <3> QED
      BY <3>1, <3>2
  <2> QED
    BY <1>4, <2>5, <2>6 DEF RouteInv
<1>13. TypeOK'
  BY <1>4, <1>6 DEF TypeOK
<1> QED
  BY <1>8, <1>9, <1>10, <1>11, <1>12, <1>13

------------------------------------------------------------------------------
(* Other programs and the clock                                             *)

LEMMA WriteKept ==
    ASSUME IInv, NEW f \in Files, Write(f)
    PROVE  IInv'
<1> USE DEF IInv
<1>1. PICK D : D = disk'
  OBVIOUS
<1>2. PICK R : R = raced'
  OBVIOUS
<1>3. PICK X : X = Exempt'
  OBVIOUS
<1>4. /\ D = [disk EXCEPT ![f] = [there |-> TRUE, version |-> disk[f].version + 1,
                                  time |-> clock]]
      /\ R = [raced EXCEPT ![f] = @ \/ disk[f].time = clock \/ \E w \in Workers : Reading(w, f)]
      /\ disk[f].version < MaxWrites
      /\ UNCHANGED <<clock, cachedTemplating, routesFile, calls, page, renders, overlapped,
                     clashed>>
  BY <1>1, <1>2 DEF Write, TypeOK
<1>5. /\ D[f].version = disk[f].version + 1 /\ D[f].time = clock
      /\ \A g \in Files : g # f => D[g] = disk[g]
      /\ D \in [Files -> [there : BOOLEAN, version : Versions, time : 1 .. MaxTime]]
  <2>1. disk[f].version + 1 \in Versions
    BY <1>4, StateFacts, Facts DEF Versions
  <2> QED
    BY <1>4, <2>1 DEF TypeOK
<1>6. /\ R \in [Files -> BOOLEAN]
      /\ \A g \in Files : raced[g] => R[g]
      /\ disk[f].time = clock => R[f]
      /\ \A w \in Workers : Reading(w, f) => R[f]
  BY <1>4 DEF TypeOK
<1>7. /\ Exempt \subseteq X
      /\ \A g \in Files : R[g] => g \in X
  BY <1>2, <1>3, <1>4, <1>6 DEF Exempt
<1>8. \A g \in Files : /\ disk[g].version <= D[g].version /\ disk[g].time <= D[g].time
                       /\ D[g].version \in Nat /\ D[g].time \in Nat
  <2>1. disk[f].time <= clock /\ disk[f].version <= disk[f].version + 1
    BY StateFacts DEF TimeInv
  <2> QED
    BY <1>5, <2>1, StateFacts
\* A stamp that is not older than the new time is as old as the old one.
<1>9. ASSUME NEW t \in Nat, t <= disk[f].time, D[f].time <= t
      PROVE  R[f]
  <2>1. disk[f].time = clock
    BY <1>5, <1>9, StateFacts DEF TimeInv
  <2> QED
    BY <1>6, <2>1
<1>10. ASSUME NEW g \in Files, NEW e \in Entries, Honest(disk, raced, g, e)
       PROVE  Honest(D, R, g, e)
  <2>1. e.stamp \in Nat /\ e.stamp <= disk[g].time
    BY <1>10, EntryParts DEF Honest
  <2>2. e.stamp <= D[g].time
    BY <1>8, <2>1, StateFacts
  <2>3. CASE g = f
    BY <1>9, <2>1, <2>2, <2>3 DEF Honest
  <2>4. CASE g # f
    BY <1>5, <1>6, <1>10, <2>4 DEF Honest
  <2> QED
    BY <2>3, <2>4
<1>11. ASSUME NEW g \in Files, NEW v \in Nat, NEW n \in Nat, Bounded(disk, g, v, n)
       PROVE  Bounded(D, g, v, n)
  BY <1>8, <1>11, StateFacts, Facts DEF Bounded
<1>12. ASSUME NEW w \in Workers, NEW i \in 1 .. Len(calls[w])
       PROVE  CallInv(D, R, X, cachedTemplating, page[w], calls[w][i])
  <2>1. PICK c \in Calls : c = calls[w][i]
    BY StateFacts, ElementOfSeq
  <2>2. CallInv(disk, raced, Exempt, cachedTemplating, page[w], c)
    BY <2>1 DEF StackInv
  <2>3. c.file \in Files
    BY CallParts
  <2>4. c.call = "check" => CheckInv(D, X, cachedTemplating, c)
    <3> SUFFICES ASSUME c.call = "check"
                 PROVE  CheckInv(D, X, cachedTemplating, c)
      OBVIOUS
    <3>1. CheckInv(disk, Exempt, cachedTemplating, c)
      BY <2>2 DEF CallInv
    <3>2. c.stamp \in Nat /\ c.stamp <= disk[c.file].time
      BY <3>1, CallParts, Facts DEF CheckInv
    <3>3. c.stamp <= D[c.file].time
      BY <1>8, <2>3, <3>2, StateFacts
    <3>4. CASE c.file = f
      BY <1>7, <1>9, <2>3, <3>1, <3>2, <3>3, <3>4 DEF CheckInv, Good
    <3>5. CASE c.file # f
      BY <1>5, <1>7, <2>3, <3>1, <3>5, GoodKept DEF CheckInv
    <3> QED
      BY <3>4, <3>5
  <2>5. c.call = "stamp" => c.version = D[c.file].version \/ R[c.file]
    <3>1. CASE c.call = "stamp" /\ c.file = f
      <4>1. DOMAIN calls[w] = 1 .. Len(calls[w])
        BY StateFacts, LenProperties
      <4>2. Reading(w, f)
        BY <2>1, <3>1, <4>1 DEF Reading
      <4> QED
        BY <1>6, <3>1, <4>2
    <3>2. CASE c.call = "stamp" /\ c.file # f
      BY <1>5, <1>6, <2>2, <2>3, <3>2 DEF CallInv
    <3> QED
      BY <3>1, <3>2
  <2>6. c.call = "store" => Honest(D, R, c.file, c.entry)
    BY <1>10, <2>2, <2>3, CallParts DEF CallInv
  <2>7. c.call \in {"stamp", "store"} => MakingInv(D, X, cachedTemplating, c)
    <3> SUFFICES ASSUME c.call \in {"stamp", "store"}
                 PROVE  MakingInv(D, X, cachedTemplating, c)
      OBVIOUS
    <3>1. MakingInv(disk, Exempt, cachedTemplating, c)
      BY <2>2 DEF CallInv
    <3>2. VersionOf(c) \in Nat /\ SeenOf(c) \in Nat
      BY CallParts
    <3>3. Bounded(D, c.file, VersionOf(c), SeenOf(c))
      BY <1>11, <2>3, <3>1, <3>2 DEF MakingInv
    <3> QED
      BY <1>7, <3>1, <3>3, GoodKept DEF MakingInv
  <2> QED
    BY <2>1, <2>2, <2>4, <2>5, <2>6, <2>7 DEF CallInv
<1>13. ASSUME NEW w \in Workers
       PROVE  StackInv(w)'
  <2>1. CacheOK(cachedTemplating) /\ Newer(cachedTemplating, Exempt, cachedTemplating, X)
    BY <1>7, StateFacts, NewerSame
  <2>2. WantsMet(cachedTemplating, X, page[w], calls[w])
    <3>1. WantsMet(cachedTemplating, Exempt, page[w], calls[w])
      BY DEF StackInv
    <3> QED
      BY <2>1, <3>1, WantsKept
  <2>3. Shape(calls[w]) /\ (calls[w] # <<>> => page[w].status = "rendering")
    BY DEF StackInv
  <2> QED
    <3>1. /\ WantsMet(cachedTemplating, Exempt', page[w], calls[w])
          /\ \A i \in 1 .. Len(calls[w]) :
                CallInv(disk', raced', Exempt', cachedTemplating, page[w], calls[w][i])
      BY <1>1, <1>2, <1>3, <1>12, <2>2
    <3> QED
      BY ONLY <1>4, <2>3, <3>1 DEF StackInv
<1>14. AloneInv'
  BY <1>4 DEF AloneInv, Makes
<1>15. CacheInv'
  <2> SUFFICES ASSUME NEW g \in DOMAIN cachedTemplating
               PROVE  EntryInv(D, R, X, cachedTemplating, g)
    BY <1>1, <1>2, <1>3, <1>4 DEF CacheInv
  <2>1. PICK e \in Entries : e = cachedTemplating[g] /\ g \in Files
    BY StateFacts DEF CacheOK
  <2>2. EntryInv(disk, raced, Exempt, cachedTemplating, g)
    BY DEF CacheInv
  <2>3. Honest(D, R, g, e)
    BY <1>10, <2>1, <2>2 DEF EntryInv
  <2>4. Bounded(D, g, e.version, e.seen)
    BY <1>11, <2>1, <2>2, EntryParts DEF EntryInv
  <2> QED
    BY <1>7, <2>1, <2>2, <2>3, <2>4, GoodKept DEF EntryInv
<1>16. TimeInv'
  BY <1>1, <1>4, <1>5, StateFacts DEF TimeInv
<1>17. ASSUME NEW w \in Workers
       PROVE  PageInv(w)'
  <2>1. page[w].file \in Files /\ page[w].asked \in Nat /\ page[w].seen \in Nat
    BY StateFacts
  <2>2. page[w].asked <= D[page[w].file].version /\ page[w].seen <= D[Part].version
    <3>1. page[w].asked <= disk[page[w].file].version /\ page[w].seen <= disk[Part].version
      BY DEF PageInv
    <3>2. \A g \in Files : disk[g].version \in Nat
      BY StateFacts
    <3> QED
      BY ONLY <1>8, <2>1, <3>1, <3>2, Facts
  <2>3. Fresh(Exempt, page[w]) => Fresh(X, page[w])
    BY <1>7, GoodKept DEF Fresh
  <2> QED
    BY <1>1, <1>3, <1>4, <2>2, <2>3 DEF PageInv
<1>18. RouteInv'
  BY <1>4 DEF RouteInv, Appending, Linked, Found, At, Callee
<1>19. TypeOK'
  BY <1>1, <1>2, <1>4, <1>5, <1>6 DEF TypeOK
<1> QED
  BY <1>13, <1>14, <1>15, <1>16, <1>17, <1>18, <1>19

\* A file that is deleted keeps its version and its time.
LEMMA DeleteKept ==
    ASSUME IInv, NEW f \in Files, Delete(f)
    PROVE  IInv'
<1> USE DEF IInv
<1>1. PICK D : D = disk'
  OBVIOUS
<1>2. /\ D = [disk EXCEPT ![f].there = FALSE]
      /\ UNCHANGED <<clock, cachedTemplating, routesFile, calls, page, renders, raced,
                     overlapped, clashed>>
      /\ Exempt' = Exempt
  BY <1>1 DEF Delete, Exempt
<1>3. /\ \A g \in Files : D[g].version = disk[g].version /\ D[g].time = disk[g].time
      /\ D \in [Files -> [there : BOOLEAN, version : Versions, time : 1 .. MaxTime]]
  BY <1>2 DEF TypeOK
<1>4. \A g \in Files : \A e : Honest(disk, raced, g, e) => Honest(D, raced, g, e)
  BY <1>3 DEF Honest
<1>5. \A g \in Files : \A v, n : Bounded(disk, g, v, n) => Bounded(D, g, v, n)
  BY <1>3, Facts DEF Bounded
<1>6. ASSUME NEW w \in Workers, NEW i \in 1 .. Len(calls[w])
      PROVE  CallInv(D, raced, Exempt, cachedTemplating, page[w], calls[w][i])
  <2>1. PICK c \in Calls : c = calls[w][i]
    BY StateFacts, ElementOfSeq
  <2>2. CallInv(disk, raced, Exempt, cachedTemplating, page[w], c)
    BY <2>1 DEF StackInv
  <2>3. c.file \in Files
    BY CallParts
  <2>4. CheckInv(disk, Exempt, cachedTemplating, c) => CheckInv(D, Exempt, cachedTemplating, c)
    BY <1>3, <2>3 DEF CheckInv
  <2>5. MakingInv(disk, Exempt, cachedTemplating, c) => MakingInv(D, Exempt, cachedTemplating, c)
    BY <1>5, <2>3 DEF MakingInv
  <2> QED
    BY <1>3, <1>4, <2>1, <2>2, <2>3, <2>4, <2>5 DEF CallInv
<1>7. \A w \in Workers : StackInv(w)'
  BY <1>1, <1>2, <1>6 DEF StackInv
<1>8. AloneInv'
  BY <1>2 DEF AloneInv, Makes
<1>9. CacheInv'
  <2>1. DOMAIN cachedTemplating \subseteq Files
    BY DEF TypeOK
  <2> QED
    <3> SUFFICES ASSUME NEW g \in DOMAIN cachedTemplating
                 PROVE  EntryInv(D, raced, Exempt, cachedTemplating, g)
      BY <1>1, <1>2 DEF CacheInv
    <3>1. EntryInv(disk, raced, Exempt, cachedTemplating, g) /\ g \in Files
      BY <2>1 DEF CacheInv
    <3> QED
      BY <1>4, <1>5, <3>1 DEF EntryInv
<1>10. TimeInv'
  BY <1>1, <1>2, <1>3 DEF TimeInv
<1>11. ASSUME NEW w \in Workers
       PROVE  PageInv(w)'
  <2>1. page[w].file \in Files /\ Part \in Files
    BY StateFacts, Facts
  <2> QED
    BY <1>1, <1>2, <1>3, <2>1 DEF PageInv
<1>12. RouteInv'
  BY <1>2 DEF RouteInv, Appending, Linked, Found, At, Callee
<1>13. TypeOK'
  BY <1>1, <1>2, <1>3 DEF TypeOK
<1> QED
  BY <1>7, <1>8, <1>9, <1>10, <1>11, <1>12, <1>13

LEMMA TickKept ==
    ASSUME IInv, clock' \in 1 .. MaxTime, clock' >= clock,
           UNCHANGED <<disk, cachedTemplating, routesFile, calls, page, renders, raced,
                       overlapped, clashed>>
    PROVE  IInv'
<1> USE DEF IInv
<1>1. Exempt' = Exempt
  BY DEF Exempt
<1>2. \A w \in Workers : StackInv(w)'
  BY <1>1 DEF StackInv
<1>3. AloneInv' /\ CacheInv'
  BY <1>1 DEF AloneInv, Makes, CacheInv
<1>4. TimeInv'
  BY StateFacts, Facts DEF TimeInv
<1>5. \A w \in Workers : PageInv(w)'
  BY <1>1 DEF PageInv
<1>6. RouteInv'
  BY DEF RouteInv, Appending, Linked, Found, At, Callee
<1>7. TypeOK'
  BY DEF TypeOK
<1> QED
  BY <1>2, <1>3, <1>4, <1>5, <1>6, <1>7

------------------------------------------------------------------------------
(* The invariant, and what follows from it                                  *)

LEMMA InitInv ==
    ASSUME Init
    PROVE  IInv
<1>1. /\ NoPage \in Pages /\ NoPage.status = "none" /\ NoPage.asked = 0 /\ NoPage.seen = 0
      /\ NoPage.file = Part
  BY Facts DEF NoPage, Pages
<1>2. 1 \in Versions /\ 1 \in 1 .. MaxTime /\ 0 \in 0 .. MaxRenders
  BY Facts DEF Versions
<1>3. TypeOK
  <2>1. disk \in [Files -> [there : BOOLEAN, version : Versions, time : 1 .. MaxTime]]
    BY <1>2 DEF Init
  <2>2. DOMAIN cachedTemplating = {} /\ routesFile \in Seq(Files)
    BY DEF Init
  <2>3. calls \in [Workers -> Seq(Calls)]
    <3>1. <<>> \in Seq(Calls)
      OBVIOUS
    <3> QED
      BY <3>1 DEF Init
  <2>4. page \in [Workers -> Pages] /\ renders \in [Workers -> 0 .. MaxRenders]
    BY <1>1, <1>2 DEF Init
  <2>5. /\ clock \in 1 .. MaxTime /\ clashed \in BOOLEAN
        /\ raced \in [Files -> BOOLEAN] /\ overlapped \in [Files -> BOOLEAN]
    BY <1>2 DEF Init
  <2> QED
    BY <2>1, <2>2, <2>3, <2>4, <2>5 DEF TypeOK
<1>4. \A w \in Workers : calls[w] = <<>> /\ page[w] = NoPage
  BY DEF Init
<1>5. \A w \in Workers : StackInv(w)
  <2>1. Shape(<<>>) /\ WantsMet(cachedTemplating, Exempt, NoPage, <<>>)
    BY DEF Shape, WantsMet
  <2> QED
    BY ONLY <1>4, <2>1 DEF StackInv
<1>6. AloneInv
  BY <1>4 DEF AloneInv, Makes
<1>7. CacheInv
  BY DEF Init, CacheInv
<1>8. TimeInv
  BY DEF Init, TimeInv
<1>9. \A w \in Workers : PageInv(w)
  BY <1>1, <1>4, Facts DEF Init, PageInv
<1>10. RouteInv
  BY <1>1, <1>4 DEF Init, RouteInv, At, Linked, Distinct
<1> QED
  BY <1>3, <1>5, <1>6, <1>7, <1>8, <1>9, <1>10 DEF IInv

LEMMA StepInv ==
    ASSUME IInv, [Next]_vars
    PROVE  IInv'
<1>1. ASSUME NEW f \in Files, Write(f)
      PROVE  IInv'
  BY <1>1, WriteKept
<1>2. ASSUME NEW f \in Files, Delete(f)
      PROVE  IInv'
  BY <1>2, DeleteKept
<1>3. CASE Tick
  <2>1. clock' \in 1 .. MaxTime /\ clock' >= clock
    BY <1>3, Facts DEF Tick, IInv, TypeOK
  <2> QED
    BY <1>3, <2>1, TickKept DEF Tick
<1>4. ASSUME NEW w \in Workers, WorkerStep(w)
      PROVE  IInv'
  <2>1. CASE Lookup(w)
    BY <2>1, LookupKept
  <2>2. CASE CheckTime(w)
    BY <2>2, CheckTimeKept
  <2>3. CASE OpenFile(w)
    BY <2>3, OpenFileKept
  <2>4. CASE StampFile(w)
    BY <2>4, StampFileKept
  <2>5. CASE StoreFile(w)
    BY <2>5, StoreFileKept
  <2>6. CASE TakeRoot(w)
    BY <2>6, TakeRootKept
  <2>7. CASE RenderInclude(w)
    BY <2>7, RenderIncludeKept
  <2>8. CASE FindRoute(w)
    BY <2>8, FindRouteKept
  <2>9. CASE AppendRoute(w)
    BY <2>9, AppendRouteKept
  <2>10. CASE ThrowError(w)
    BY <2>10, FailsKept DEF ThrowError
  <2>11. CASE Serve(w)
    BY <2>11, ServeKept
  <2> QED
    BY <1>4, <2>1, <2>2, <2>3, <2>4, <2>5, <2>6, <2>7, <2>8, <2>9, <2>10, <2>11 DEF WorkerStep
<1>5. ASSUME NEW w \in Workers, NEW f \in Files, StartRender(w, f)
      PROVE  IInv'
  BY <1>5, StartRenderKept
<1>6. CASE UNCHANGED vars
  <2>1. clock' \in 1 .. MaxTime /\ clock' >= clock
    BY <1>6, Facts DEF vars, IInv, TypeOK
  <2> QED
    BY <1>6, <2>1, TickKept DEF vars
<1> QED
  BY <1>1, <1>2, <1>3, <1>4, <1>5, <1>6 DEF Next

LEMMA Invariance == Spec => []IInv
<1>1. Init => IInv
  BY InitInv
<1>2. IInv /\ [Next]_vars => IInv'
  BY StepInv
<1> QED
  BY <1>1, <1>2, PTL DEF Spec

\* The variables have their types: a call names a file and carries what the step
\* that made it read (a version and a time that the file had).
THEOREM TypeCorrect == Spec => []TypeOK
<1>1. IInv => TypeOK
  BY DEF IInv
<1> QED
  BY <1>1, Invariance, PTL

\* A template that Render would not read again has the content of its file, but
\* for a write that fell between the reading and the time stamp of generateCache
\* or came twice in one tick of the clock.
THEOREM CacheIsHonest == Spec => []CacheHonest
<1>1. IInv => CacheHonest
  BY DEF IInv, CacheInv, EntryInv, Honest, CacheHonest
<1> QED
  BY <1>1, Invariance, PTL

\* A page is as new as its file was when Render was called, and its part as new
\* as when the page was last read, but for such a write or two workers that
\* generated the file at once.
THEOREM PagesServedFresh == Spec => []ServedFresh
<1>1. IInv => ServedFresh
  <2> SUFFICES ASSUME IInv, NEW w \in Workers, page[w].status = "served"
               PROVE  /\ \/ page[w].root >= page[w].asked
                         \/ raced[page[w].file] \/ overlapped[page[w].file]
                      /\ \/ page[w].part = 0 \/ page[w].part >= page[w].seen
                         \/ raced[Part] \/ overlapped[Part]
    BY DEF ServedFresh
  <2>1. ~Begun(calls[w])
    <3>1. calls[w] = <<>>
      BY DEF IInv, StackInv
    <3> QED
      BY <3>1 DEF Begun
  <2>2. Fresh(Exempt, page[w])
    BY <2>1 DEF IInv, PageInv
  <2> QED
    BY <2>2 DEF Fresh, Good, Exempt
<1> QED
  BY <1>1, Invariance, PTL

\* What a page links to may be fetched once the page is there, and is listed
\* once, unless two workers appended to routesFile at once.
THEOREM LinkedFilesServed == Spec => []LinksServed
<1>1. IInv => LinksServed
  <2> SUFFICES ASSUME IInv, ~clashed
               PROVE  /\ \A w \in Workers : page[w].status = "served" =>
                            page[w].links \subseteq Range(routesFile)
                      /\ \A i, j \in DOMAIN routesFile : routesFile[i] = routesFile[j] => i = j
    BY DEF LinksServed
  <2>1. Distinct(routesFile) /\ \A w \in Workers : Linked(w)
    BY DEF IInv, RouteInv
  <2>2. ASSUME NEW w \in Workers, page[w].status = "served"
        PROVE  page[w].links \subseteq Range(routesFile)
    <3>1. ~At(w, "grow")
      BY <2>2 DEF IInv, StackInv, At
    <3> QED
      BY <2>1, <2>2, <3>1 DEF Linked, Found
  <2> QED
    BY <2>1, <2>2 DEF Distinct
<1> QED
  BY <1>1, Invariance, PTL

==============================================================================
