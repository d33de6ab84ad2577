--------------------------- MODULE LruCacheProofs ----------------------------
(***************************************************************************)
(* Proofs about LruCache, for every set of paths and contents, every       *)
(* budget and however long the cache is used.                              *)
(***************************************************************************)
EXTENDS LruCache, SequenceTheorems, WellFoundedInduction, TLAPS

\* The types of the list and the map.
Shape ==
    /\ cacheList \in Seq(File)
    /\ DOMAIN cacheMap \subseteq Paths
    /\ \A p \in DOMAIN cacheMap : cacheMap[p] \in File /\ cacheMap[p].path = p

IInv == Shape /\ Coherent

\* What moving entries about must keep: the first entry of every path.
FirstsKept(old, new) ==
    \A p \in Paths, i \in DOMAIN old :
        IsFirst(old, i, p) => \E k \in DOMAIN new : IsFirst(new, k, p) /\ new[k] = old[i]

------------------------------------------------------------------------------
LEMMA MoveKeepsFirsts ==
    ASSUME NEW list \in Seq(File), NEW i \in DOMAIN list, NEW key \in Paths,
           IsFirst(list, i, key)
    PROVE  /\ MoveToFront(list, i) \in Seq(File)
           /\ FirstsKept(list, MoveToFront(list, i))
<1>1. PICK new : new = MoveToFront(list, i)
  OBVIOUS
<1>2. /\ DOMAIN list = 1 .. Len(list) /\ Len(list) \in Nat
      /\ \A j \in 1 .. Len(list) : list[j] \in File
      /\ i \in 1 .. Len(list)
  OBVIOUS
<1>3. /\ DOMAIN new = 1 .. Len(list)
      /\ \A j \in 1 .. Len(list) :
            new[j] = IF j = 1 THEN list[i] ELSE IF j <= i THEN list[j - 1] ELSE list[j]
  BY <1>1, <1>2 DEF MoveToFront
<1>4. new \in Seq(File)
  <2>1. new = [j \in 1 .. Len(list) |-> new[j]]
    BY <1>1, <1>2 DEF MoveToFront
  <2>2. \A j \in 1 .. Len(list) : new[j] \in File
    BY <1>2, <1>3
  <2> QED
    BY <1>2, <2>1, <2>2
<1>5. ASSUME NEW p \in Paths, NEW j \in DOMAIN list, IsFirst(list, j, p)
      PROVE  \E k \in DOMAIN new : IsFirst(new, k, p) /\ new[k] = list[j]
  <2>1. CASE p = key
    <3>1. i = j
      BY <1>2, <1>5, <2>1 DEF IsFirst
    <3>2. 1 \in DOMAIN new /\ new[1] = list[j]
      BY <1>2, <1>3, <3>1
    <3> QED
      BY <1>5, <3>2 DEF IsFirst
  <2>2. CASE p # key /\ j < i
    <3>1. j + 1 \in DOMAIN new /\ new[j + 1] = list[j]
      BY <1>2, <1>3, <2>2
    <3>2. ASSUME NEW m \in 1 .. (j + 1) - 1
          PROVE  new[m].path # p
      BY <1>2, <1>3, <1>5, <2>2 DEF IsFirst
    <3> QED
      BY <1>5, <3>1, <3>2 DEF IsFirst
  <2>3. CASE p # key /\ j > i
    <3>1. j \in DOMAIN new /\ new[j] = list[j]
      BY <1>2, <1>3, <2>3
    <3>2. ASSUME NEW m \in 1 .. j - 1
          PROVE  new[m].path # p
      BY <1>2, <1>3, <1>5, <2>3 DEF IsFirst
    <3> QED
      BY <1>5, <3>1, <3>2 DEF IsFirst
  <2>4. p # key => i # j
    BY <1>5 DEF IsFirst
  <2> QED
    BY <1>2, <2>1, <2>2, <2>3, <2>4
<1> QED
  BY <1>1, <1>4, <1>5 DEF FirstsKept

LEMMA TouchKeepsFirsts ==
    ASSUME NEW list \in Seq(File), NEW key \in Paths
    PROVE  Touched(list, key) \in Seq(File) /\ FirstsKept(list, Touched(list, key))
<1>1. CASE \E i \in DOMAIN list : IsFirst(list, i, key)
  <2>1. PICK i \in DOMAIN list : /\ IsFirst(list, i, key)
                                 /\ Touched(list, key) = MoveToFront(list, i)
    BY <1>1 DEF Touched
  <2> QED
    BY <2>1, MoveKeepsFirsts
<1>2. CASE ~ \E i \in DOMAIN list : IsFirst(list, i, key)
  BY <1>2 DEF Touched, FirstsKept
<1> QED
  BY <1>1, <1>2

------------------------------------------------------------------------------
LEMMA GetCoherent ==
    ASSUME IInv, NEW key \in Paths, Get(key)
    PROVE  IInv'
<1>1. cacheList' \in Seq(File) /\ FirstsKept(cacheList, cacheList')
  BY TouchKeepsFirsts DEF IInv, Shape, Get, FirstsKept
<1>2. cacheMap' = cacheMap
  BY DEF Get
<1>3. Coherent'
  <2> SUFFICES ASSUME NEW p \in DOMAIN cacheMap
               PROVE  \E k \in DOMAIN cacheList' :
                          IsFirst(cacheList', k, p) /\ cacheList'[k] = cacheMap[p]
    BY <1>2 DEF Coherent
  <2>1. PICK i \in DOMAIN cacheList : IsFirst(cacheList, i, p) /\ cacheList[i] = cacheMap[p]
    BY DEF IInv, Coherent
  <2> QED
    BY <1>1, <2>1 DEF FirstsKept, IInv, Shape
<1> QED
  BY <1>1, <1>2, <1>3 DEF IInv, Shape

\* What put() does, without the question of how much it evicts.
Replaced(list, n, file) ==
    LET lost == {list[i].path : i \in n + 1 .. Len(list)}
    IN  /\ cacheList' = <<file>> \o SubSeq(list, 1, n)
        /\ cacheMap' = SetFile(Erase(cacheMap, lost), file)

LEMMA PutReplaces ==
    ASSUME IInv, NEW key \in Paths, NEW content \in Contents, Put(key, content)
    PROVE  IF AdmittedSize(Size[content])
             THEN \E list \in Seq(File), n \in Nat :
                     /\ FirstsKept(cacheList, list)
                     /\ n \in 0 .. Len(list)
                     /\ Replaced(list, n, [path |-> key, content |-> content])
             ELSE UNCHANGED cvars
<1>1. PICK list : list = IF key \in DOMAIN cacheMap THEN Touched(cacheList, key) ELSE cacheList
  OBVIOUS
<1>2. list \in Seq(File) /\ FirstsKept(cacheList, list)
  BY <1>1, TouchKeepsFirsts DEF IInv, Shape, FirstsKept
<1>3. CASE AdmittedSize(Size[content])
  <2>1. PICK n \in 0 .. Len(list) : Replaced(list, n, [path |-> key, content |-> content])
    BY <1>1, <1>3, ZenonT(60) DEF Put, RoomFirst, Replaced
  <2> QED
    BY <1>2, <1>3, <2>1
<1>4. CASE ~AdmittedSize(Size[content])
  BY <1>4 DEF Put
<1> QED
  BY <1>3, <1>4

LEMMA ReplacedCoherent ==
    ASSUME IInv, NEW list \in Seq(File), NEW n \in 0 .. Len(list), NEW file \in File,
           FirstsKept(cacheList, list), Replaced(list, n, file)
    PROVE  IInv'
<1>1. PICK lost : lost = {list[i].path : i \in n + 1 .. Len(list)}
  OBVIOUS
<1>2. PICK kept : kept = SubSeq(list, 1, n)
  OBVIOUS
<1>3. /\ kept \in Seq(File) /\ Len(kept) = n
      /\ \A i \in 1 .. n : kept[i] = list[i]
  BY <1>2
<1>4. /\ cacheList' \in Seq(File)
      /\ DOMAIN cacheList' = 1 .. n + 1
      /\ cacheList'[1] = file
      /\ \A i \in 1 .. n : cacheList'[i + 1] = list[i]
  <2>1. cacheList' = <<file>> \o kept
    BY <1>2 DEF Replaced
  <2>2. cacheList' \in Seq(File) /\ Len(cacheList') = n + 1
    BY <1>3, <2>1
  <2>3. cacheList'[1] = file
    BY <1>3, <2>1
  <2>4. \A i \in 1 .. n : cacheList'[i + 1] = kept[i]
    BY <1>3, <2>1
  <2> QED
    BY <1>3, <2>2, <2>3, <2>4
<1>5. /\ DOMAIN cacheMap' = (DOMAIN cacheMap \ lost) \cup {file.path}
      /\ cacheMap'[file.path] = file
      /\ \A p \in DOMAIN cacheMap \ lost : p # file.path => cacheMap'[p] = cacheMap[p]
  <2>1. PICK left : left = Erase(cacheMap, lost)
    OBVIOUS
  <2>2. /\ DOMAIN left = DOMAIN cacheMap \ lost
        /\ \A p \in DOMAIN left : left[p] = cacheMap[p]
    BY <2>1 DEF Erase, Restrict
  <2>3. cacheMap' = SetFile(left, file)
    BY <1>1, <2>1 DEF Replaced
  <2> QED
    BY <2>2, <2>3 DEF SetFile
<1>6. Shape'
  <2>1. file.path \in Paths
    BY DEF File
  <2>2. DOMAIN cacheMap' \subseteq Paths
    BY <1>5, <2>1 DEF IInv, Shape
  <2>3. \A p \in DOMAIN cacheMap' : cacheMap'[p] \in File /\ cacheMap'[p].path = p
    BY <1>5 DEF IInv, Shape
  <2> QED
    BY <1>4, <2>2, <2>3 DEF Shape
<1>7. ASSUME NEW p \in DOMAIN cacheMap'
      PROVE  \E k \in DOMAIN cacheList' :
                 IsFirst(cacheList', k, p) /\ cacheList'[k] = cacheMap'[p]
  <2>1. CASE p = file.path
    BY <1>4, <1>5, <2>1 DEF IsFirst
  <2>2. CASE p # file.path
    <3>1. p \in DOMAIN cacheMap /\ p \in Paths /\ p \notin lost /\ cacheMap'[p] = cacheMap[p]
      BY <1>5, <2>2 DEF IInv, Shape
    <3>2. PICK j \in DOMAIN list : IsFirst(list, j, p) /\ list[j] = cacheMap[p]
      BY <3>1 DEF IInv, Coherent, FirstsKept
    <3>3. j \in 1 .. n
      <4>1. DOMAIN list = 1 .. Len(list) /\ list[j].path = p
        BY <3>2 DEF IsFirst
      <4> QED
        BY <1>1, <3>1, <4>1
    <3>4. j + 1 \in DOMAIN cacheList' /\ cacheList'[j + 1] = cacheMap'[p]
      BY <1>4, <3>1, <3>2, <3>3
    <3>5. ASSUME NEW m \in 1 .. (j + 1) - 1
          PROVE  cacheList'[m].path # p
      <4>1. CASE m = 1
        BY <1>4, <2>2, <4>1
      <4>2. CASE m # 1
        <5>1. m - 1 \in 1 .. j - 1 /\ m - 1 \in 1 .. n /\ (m - 1) + 1 = m
          BY <3>3, <4>2
        <5> QED
          BY <1>4, <3>2, <5>1 DEF IsFirst
      <4> QED
        BY <4>1, <4>2
    <3> QED
      BY <3>2, <3>3, <3>4, <3>5, <1>4 DEF IsFirst
  <2> QED
    BY <2>1, <2>2
<1> QED
  BY <1>6, <1>7 DEF IInv, Coherent

LEMMA PutCoherent ==
    ASSUME IInv, NEW key \in Paths, NEW content \in Contents, Put(key, content)
    PROVE  IInv'
<1>1. [path |-> key, content |-> content] \in File
  BY DEF File
<1>2. CASE ~AdmittedSize(Size[content])
  BY <1>2, PutReplaces DEF IInv, Shape, Coherent, cvars
<1>3. CASE AdmittedSize(Size[content])
  BY <1>1, <1>3, PutReplaces, ReplacedCoherent
<1> QED
  BY <1>2, <1>3

LEMMA InitCoherent == CacheInit => IInv
BY DEF CacheInit, IInv, Shape, Coherent

LEMMA NextCoherent == IInv /\ [CacheNext]_cvars => IInv'
<1> SUFFICES ASSUME IInv, [CacheNext]_cvars
             PROVE  IInv'
  OBVIOUS
<1>1. ASSUME NEW key \in Paths, Get(key)
      PROVE  IInv'
  BY <1>1, GetCoherent
<1>2. ASSUME NEW key \in Paths, NEW content \in Contents, Put(key, content)
      PROVE  IInv'
  BY <1>2, PutCoherent
<1>3. CASE UNCHANGED cvars
  BY <1>3 DEF IInv, Shape, Coherent, cvars
<1> QED
  BY <1>1, <1>2, <1>3 DEF CacheNext

\* A path the map knows is in the list, and its first entry there is what the
\* map holds: put() never throws.
THEOREM Coherence == CacheSpec => []Coherent
<1>1. IInv => Coherent
  BY DEF IInv
<1> QED
  BY <1>1, InitCoherent, NextCoherent, PTL DEF CacheSpec

------------------------------------------------------------------------------
(* Nothing gets into the list that put() does not admit.                    *)

Admitted(file) == Size[file.content] \in 1 .. MaxSize - 1

Entries(list) == {list[i] : i \in DOMAIN list}

LEMMA TouchedEntries ==
    ASSUME NEW list \in Seq(File), NEW key \in Paths
    PROVE  Entries(Touched(list, key)) \subseteq Entries(list)
<1>1. CASE \E i \in DOMAIN list : IsFirst(list, i, key)
  <2>1. PICK i \in DOMAIN list : Touched(list, key) = MoveToFront(list, i)
    BY <1>1 DEF Touched
  <2>2. PICK new : new = MoveToFront(list, i)
    OBVIOUS
  <2>3. /\ DOMAIN new = 1 .. Len(list) /\ DOMAIN list = 1 .. Len(list)
        /\ Len(list) \in Nat /\ i \in 1 .. Len(list)
        /\ \A j \in 1 .. Len(list) :
              new[j] = IF j = 1 THEN list[i] ELSE IF j <= i THEN list[j - 1] ELSE list[j]
    BY <2>2 DEF MoveToFront
  <2>4. ASSUME NEW j \in 1 .. Len(list)
        PROVE  \E k \in 1 .. Len(list) : new[j] = list[k]
    <3>1. CASE j = 1
      BY <2>3, <3>1
    <3>2. CASE j # 1 /\ j <= i
      <4>1. j - 1 \in 1 .. Len(list) /\ new[j] = list[j - 1]
        BY <2>3, <3>2
      <4> QED
        BY <4>1
    <3>3. CASE j # 1 /\ ~(j <= i)
      BY <2>3, <3>3
    <3> QED
      BY <3>1, <3>2, <3>3
  <2>5. Touched(list, key) = new
    BY <2>1, <2>2
  <2>6. Entries(new) \subseteq Entries(list)
    <3>1. ASSUME NEW f \in Entries(new)
          PROVE  f \in Entries(list)
      <4>1. PICK j \in 1 .. Len(list) : f = new[j]
        BY <2>3, <3>1 DEF Entries
      <4>2. PICK k \in 1 .. Len(list) : new[j] = list[k]
        BY <2>4
      <4> QED
        BY <2>3, <4>1, <4>2 DEF Entries
    <3> QED
      BY <3>1
  <2> QED
    BY <2>5, <2>6
<1>2. CASE ~ \E i \in DOMAIN list : IsFirst(list, i, key)
  BY <1>2 DEF Touched
<1> QED
  BY <1>1, <1>2

LEMMA PutEntries ==
    ASSUME Shape, NEW key \in Paths, NEW content \in Contents, Put(key, content)
    PROVE  Entries(cacheList') \subseteq Entries(cacheList)
                \cup {f \in {[path |-> key, content |-> content]} : AdmittedSize(Size[content])}
<1>1. PICK list : list = IF key \in DOMAIN cacheMap THEN Touched(cacheList, key) ELSE cacheList
  OBVIOUS
<1>2. list \in Seq(File) /\ Entries(list) \subseteq Entries(cacheList)
  BY <1>1, TouchKeepsFirsts, TouchedEntries DEF Shape
<1>3. CASE AdmittedSize(Size[content])
  <2>1. PICK n \in 0 .. Len(list) :
            cacheList' = <<[path |-> key, content |-> content]>> \o SubSeq(list, 1, n)
    BY <1>1, <1>3 DEF Put
  <2>2. PICK file, kept : /\ file = [path |-> key, content |-> content]
                          /\ kept = SubSeq(list, 1, n)
    OBVIOUS
  <2>3. /\ kept \in Seq(File) /\ Len(kept) = n /\ file \in File
        /\ \A i \in 1 .. n : kept[i] = list[i]
    <3>1. /\ kept \in Seq(File) /\ Len(kept) = n
          /\ \A i \in 1 .. n : kept[i] = list[i]
      BY <1>2, <2>2
    <3>2. file \in File
      BY <2>2 DEF File
    <3> QED
      BY <3>1, <3>2
  <2>4. /\ DOMAIN cacheList' = 1 .. n + 1 /\ cacheList'[1] = file
        /\ \A i \in 1 .. n : cacheList'[i + 1] = kept[i]
    BY <2>1, <2>2, <2>3
  <2>5. ASSUME NEW j \in 1 .. n + 1
        PROVE  cacheList'[j] \in Entries(list) \cup {file}
    <3>1. CASE j = 1
      BY <2>4, <3>1
    <3>2. CASE j # 1
      <4>1. j - 1 \in 1 .. n /\ (j - 1) + 1 = j /\ j - 1 \in DOMAIN list
        BY <1>2, <3>2
      <4>2. cacheList'[j] = list[j - 1]
        BY <2>3, <2>4, <4>1
      <4> QED
        BY <4>1, <4>2 DEF Entries
    <3> QED
      BY <3>1, <3>2
  <2>6. Entries(cacheList') \subseteq Entries(list) \cup {file}
    BY <2>4, <2>5 DEF Entries
  <2> QED
    BY <1>2, <1>3, <2>2, <2>6
<1>4. CASE ~AdmittedSize(Size[content])
  BY <1>4 DEF Put, cvars
<1> QED
  BY <1>3, <1>4

LEMMA TypesAreShape ==
    CacheTypeOK <=> Shape /\ \A f \in Entries(cacheList) : Admitted(f)
<1>1. CacheTypeOK <=> Shape /\ \A i \in DOMAIN cacheList : Admitted(cacheList[i])
  BY DEF CacheTypeOK, Shape, Admitted
<1> QED
  BY <1>1 DEF Entries

LEMMA GetTypes ==
    ASSUME IInv, CacheTypeOK, NEW key \in Paths, Get(key)
    PROVE  CacheTypeOK'
<1>1. Shape'
  BY GetCoherent DEF IInv
<1>2. Entries(cacheList') \subseteq Entries(cacheList)
  BY TouchedEntries DEF Get, IInv, Shape
<1> QED
  BY <1>1, <1>2, TypesAreShape DEF Admitted, CacheTypeOK, Shape, Entries

LEMMA PutTypes ==
    ASSUME IInv, CacheTypeOK, NEW key \in Paths, NEW content \in Contents, Put(key, content)
    PROVE  CacheTypeOK'
<1>1. Shape'
  BY PutCoherent DEF IInv
<1>2. \A f \in Entries(cacheList') : f \in Entries(cacheList)
            \/ (f = [path |-> key, content |-> content] /\ AdmittedSize(Size[content]))
  BY PutEntries DEF IInv
<1>3. AdmittedSize(Size[content]) => Size[content] \in 1 .. MaxSize - 1
  BY SizeAssumption, MaxSizeAssumption DEF AdmittedSize
<1>4. \A f \in Entries(cacheList') : Admitted(f)
  BY <1>2, <1>3, TypesAreShape DEF Admitted
<1> QED
  BY <1>1, <1>4 DEF CacheTypeOK, Shape, Admitted, Entries

\* The list holds admitted files only, whatever is put and however often: an
\* empty file or one as large as the budget never gets in.
THEOREM CacheTypesHold == CacheSpec => []CacheTypeOK
<1>1. CacheInit => CacheTypeOK
  BY DEF CacheInit, CacheTypeOK
<1>2. IInv /\ CacheTypeOK /\ [CacheNext]_cvars => CacheTypeOK'
  <2> SUFFICES ASSUME IInv, CacheTypeOK, [CacheNext]_cvars
               PROVE  CacheTypeOK'
    OBVIOUS
  <2>1. CASE UNCHANGED cvars
    BY <2>1 DEF cvars, CacheTypeOK
  <2> QED
    BY <2>1, GetTypes, PutTypes DEF CacheNext
<1> QED
  BY <1>1, <1>2, InitCoherent, NextCoherent, PTL DEF CacheSpec

------------------------------------------------------------------------------
(***************************************************************************)
(* Sums over lists.  The induction is the least element of a set of        *)
(* numbers, the least counterexample of what is to be shown.               *)
(***************************************************************************)
LEMMA LeastElement ==
    ASSUME NEW S \in SUBSET Nat, S # {}
    PROVE  \E n \in S : \A m \in S : n <= m
<1>1. PICK n \in S : \A m \in S : ~ (<<m, n>> \in OpToRel(<, Nat))
  BY WFMin, NatLessThanWellFounded, Zenon
<1>2. \A m \in S : ~ (m < n)
  BY <1>1 DEF OpToRel
<1> QED
  BY <1>2

\* What holds of 0 and goes on from each number to the next holds up to N.
LEMMA UpTo ==
    ASSUME NEW N \in Nat, NEW T,
           0 \in T, \A n \in 0 .. N - 1 : n \in T => n + 1 \in T
    PROVE  \A n \in 0 .. N : n \in T
<1> DEFINE S == {n \in 0 .. N : n \notin T}
<1> SUFFICES ASSUME S # {}
             PROVE  FALSE
  OBVIOUS
<1>1. PICK n \in S : \A m \in S : n <= m
  <2>1. S \in SUBSET Nat
    OBVIOUS
  <2> HIDE DEF S
  <2> QED
    BY <2>1, LeastElement
<1>2. n \in 1 .. N /\ n - 1 \in 0 .. N - 1 /\ (n - 1) + 1 = n
  OBVIOUS
<1>3. n - 1 \notin S
  BY <1>1, <1>2
<1> QED
  BY <1>2, <1>3

IsSum(sum, w, N) == sum[0] = 0 /\ \A i \in 1 .. N : sum[i] = sum[i - 1] + w[i]

LEMMA SumExists ==
    ASSUME NEW N \in Nat, NEW w \in [1 .. N -> Nat]
    PROVE  \E sum \in [0 .. N -> Nat] : IsSum(sum, w, N)
<1> DEFINE Summed(n) == \E sum \in [0 .. n -> Nat] : IsSum(sum, w, n)
           T == {n \in 0 .. N : Summed(n)}
<1>1. 0 \in T
  <2>1. PICK z : z = [i \in 0 .. 0 |-> 0]
    OBVIOUS
  <2>2. z \in [0 .. 0 -> Nat] /\ IsSum(z, w, 0)
    BY <2>1 DEF IsSum
  <2> QED
    BY <2>2
<1>2. ASSUME NEW n \in 0 .. N - 1, n \in T
      PROVE  n + 1 \in T
  <2>1. PICK old \in [0 .. n -> Nat] : IsSum(old, w, n)
    BY <1>2
  <2>2. PICK new : new = [i \in 0 .. n + 1 |-> IF i = n + 1 THEN old[n] + w[n + 1] ELSE old[i]]
    OBVIOUS
  <2>3. n \in Nat /\ n + 1 \in 1 .. N /\ old[n] \in Nat /\ w[n + 1] \in Nat
    OBVIOUS
  <2>4. new \in [0 .. n + 1 -> Nat]
    BY <2>2, <2>3
  <2>5. new[0] = 0
    BY <2>1, <2>2, <2>3 DEF IsSum
  <2>6. ASSUME NEW i \in 1 .. n + 1
        PROVE  new[i] = new[i - 1] + w[i]
    <3>1. CASE i = n + 1
      BY <2>2, <2>3, <3>1
    <3>2. CASE i # n + 1
      <4>1. i \in 1 .. n /\ i - 1 \in 0 .. n /\ i - 1 # n + 1 /\ i \in 0 .. n + 1 /\ i - 1 \in 0 .. n + 1
        BY <2>3, <3>2
      <4> QED
        BY <2>1, <2>2, <3>2, <4>1 DEF IsSum
    <3> QED
      BY <3>1, <3>2
  <2>7. IsSum(new, w, n + 1)
    BY <2>5, <2>6 DEF IsSum
  <2>8. Summed(n + 1)
    BY <2>4, <2>7
  <2> HIDE DEF Summed
  <2> QED
    BY <2>3, <2>8
<1>3. \A n \in 0 .. N : n \in T
  <2> HIDE DEF T
  <2> QED
    BY <1>1, <1>2, UpTo
<1>4. Summed(N)
  <2> HIDE DEF Summed
  <2> QED
    BY <1>3
<1> QED
  BY <1>4

Sizes(list) == [i \in 1 .. Len(list) |-> Size[list[i].content]]

LEMMA SizesAreNumbers ==
    ASSUME NEW list \in Seq(File)
    PROVE  /\ Len(list) \in Nat /\ Sizes(list) \in [1 .. Len(list) -> Nat]
           /\ \A i \in 1 .. Len(list) : Size[list[i].content] \in Nat
<1>1. \A i \in 1 .. Len(list) : list[i] \in File
  OBVIOUS
<1>2. \A i \in 1 .. Len(list) : Size[list[i].content] \in Nat
  BY <1>1, SizeAssumption DEF File
<1> QED
  BY <1>2 DEF Sizes

\* What Bytes is for.
LEMMA BytesAreSums ==
    ASSUME NEW list \in Seq(File)
    PROVE  /\ Bytes(list, 0) = 0
           /\ \A n \in 1 .. Len(list) :
                 Bytes(list, n) = Bytes(list, n - 1) + Size[list[n].content]
           /\ \A n \in 0 .. Len(list) : Bytes(list, n) \in Nat
<1>1. PICK N \in Nat : N = Len(list)
  OBVIOUS
<1>2. PICK g \in [0 .. N -> Nat] : IsSum(g, Sizes(list), N)
  BY <1>1, SumExists, SizesAreNumbers
<1>3. g = [i \in 0 .. N |-> IF i = 0 THEN 0 ELSE g[i - 1] + Size[list[i].content]]
  <2>1. \A i \in 1 .. N : g[i] = g[i - 1] + Size[list[i].content]
    BY <1>1, <1>2 DEF IsSum, Sizes
  <2>2. \A i \in 0 .. N : g[i] = IF i = 0 THEN 0 ELSE g[i - 1] + Size[list[i].content]
    BY <1>2, <2>1 DEF IsSum
  <2> QED
    BY <2>2
<1>4. PICK sum : sum = CHOOSE h : h = [i \in 0 .. N |-> IF i = 0 THEN 0
                                                       ELSE h[i - 1] + Size[list[i].content]]
  OBVIOUS
<1>5. sum = [i \in 0 .. N |-> IF i = 0 THEN 0 ELSE sum[i - 1] + Size[list[i].content]]
  BY <1>3, <1>4, Zenon
<1>6. \A n : Bytes(list, n) = sum[n]
  BY <1>1, <1>4 DEF Bytes
<1>7. sum[0] = 0 /\ \A n \in 1 .. N : sum[n] = sum[n - 1] + Size[list[n].content]
  BY <1>5
<1>8. \A n \in 0 .. N : sum[n] \in Nat
  <2> DEFINE T == {n \in 0 .. N : sum[n] \in Nat}
  <2>1. 0 \in T
    BY <1>7
  <2>2. ASSUME NEW n \in 0 .. N - 1, n \in T
        PROVE  n + 1 \in T
    <3>1. n + 1 \in 1 .. N /\ (n + 1) - 1 = n
      OBVIOUS
    <3>2. sum[n + 1] = sum[n] + Size[list[n + 1].content]
      BY <1>7, <3>1
    <3>3. Size[list[n + 1].content] \in Nat
      BY <1>1, <3>1, SizesAreNumbers
    <3> QED
      BY <2>2, <3>1, <3>2, <3>3, SMTT(30)
  <2> HIDE DEF T
  <2>3. \A n \in 0 .. N : n \in T
    BY <2>1, <2>2, UpTo
  <2> QED
    BY <2>3 DEF T
<1> QED
  BY <1>1, <1>6, <1>7, <1>8

LEMMA BytesOfMoved ==
    ASSUME NEW list \in Seq(File), NEW i \in DOMAIN list, MoveToFront(list, i) \in Seq(File)
    PROVE  /\ Len(MoveToFront(list, i)) = Len(list)
           /\ Bytes(MoveToFront(list, i), Len(list)) = Bytes(list, Len(list))
<1>1. PICK new : new = MoveToFront(list, i)
  OBVIOUS
<1>2. PICK N \in Nat : N = Len(list) /\ DOMAIN list = 1 .. N /\ i \in 1 .. N
  OBVIOUS
<1>3. /\ DOMAIN new = 1 .. N
      /\ \A j \in 1 .. N :
            new[j] = IF j = 1 THEN list[i] ELSE IF j <= i THEN list[j - 1] ELSE list[j]
  BY <1>1, <1>2 DEF MoveToFront
<1>4. new \in Seq(File) /\ Len(new) = N
  BY <1>1, <1>2, <1>3
<1>5. /\ Bytes(new, 0) = 0
      /\ \A n \in 1 .. N : Bytes(new, n) = Bytes(new, n - 1) + Size[new[n].content]
      /\ \A n \in 0 .. N : Bytes(new, n) \in Nat
  BY <1>4, BytesAreSums
<1>6. /\ Bytes(list, 0) = 0
      /\ \A n \in 1 .. N : Bytes(list, n) = Bytes(list, n - 1) + Size[list[n].content]
      /\ \A n \in 0 .. N : Bytes(list, n) \in Nat
  BY <1>2, BytesAreSums
<1>7. \A n \in 1 .. N : Size[list[n].content] \in Nat
  BY <1>2, SizesAreNumbers
<1> DEFINE size == Size[list[i].content]
<1>8. \A n \in 0 .. i - 1 : Bytes(new, n + 1) = size + Bytes(list, n)
  <2> DEFINE T == {n \in 0 .. i - 1 : Bytes(new, n + 1) = size + Bytes(list, n)}
  <2>1. 0 \in T
    <3>1. new[1] = list[i] /\ 1 \in 1 .. N
      BY <1>2, <1>3
    <3>2. Bytes(new, 1) = Bytes(new, 0) + size
      BY <1>5, <3>1
    <3>3. size \in Nat
      BY <1>2, <1>7
    <3> QED
      BY <1>2, <1>5, <1>6, <3>2, <3>3
  <2>2. ASSUME NEW n \in 0 .. (i - 1) - 1, n \in T
        PROVE  n + 1 \in T
    <3>1. /\ n + 1 \in 1 .. N /\ n + 2 \in 1 .. N /\ n + 1 \in 0 .. i - 1 /\ n \in 0 .. N
          /\ (n + 2) - 1 = n + 1 /\ (n + 1) - 1 = n /\ n + 2 # 1 /\ n + 2 <= i
          /\ (n + 1) + 1 = n + 2
      BY <1>2
    <3>2. new[n + 2] = list[n + 1]
      BY <1>3, <3>1
    <3>3. Bytes(new, n + 2) = Bytes(new, n + 1) + Size[list[n + 1].content]
      BY <1>5, <3>1, <3>2
    <3>4. Bytes(list, n + 1) = Bytes(list, n) + Size[list[n + 1].content]
      BY <1>6, <3>1
    <3>5. Bytes(new, n + 1) = size + Bytes(list, n)
      BY <2>2
    <3>6. /\ size \in Nat /\ Size[list[n + 1].content] \in Nat
          /\ Bytes(list, n) \in Nat /\ Bytes(new, n + 1) \in Nat
      BY <1>2, <1>5, <1>6, <1>7, <3>1, SMTT(30)
    <3>7. Bytes(new, n + 2) = size + Bytes(list, n + 1)
      <4>1. PICK a, b, c, x, y, z :
                /\ a = Bytes(new, n + 2) /\ b = Bytes(new, n + 1) /\ c = Bytes(list, n + 1)
                /\ x = size /\ y = Size[list[n + 1].content] /\ z = Bytes(list, n)
        OBVIOUS
      <4>2. a = b + y /\ c = z + y /\ b = x + z /\ x \in Nat /\ y \in Nat /\ z \in Nat
        BY <3>3, <3>4, <3>5, <3>6, <4>1
      <4>3. a = x + c
        BY ONLY <4>2
      <4> QED
        BY <4>1, <4>3
    <3> QED
      BY <3>1, <3>7
  <2>3. i - 1 \in Nat
    BY <1>2
  <2>4. \A n \in 0 .. i - 1 : n \in T
    <3> HIDE DEF T
    <3> QED
      BY <2>1, <2>2, <2>3, UpTo
  <2> QED
    BY <2>4
<1>9. Bytes(new, i) = Bytes(list, i)
  <2>1. i - 1 \in 0 .. i - 1 /\ (i - 1) + 1 = i /\ i \in 1 .. N /\ i - 1 \in 0 .. N
    BY <1>2
  <2>2. Bytes(new, i) = size + Bytes(list, i - 1)
    BY <1>8, <2>1
  <2>3. Bytes(list, i) = Bytes(list, i - 1) + size
    BY <1>6, <2>1
  <2>4. size \in Nat /\ Bytes(list, i - 1) \in Nat
    BY <1>6, <1>7, <2>1
  <2> HIDE DEF size
  <2> QED
    BY <2>2, <2>3, <2>4
<1>10. \A n \in 0 .. N : n \in {m \in 0 .. N : m >= i => Bytes(new, m) = Bytes(list, m)}
  <2> DEFINE T == {m \in 0 .. N : m >= i => Bytes(new, m) = Bytes(list, m)}
  <2>1. 0 \in T
    BY <1>2
  <2>2. ASSUME NEW n \in 0 .. N - 1, n \in T
        PROVE  n + 1 \in T
    <3>1. n + 1 \in 1 .. N /\ (n + 1) - 1 = n /\ n + 1 \in 0 .. N
      BY <1>2
    <3>2. CASE n + 1 < i
      BY <1>2, <3>1, <3>2
    <3>3. CASE n + 1 = i
      BY <1>9, <3>1, <3>3
    <3>4. CASE n + 1 > i
      <4>1. n >= i /\ new[n + 1] = list[n + 1]
        BY <1>2, <1>3, <3>1, <3>4
      <4>2. Bytes(new, n) = Bytes(list, n)
        BY <2>2, <4>1
      <4>3. Bytes(new, n + 1) = Bytes(list, n + 1)
        BY <1>5, <1>6, <3>1, <4>1, <4>2
      <4> QED
        BY <3>1, <4>3
    <3> QED
      BY <1>2, <3>1, <3>2, <3>3, <3>4
  <2> HIDE DEF T
  <2>3. \A n \in 0 .. N : n \in T
    BY <2>1, <2>2, UpTo
  <2> QED
    BY <2>3 DEF T
<1>11. Bytes(new, N) = Bytes(list, N)
  <2>1. N \in 0 .. N /\ N >= i
    BY <1>2
  <2> QED
    BY <1>10, <2>1
<1> QED
  BY <1>1, <1>2, <1>4, <1>11

LEMMA BytesOfTouched ==
    ASSUME NEW list \in Seq(File), NEW key \in Paths
    PROVE  /\ Len(Touched(list, key)) = Len(list)
           /\ Bytes(Touched(list, key), Len(list)) = Bytes(list, Len(list))
<1>1. CASE \E i \in DOMAIN list : IsFirst(list, i, key)
  <2>1. PICK i \in DOMAIN list : Touched(list, key) = MoveToFront(list, i)
    BY <1>1 DEF Touched
  <2>2. MoveToFront(list, i) \in Seq(File)
    BY <2>1, TouchKeepsFirsts
  <2> QED
    BY <2>1, <2>2, BytesOfMoved
<1>2. CASE ~ \E i \in DOMAIN list : IsFirst(list, i, key)
  BY <1>2 DEF Touched
<1> QED
  BY <1>1, <1>2

LEMMA BytesOfPut ==
    ASSUME NEW list \in Seq(File), NEW n \in 0 .. Len(list), NEW file \in File
    PROVE  /\ Len(<<file>> \o SubSeq(list, 1, n)) = n + 1
           /\ Bytes(<<file>> \o SubSeq(list, 1, n), n + 1) = Size[file.content] + Bytes(list, n)
<1>1. PICK kept : kept = SubSeq(list, 1, n)
  OBVIOUS
<1>2. /\ kept \in Seq(File) /\ Len(kept) = n
      /\ \A i \in 1 .. n : kept[i] = list[i]
  BY <1>1
<1>3. PICK new : new = <<file>> \o kept
  OBVIOUS
<1>4. /\ new \in Seq(File) /\ Len(new) = n + 1 /\ new[1] = file
      /\ \A i \in 1 .. n : new[i + 1] = kept[i]
  BY <1>2, <1>3
<1>5. n \in Nat /\ Len(list) \in Nat /\ n <= Len(list)
  OBVIOUS
<1>6. /\ Bytes(new, 0) = 0
      /\ \A i \in 1 .. n + 1 : Bytes(new, i) = Bytes(new, i - 1) + Size[new[i].content]
  BY <1>4, BytesAreSums
<1>7. /\ Bytes(list, 0) = 0
      /\ \A i \in 1 .. n : /\ Bytes(list, i) = Bytes(list, i - 1) + Size[list[i].content]
                           /\ Size[list[i].content] \in Nat
      /\ \A i \in 0 .. n : Bytes(list, i) \in Nat
  BY <1>5, BytesAreSums, SizesAreNumbers
<1>8. Size[file.content] \in Nat
  BY SizeAssumption DEF File
<1> DEFINE size == Size[file.content]
           T == {i \in 0 .. n : Bytes(new, i + 1) = size + Bytes(list, i)}
<1>9. 0 \in T
  <2>1. Bytes(new, 1) = Bytes(new, 0) + size
    BY <1>4, <1>5, <1>6
  <2> QED
    BY <1>5, <1>6, <1>7, <1>8, <2>1
<1>10. ASSUME NEW i \in 0 .. n - 1, i \in T
       PROVE  i + 1 \in T
  <2>1. /\ i + 1 \in 1 .. n /\ i + 2 \in 1 .. n + 1 /\ i \in 0 .. n /\ i + 1 \in 0 .. n
        /\ (i + 2) - 1 = i + 1 /\ (i + 1) - 1 = i /\ (i + 1) + 1 = i + 2
    BY <1>5
  <2>2. new[i + 2] = list[i + 1]
    BY <1>2, <1>4, <2>1
  <2>3. Bytes(new, i + 2) = Bytes(new, i + 1) + Size[list[i + 1].content]
    BY <1>6, <2>1, <2>2
  <2>4. Bytes(list, i + 1) = Bytes(list, i) + Size[list[i + 1].content]
    BY <1>7, <2>1
  <2>5. Bytes(new, i + 1) = size + Bytes(list, i)
    BY <1>10
  <2>6. Bytes(list, i) \in Nat /\ Size[list[i + 1].content] \in Nat
    BY <1>7, <2>1
  <2>7. Bytes(new, i + 2) = size + Bytes(list, i + 1)
    <3>1. PICK a, b, c, x, y, z :
              /\ a = Bytes(new, i + 2) /\ b = Bytes(new, i + 1) /\ c = Bytes(list, i + 1)
              /\ x = size /\ y = Size[list[i + 1].content] /\ z = Bytes(list, i)
      OBVIOUS
    <3>2. a = b + y /\ c = z + y /\ b = x + z /\ x \in Nat /\ y \in Nat /\ z \in Nat
      BY <1>8, <2>3, <2>4, <2>5, <2>6, <3>1
    <3>3. a = x + c
      BY ONLY <3>2
    <3> QED
      BY <3>1, <3>3
  <2> QED
    BY <2>1, <2>7
<1>11. n \in T
  <2> HIDE DEF T
  <2>1. \A m \in 0 .. n : m \in T
    BY <1>5, <1>9, <1>10, UpTo
  <2> QED
    BY <1>5, <2>1
<1>12. Bytes(new, n + 1) = size + Bytes(list, n)
  BY <1>11
<1> QED
  BY <1>1, <1>3, <1>4, <1>12

LEMMA GetBudget ==
    ASSUME IInv, WithinBudget, NEW key \in Paths, Get(key)
    PROVE  WithinBudget'
<1>1. cacheList \in Seq(File)
  BY DEF IInv, Shape
<1>2. /\ Len(cacheList') = Len(cacheList)
      /\ Bytes(cacheList', Len(cacheList)) = Bytes(cacheList, Len(cacheList))
  BY <1>1, BytesOfTouched DEF Get
<1>3. currentSize' = currentSize
  BY DEF Get
<1>4. Bytes(cacheList, Len(cacheList))' = Bytes(cacheList', Len(cacheList))
  BY <1>2 DEF Bytes
<1> QED
  BY <1>2, <1>3, <1>4 DEF WithinBudget

LEMMA PutBudget ==
    ASSUME IInv, WithinBudget, NEW key \in Paths, NEW content \in Contents, Put(key, content)
    PROVE  WithinBudget'
<1>1. PICK list : list = IF key \in DOMAIN cacheMap THEN Touched(cacheList, key) ELSE cacheList
  OBVIOUS
<1>2. /\ list \in Seq(File) /\ currentSize \in Nat /\ MaxSize \in Nat
      /\ currentSize = Bytes(list, Len(list))
  <2>1. cacheList \in Seq(File)
    BY DEF IInv, Shape
  <2> QED
    BY <1>1, <2>1, TouchKeepsFirsts, BytesOfTouched, MaxSizeAssumption DEF WithinBudget
<1>3. CASE UNCHANGED cvars
  <2>1. Bytes(cacheList, Len(cacheList))' = Bytes(cacheList, Len(cacheList))
    BY <1>3 DEF cvars, Bytes
  <2> QED
    BY <1>3, <2>1 DEF cvars, WithinBudget
<1>4. CASE ~UNCHANGED cvars
  <2>1. PICK file \in File : file = [path |-> key, content |-> content]
    BY DEF File
  <2>2. PICK n \in 0 .. Len(list) :
            /\ Fits(list, n, Size[content])
            /\ cacheList' = <<file>> \o SubSeq(list, 1, n)
            /\ currentSize' = (currentSize - BytesAfter(list, n)) + Size[content]
    BY <1>1, <1>4, <2>1 DEF Put, Keeps
  <2>3. /\ Len(cacheList') = n + 1
        /\ Bytes(cacheList', n + 1) = Size[content] + Bytes(list, n)
    BY <1>2, <2>1, <2>2, BytesOfPut
  <2>4. Bytes(list, n) \in Nat /\ Size[content] \in Nat
    BY <1>2, BytesAreSums, SizeAssumption
  <2>5. /\ currentSize' = (currentSize - (currentSize - Bytes(list, n))) + Size[content]
        /\ currentSize + Size[content] <= MaxSize + (currentSize - Bytes(list, n))
    BY <1>2, <2>2 DEF Fits, BytesAfter
  <2>6. /\ currentSize' = Size[content] + Bytes(list, n) /\ currentSize' \in Nat
        /\ currentSize' <= MaxSize
    <3>1. PICK x \in Nat, y \in Nat : x = Bytes(list, n) /\ y = Size[content]
      BY <2>4
    <3>2. currentSize' = (currentSize - (currentSize - x)) + y /\ currentSize \in Nat
      BY <1>2, <2>5, <3>1
    <3>3. currentSize + y <= MaxSize + (currentSize - x) /\ MaxSize \in Nat
      BY <1>2, <2>5, <3>1
    <3>4. currentSize' = y + x /\ y + x <= MaxSize
      BY ONLY <3>2, <3>3, x \in Nat, y \in Nat
    <3> QED
      BY <3>1, <3>3, <3>4
  <2>7. Bytes(cacheList, Len(cacheList))' = Bytes(cacheList', n + 1)
    BY <2>3 DEF Bytes
  <2> QED
    BY <2>3, <2>6, <2>7 DEF WithinBudget
<1> QED
  BY <1>3, <1>4

LEMMA InitBudget == CacheInit => WithinBudget
<1> SUFFICES ASSUME CacheInit
             PROVE  WithinBudget
  OBVIOUS
<1>1. cacheList \in Seq(File) /\ Len(cacheList) = 0 /\ currentSize = 0
  BY DEF CacheInit
<1> QED
  <2>1. Bytes(cacheList, 0) = 0
    BY <1>1, BytesAreSums
  <2> QED
    BY <1>1, <2>1, MaxSizeAssumption DEF WithinBudget

\* currentSize is the sum of the sizes in the list, whatever is moved,
\* repeated and evicted; it never wraps below zero and stays in the budget.
THEOREM BudgetIsKept == CacheSpec => []WithinBudget
<1>1. IInv /\ WithinBudget /\ [CacheNext]_cvars => WithinBudget'
  <2> SUFFICES ASSUME IInv, WithinBudget, [CacheNext]_cvars
               PROVE  WithinBudget'
    OBVIOUS
  <2>1. CASE UNCHANGED cvars
    <3>1. Bytes(cacheList, Len(cacheList))' = Bytes(cacheList, Len(cacheList))
      BY <2>1 DEF cvars, Bytes
    <3> QED
      BY <2>1, <3>1 DEF cvars, WithinBudget
  <2> QED
    BY <2>1, GetBudget, PutBudget DEF CacheNext
<1> QED
  BY <1>1, InitCoherent, NextCoherent, InitBudget, PTL DEF CacheSpec

\* The list put() evicts from.
PutList(key) == IF key \in DOMAIN cacheMap THEN Touched(cacheList, key) ELSE cacheList

\* Whatever is put, the loop of put() has a place to stop, at the latest when
\* the list is empty.
EvictionEnds ==
    \A key \in Paths, content \in Contents :
        AdmittedSize(Size[content])
            => \E n \in 0 .. Len(PutList(key)) : Keeps(PutList(key), n, Size[content])

\* put() never pops from an empty list and never runs for ever.
THEOREM EvictionTerminates == CacheSpec => []EvictionEnds
<1>1. IInv /\ WithinBudget => EvictionEnds
  <2> SUFFICES ASSUME IInv, WithinBudget, NEW key \in Paths, NEW content \in Contents,
                      AdmittedSize(Size[content])
               PROVE  \E n \in 0 .. Len(PutList(key)) : Keeps(PutList(key), n, Size[content])
    BY DEF EvictionEnds
  <2>1. PICK list : list = PutList(key)
    OBVIOUS
  <2>2. /\ list \in Seq(File) /\ currentSize \in Nat /\ MaxSize \in Nat
        /\ currentSize = Bytes(list, Len(list))
    <3>1. cacheList \in Seq(File)
      BY DEF IInv, Shape
    <3> QED
      BY <2>1, <3>1, TouchKeepsFirsts, BytesOfTouched, MaxSizeAssumption DEF WithinBudget, PutList
  <2>3. PICK N \in Nat, size \in Nat : N = Len(list) /\ size = Size[content]
    BY <2>2, SizeAssumption
  <2>4. Fits(list, 0, size)
    <3>1. Bytes(list, 0) = 0
      BY <2>2, BytesAreSums
    <3>2. BytesAfter(list, 0) = currentSize
      BY <2>2, <3>1 DEF BytesAfter
    <3>3. size < MaxSize
      BY <2>3 DEF AdmittedSize
    <3> QED
      BY <2>2, <3>2, <3>3 DEF Fits
  <2> DEFINE Room == {k \in 0 .. N : Fits(list, N - k, size)}
  <2>5. PICK k \in Room : \A m \in Room : k <= m
    <3>1. N \in Room
      <4>1. N - N = 0 /\ N \in 0 .. N
        OBVIOUS
      <4> QED
        BY <2>4, <4>1
    <3>2. Room \in SUBSET Nat
      OBVIOUS
    <3> HIDE DEF Room
    <3> QED
      BY <3>1, <3>2, LeastElement
  <2>6. N - k \in 0 .. N /\ Fits(list, N - k, size)
    OBVIOUS
  <2>7. ASSUME NEW m \in (N - k) + 1 .. N, Fits(list, m, size)
        PROVE  FALSE
    <3>1. N - m \in 0 .. N /\ N - (N - m) = m /\ ~ (k <= N - m)
      OBVIOUS
    <3>2. N - m \in Room
      BY <2>7, <3>1
    <3> QED
      BY <2>5, <3>1, <3>2
  <2>8. Keeps(list, N - k, size)
    BY <2>3, <2>6, <2>7 DEF Keeps
  <2> QED
    BY <2>1, <2>3, <2>6, <2>8
<1> QED
  BY <1>1, BudgetIsKept, InitCoherent, NextCoherent, PTL DEF CacheSpec

==============================================================================
