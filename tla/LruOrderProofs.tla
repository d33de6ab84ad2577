--------------------------- MODULE LruOrderProofs ----------------------------
(***************************************************************************)
(* Proofs that the cache, with the history of its use, implements Cache    *)
(* and evicts in order, for every set of paths, contents and every budget. *)
(***************************************************************************)
EXTENDS LruOrder, LruCacheProofs

LEMMA PutRefines ==
    ASSUME IInv, NEW list \in Seq(File), NEW n \in 0 .. Len(list),
           NEW key \in Paths, NEW content \in Contents,
           Replaced(list, n, [path |-> key, content |-> content]),
           latest' = [p \in DOMAIN latest \cup {key} |-> IF p = key THEN content ELSE latest[p]]
    PROVE  Abstract!PutAndForget(key, content)
<1>1. PICK lost : lost = {list[i].path : i \in n + 1 .. Len(list)}
  OBVIOUS
<1>2. PICK left : left = Erase(cacheMap, lost)
  OBVIOUS
<1>3. /\ DOMAIN left = DOMAIN cacheMap \ lost
      /\ \A p \in DOMAIN left : left[p] = cacheMap[p]
  BY <1>2 DEF Erase, Restrict
<1>4. PICK file : file = [path |-> key, content |-> content]
  OBVIOUS
<1>5. cacheMap' = SetFile(left, file)
  BY <1>1, <1>2, <1>4 DEF Replaced
<1>6. /\ DOMAIN cacheMap' = DOMAIN left \cup {key}
      /\ \A p \in DOMAIN cacheMap' : cacheMap'[p] = IF p = key THEN file ELSE left[p]
  BY <1>4, <1>5 DEF SetFile
<1>7. PICK kept : kept = DOMAIN left \ {key}
  OBVIOUS
<1>8. kept \in SUBSET (DOMAIN [p \in DOMAIN cacheMap |-> cacheMap[p].content] \ {key})
  BY <1>3, <1>7
<1>9. [p \in DOMAIN cacheMap' |-> cacheMap'[p].content]
        = [p \in kept \cup {key} |-> IF p = key THEN content
                                     ELSE [q \in DOMAIN cacheMap |-> cacheMap[q].content][p]]
  <2>1. DOMAIN cacheMap' = kept \cup {key}
    BY <1>6, <1>7
  <2>2. ASSUME NEW p \in kept \cup {key}
        PROVE  cacheMap'[p].content
                 = IF p = key THEN content
                   ELSE [q \in DOMAIN cacheMap |-> cacheMap[q].content][p]
    BY <1>3, <1>4, <1>6, <1>7
  <2> QED
    BY <2>1, <2>2
<1> QED
  BY <1>8, <1>9 DEF Abstract!PutAndForget

LEMMA InitRefines == Init => Abstract!CInit
<1> SUFFICES ASSUME Init
             PROVE  [p \in DOMAIN cacheMap |-> cacheMap[p].content] = <<>>
  BY DEF Init, Abstract!CInit
<1>1. DOMAIN cacheMap = {}
  BY DEF Init, CacheInit
<1> QED
  BY <1>1

\* Every step of the history is a step of the cache.
LEMMA NextIsCacheNext == [Next]_ovars => [CacheNext]_cvars
BY DEF Next, GetUsed, PutUsed, CacheNext, ovars

LEMMA NextRefines == IInv /\ [Next]_ovars => [Abstract!CNext]_(Abstract!avars)
<1> SUFFICES ASSUME IInv, [Next]_ovars, ~UNCHANGED Abstract!avars
             PROVE  Abstract!CNext
  OBVIOUS
<1>1. ~UNCHANGED <<cacheMap, latest>>
  BY DEF Abstract!avars
<1>2. PICK key \in Paths, content \in Contents : PutUsed(key, content)
  BY <1>1 DEF Next, GetUsed, Get, ovars, cvars
<1>3. Put(key, content)
  BY <1>2 DEF PutUsed
<1>4. AdmittedSize(Size[content])
  BY <1>1, <1>2, <1>3, PutReplaces DEF PutUsed, cvars
<1>5. latest' = [p \in DOMAIN latest \cup {key} |-> IF p = key THEN content ELSE latest[p]]
  BY <1>2, <1>4 DEF PutUsed
<1>6. Abstract!PutAndForget(key, content)
  BY <1>3, <1>4, <1>5, PutReplaces, PutRefines
<1> QED
  BY <1>6 DEF Abstract!CNext

\* A content that is found under a path is the last admitted one that was put
\* there: every step is a put of Cache or changes nothing that can be found.
THEOREM LruImplementsCache == Spec => ImplementsCache
<1>1. Init => Abstract!CInit /\ IInv
  BY InitRefines, InitCoherent DEF Init
<1>2. IInv /\ [Next]_ovars => IInv' /\ [Abstract!CNext]_(Abstract!avars)
  BY NextIsCacheNext, NextCoherent, NextRefines
<1> QED
  BY <1>1, <1>2, PTL DEF Spec, ImplementsCache, Abstract!CSpec

------------------------------------------------------------------------------
(***************************************************************************)
(* As long as no path was put while an entry of it was in the list, the    *)
(* list holds the paths of the map, each once, in the order of their use.  *)
(***************************************************************************)
Ordered ==
    /\ \A i \in DOMAIN cacheList :
           cacheList[i].path \in DOMAIN cacheMap \cap DOMAIN latest
    /\ \A i, j \in DOMAIN cacheList :
           i < j => /\ cacheList[i].path # cacheList[j].path
                    /\ <<cacheList[j].path, cacheList[i].path>> \in older

OrderInv == ~doubled => Ordered

LEMMA UseOrders ==
    ASSUME NEW key, Use(key)
    PROVE  /\ \A p \in DOMAIN latest : p # key => <<p, key>> \in older'
           /\ \A p, q : <<p, q>> \in older /\ p # key /\ q # key => <<p, q>> \in older'
<1>1. older' = {pair \in older : key \notin {pair[1], pair[2]}} \cup ((DOMAIN latest \ {key}) \X {key})
  BY DEF Use
<1>2. ASSUME NEW p \in DOMAIN latest, p # key
      PROVE  <<p, key>> \in older'
  <2>1. <<p, key>> \in (DOMAIN latest \ {key}) \X {key}
    BY <1>2
  <2> QED
    BY <1>1, <2>1
<1>3. ASSUME NEW p, NEW q, <<p, q>> \in older, p # key, q # key
      PROVE  <<p, q>> \in older'
  <2>1. PICK pair \in older : pair = <<p, q>>
    BY <1>3
  <2>2. key \notin {pair[1], pair[2]}
    BY <1>3, <2>1
  <2> QED
    BY <1>1, <2>1, <2>2
<1> QED
  BY <1>2, <1>3

\* Where each entry of the list comes from.
From(i, j) == IF j = 1 THEN i ELSE IF j <= i THEN j - 1 ELSE j

LEMMA GetOrder ==
    ASSUME IInv, OrderInv, NEW key \in Paths, GetUsed(key)
    PROVE  OrderInv'
<1> SUFFICES ASSUME ~doubled'
             PROVE  Ordered'
  BY DEF OrderInv
<1>1. /\ ~doubled /\ Ordered /\ cacheMap' = cacheMap /\ latest' = latest
      /\ cacheList \in Seq(File)
  BY DEF OrderInv, GetUsed, Get, IInv, Shape
<1>2. CASE ~IsInCache(key)
  BY <1>1, <1>2 DEF GetUsed, Get, Ordered
<1>3. CASE IsInCache(key)
  <2>1. \E i \in DOMAIN cacheList : IsFirst(cacheList, i, key)
    BY <1>3 DEF IsInCache, IInv, Coherent
  <2>2. PICK i \in DOMAIN cacheList : /\ IsFirst(cacheList, i, key)
                                      /\ cacheList' = MoveToFront(cacheList, i)
    BY <1>3, <2>1 DEF GetUsed, Get, Touched
  <2>3. PICK N \in Nat : N = Len(cacheList) /\ DOMAIN cacheList = 1 .. N /\ i \in 1 .. N
    BY <1>1
  <2>4. /\ DOMAIN cacheList' = 1 .. N
        /\ \A j \in 1 .. N : From(i, j) \in 1 .. N /\ cacheList'[j] = cacheList[From(i, j)]
    BY <2>2, <2>3 DEF MoveToFront, From
  <2>5. /\ \A p \in DOMAIN latest : p # key => <<p, key>> \in older'
        /\ \A p, q : <<p, q>> \in older /\ p # key /\ q # key => <<p, q>> \in older'
    BY <1>3, UseOrders DEF GetUsed
  <2>6. cacheList[i].path = key
    BY <2>2 DEF IsFirst
  <2>7. /\ \A j \in 1 .. N : cacheList[j].path \in DOMAIN cacheMap \cap DOMAIN latest
        /\ \A j, k \in 1 .. N :
              j < k => /\ cacheList[j].path # cacheList[k].path
                       /\ <<cacheList[k].path, cacheList[j].path>> \in older
    BY <1>1, <2>3 DEF Ordered
  <2>8. ASSUME NEW j \in 1 .. N, j # i
        PROVE  cacheList[j].path # key
    <3>1. j < i \/ i < j
      BY <2>3, <2>8
    <3>2. cacheList[j].path # cacheList[i].path
      BY <2>3, <2>7, <3>1
    <3> QED
      BY <2>6, <3>2
  <2>9. ASSUME NEW j \in 1 .. N, NEW k \in 1 .. N, j < k
        PROVE  /\ cacheList'[j].path # cacheList'[k].path
               /\ <<cacheList'[k].path, cacheList'[j].path>> \in older'
    <3>1. /\ From(i, k) \in 1 .. N /\ From(i, k) # i
          /\ cacheList'[k].path = cacheList[From(i, k)].path
      BY <2>3, <2>4, <2>9 DEF From
    <3>2. cacheList'[k].path # key /\ cacheList'[k].path \in DOMAIN latest
      BY <2>7, <2>8, <3>1
    <3>3. CASE j = 1
      <4>1. cacheList'[j].path = key
        BY <2>4, <2>6, <3>3 DEF From
      <4> QED
        BY <2>5, <3>2, <4>1
    <3>4. CASE j # 1
      <4>1. /\ From(i, j) \in 1 .. N /\ From(i, j) # i /\ From(i, j) < From(i, k)
            /\ cacheList'[j].path = cacheList[From(i, j)].path
        BY <2>3, <2>4, <2>9, <3>4 DEF From
      <4>2. cacheList'[j].path # key
        BY <2>8, <4>1
      <4>3. /\ cacheList'[j].path # cacheList'[k].path
            /\ <<cacheList'[k].path, cacheList'[j].path>> \in older
        BY <2>7, <3>1, <4>1
      <4> QED
        BY <2>5, <3>2, <4>2, <4>3
    <3> QED
      BY <3>3, <3>4
  <2>10. \A j \in 1 .. N : cacheList'[j].path \in DOMAIN cacheMap \cap DOMAIN latest
    BY <2>4, <2>7
  <2> QED
    BY <1>1, <2>4, <2>9, <2>10 DEF Ordered
<1> QED
  BY <1>2, <1>3

\* What a put of a path that is not in the list does to an ordered list.
LEMMA FreshPut ==
    ASSUME IInv, OrderInv, NEW key \in Paths, NEW content \in Contents, PutUsed(key, content),
           AdmittedSize(Size[content]), ~doubled'
    PROVE  /\ Ordered /\ key \notin DOMAIN cacheMap /\ cacheList \in Seq(File)
           /\ \A i \in DOMAIN cacheList : cacheList[i].path # key
           /\ \E n \in 0 .. Len(cacheList) :
                 Replaced(cacheList, n, [path |-> key, content |-> content])
<1>1. Put(key, content) /\ ~doubled /\ ~Listed(key)
  BY DEF PutUsed
<1>2. Ordered /\ cacheList \in Seq(File)
  BY <1>1 DEF OrderInv, IInv, Shape
<1>3. \A i \in DOMAIN cacheList : cacheList[i].path # key
  BY <1>1 DEF Listed
<1>4. key \notin DOMAIN cacheMap
  BY <1>3 DEF IInv, Coherent, IsFirst
<1>5. PICK list : list = IF key \in DOMAIN cacheMap THEN Touched(cacheList, key) ELSE cacheList
  OBVIOUS
<1>6. \E n \in 0 .. Len(list) : Replaced(list, n, [path |-> key, content |-> content])
  BY <1>1, <1>5, ZenonT(60) DEF Put, RoomFirst, Replaced
<1> QED
  BY <1>2, <1>3, <1>4, <1>5, <1>6

LEMMA PutOrder ==
    ASSUME IInv, OrderInv, NEW key \in Paths, NEW content \in Contents, PutUsed(key, content),
           ~doubled'
    PROVE  Ordered' /\ EvictsInOrder
<1>1. CASE ~AdmittedSize(Size[content])
  <2>1. UNCHANGED cvars /\ UNCHANGED <<latest, older, doubled>>
    BY <1>1 DEF PutUsed, Put
  <2> QED
    BY <2>1 DEF cvars, OrderInv, Ordered, EvictsInOrder, Lost
<1>2. CASE AdmittedSize(Size[content])
  <2>1. PICK file : file = [path |-> key, content |-> content]
    OBVIOUS
  <2>2. /\ Ordered /\ key \notin DOMAIN cacheMap /\ cacheList \in Seq(File)
        /\ \A i \in DOMAIN cacheList : cacheList[i].path # key
    BY <1>2, FreshPut
  <2>3. PICK n \in 0 .. Len(cacheList) : Replaced(cacheList, n, file)
    BY <1>2, <2>1, FreshPut
  <2>4. PICK N \in Nat : N = Len(cacheList) /\ DOMAIN cacheList = 1 .. N /\ n \in 0 .. N
    BY <2>2
  <2>5. PICK lost : lost = {cacheList[i].path : i \in n + 1 .. N}
    OBVIOUS
  <2>6. PICK kept : kept = SubSeq(cacheList, 1, n)
    OBVIOUS
  <2>7. /\ kept \in Seq(File) /\ Len(kept) = n
        /\ \A i \in 1 .. n : kept[i] = cacheList[i]
    BY <2>2, <2>4, <2>6
  <2>8. file \in File /\ file.path = key
    BY <2>1 DEF File
  <2>9. /\ DOMAIN cacheList' = 1 .. n + 1 /\ cacheList'[1] = file
        /\ \A i \in 1 .. n : cacheList'[i + 1] = cacheList[i]
    <3>1. cacheList' = <<file>> \o kept
      BY <2>3, <2>6 DEF Replaced
    <3>2. cacheList' \in Seq(File) /\ Len(cacheList') = n + 1 /\ cacheList'[1] = file
      BY <2>7, <2>8, <3>1
    <3>3. \A i \in 1 .. n : cacheList'[i + 1] = kept[i]
      BY <2>7, <2>8, <3>1
    <3> QED
      BY <2>4, <2>7, <3>2, <3>3
  <2>10. DOMAIN cacheMap' = (DOMAIN cacheMap \ lost) \cup {key}
    <3>1. PICK left : left = Erase(cacheMap, lost)
      OBVIOUS
    <3>2. DOMAIN left = DOMAIN cacheMap \ lost
      BY <3>1 DEF Erase, Restrict
    <3>3. cacheMap' = SetFile(left, file)
      BY <2>3, <2>4, <2>5, <3>1 DEF Replaced
    <3> QED
      BY <2>8, <3>2, <3>3 DEF SetFile
  <2>11. DOMAIN latest' = DOMAIN latest \cup {key}
    BY <1>2 DEF PutUsed
  <2>12. /\ \A p \in DOMAIN latest : p # key => <<p, key>> \in older'
         /\ \A p, q : <<p, q>> \in older /\ p # key /\ q # key => <<p, q>> \in older'
    BY <1>2, UseOrders DEF PutUsed
  <2>13. /\ \A j \in 1 .. N : /\ cacheList[j].path \in DOMAIN cacheMap \cap DOMAIN latest
                              /\ cacheList[j].path # key
         /\ \A j, k \in 1 .. N :
               j < k => /\ cacheList[j].path # cacheList[k].path
                        /\ <<cacheList[k].path, cacheList[j].path>> \in older
    BY <2>2, <2>4 DEF Ordered
  <2>14. Ordered'
    <3>1. ASSUME NEW j \in 1 .. n + 1
          PROVE  cacheList'[j].path \in DOMAIN cacheMap' \cap DOMAIN latest'
      <4>1. CASE j = 1
        BY <2>8, <2>9, <2>10, <2>11, <4>1
      <4>2. CASE j # 1
        <5>1. j - 1 \in 1 .. n /\ j - 1 \in 1 .. N /\ (j - 1) + 1 = j
          BY <2>4, <4>2
        <5>2. cacheList'[j].path = cacheList[j - 1].path
          BY <2>9, <5>1
        <5>3. \A i \in n + 1 .. N : cacheList[i].path # cacheList[j - 1].path
          <6>1. \A i \in n + 1 .. N : i \in 1 .. N /\ j - 1 < i
            BY <2>4, <5>1
          <6> QED
            BY <2>13, <5>1, <6>1
        <5>4. cacheList[j - 1].path \notin lost
          BY <2>5, <5>3
        <5> QED
          BY <2>10, <2>11, <2>13, <5>1, <5>2, <5>4
      <4> QED
        BY <4>1, <4>2
    <3>2. ASSUME NEW j \in 1 .. n + 1, NEW k \in 1 .. n + 1, j < k
          PROVE  /\ cacheList'[j].path # cacheList'[k].path
                 /\ <<cacheList'[k].path, cacheList'[j].path>> \in older'
      <4>1. k - 1 \in 1 .. n /\ k - 1 \in 1 .. N /\ (k - 1) + 1 = k
        BY <2>4, <3>2
      <4>2. /\ cacheList'[k].path = cacheList[k - 1].path
            /\ cacheList'[k].path # key /\ cacheList'[k].path \in DOMAIN latest
        BY <2>9, <2>13, <4>1
      <4>3. CASE j = 1
        BY <2>8, <2>9, <2>12, <4>2, <4>3
      <4>4. CASE j # 1
        <5>1. j - 1 \in 1 .. n /\ j - 1 \in 1 .. N /\ (j - 1) + 1 = j /\ j - 1 < k - 1
          BY <2>4, <3>2, <4>1, <4>4
        <5>2. cacheList'[j].path = cacheList[j - 1].path
          BY <2>9, <5>1
        <5> QED
          BY <2>12, <2>13, <4>1, <4>2, <5>1, <5>2
      <4> QED
        BY <4>3, <4>4
    <3> QED
      BY <2>9, <3>1, <3>2 DEF Ordered
  <2>15. EvictsInOrder
    <3> SUFFICES ASSUME NEW p \in Lost, NEW q \in DOMAIN cacheMap \ Lost
                 PROVE  <<p, q>> \in older'
      BY DEF EvictsInOrder
    <3>1. p \in lost /\ p # key /\ q \in DOMAIN cacheMap /\ q \notin lost /\ q # key
      BY <2>2, <2>10 DEF Lost
    <3>2. PICK j \in n + 1 .. N : p = cacheList[j].path
      BY <2>5, <3>1
    <3>3. PICK i \in 1 .. N : q = cacheList[i].path
      BY <2>4, <3>1 DEF IInv, Coherent, IsFirst, Shape
    <3>4. i \notin n + 1 .. N
      BY <2>5, <3>1, <3>3
    <3>5. i < j /\ j \in 1 .. N
      BY <2>4, <3>4
    <3> QED
      BY <2>12, <2>13, <3>1, <3>2, <3>3, <3>5
  <2> QED
    BY <2>14, <2>15
<1> QED
  BY <1>1, <1>2

\* While no path is put a second time, what the cache forgets was used before
\* all that it keeps, in any cache, however long it is used: the order of the
\* list is the order of use.
THEOREM LeastRecentlyUsedGoesFirst == Spec => LruWithoutRepeats
<1>1. Init => IInv /\ OrderInv
  BY InitCoherent DEF Init, CacheInit, OrderInv, Ordered
<1>2. IInv /\ OrderInv /\ [Next]_ovars
        => IInv' /\ OrderInv' /\ [~doubled' => EvictsInOrder]_ovars
  <2> SUFFICES ASSUME IInv, OrderInv, [Next]_ovars
               PROVE  IInv' /\ OrderInv' /\ [~doubled' => EvictsInOrder]_ovars
    OBVIOUS
  <2>1. IInv'
    BY NextIsCacheNext, NextCoherent
  <2>2. CASE UNCHANGED ovars
    BY <2>1, <2>2 DEF ovars, cvars, OrderInv, Ordered
  <2>3. ASSUME NEW key \in Paths, GetUsed(key)
        PROVE  OrderInv' /\ EvictsInOrder
    <3>1. cacheMap' = cacheMap
      BY <2>3 DEF GetUsed, Get
    <3> QED
      BY <2>3, <3>1, GetOrder DEF EvictsInOrder, Lost
  <2>4. ASSUME NEW key \in Paths, NEW content \in Contents, PutUsed(key, content)
        PROVE  OrderInv' /\ (~doubled' => EvictsInOrder)
    BY <2>4, PutOrder DEF OrderInv
  <2> QED
    BY <2>1, <2>2, <2>3, <2>4 DEF Next
<1> QED
  BY <1>1, <1>2, PTL DEF Spec, LruWithoutRepeats

==============================================================================
