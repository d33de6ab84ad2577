------------------------------ MODULE LruCache -------------------------------
(***************************************************************************)
(* class LRUCache of server.hpp: a list of files, the most recently used   *)
(* first, a map that finds them by path, and a count of bytes.             *)
(*                                                                         *)
(* put() of a path that is in the cache moves its entry to the front and   *)
(* then pushes a second one, so that the list may hold a path more than    *)
(* once, or hold a path the map has lost.  Each call is one step; the code *)
(* takes no lock.                                                          *)
(***************************************************************************)
EXTENDS Naturals, Sequences, FiniteSets, Functions

CONSTANTS
    Paths,              \* keys of the cache
    Contents,           \* contents of files
    Size,               \* the bytes of each content
    MaxSize             \* the budget, LRUCache::maxSize (1 MB in the code)

ASSUME SizeAssumption == Size \in [Contents -> Nat]
ASSUME MaxSizeAssumption == MaxSize \in Nat

VARIABLES
    cacheList,          \* std::list<File>
    cacheMap,           \* std::unordered_map<std::string, File>
    currentSize         \* bytes of the list

cvars == <<cacheList, cacheMap, currentSize>>

File == [path : Paths, content : Contents]

CacheInit ==
    /\ cacheList = <<>>
    /\ cacheMap = <<>>
    /\ currentSize = 0

\* The bytes of the first n entries of a list, and of those after them.
Bytes(list, n) ==
    LET sum[i \in 0 .. Len(list)] == IF i = 0 THEN 0 ELSE sum[i - 1] + Size[list[i].content]
    IN  sum[n]

BytesAfter(list, n) == Bytes(list, Len(list)) - Bytes(list, n)

IsFirst(list, i, key) ==
    /\ i \in DOMAIN list
    /\ list[i].path = key
    /\ \A j \in 1 .. i - 1 : list[j].path # key

\* Variant: the entry stays where it is.
LeaveInPlace(list, i) == list

\* list.splice(begin, list, i)
MoveToFront(list, i) ==
    [j \in DOMAIN list |-> IF j = 1 THEN list[i] ELSE IF j <= i THEN list[j - 1] ELSE list[j]]

\* find_if, then splice what it found.
Touched(list, key) ==
    IF \E i \in DOMAIN list : IsFirst(list, i, key)
      THEN MoveToFront(list, CHOOSE i \in DOMAIN list : IsFirst(list, i, key))
      ELSE list

AdmittedSize(size) == size > 0 /\ size < MaxSize

\* Variant: the new file is not counted.
FitsWithout(list, n, size) ==
    currentSize <= MaxSize + BytesAfter(list, n)

\* Whether `size` bytes find room once only the first n entries are left.
Fits(list, n, size) ==
    currentSize + size <= MaxSize + BytesAfter(list, n)

\* The loop pops entries off the back until there is room.
Keeps(list, n, size) ==
    /\ Fits(list, n, size)
    /\ \A m \in n + 1 .. Len(list) : ~Fits(list, m, size)

\* Variant: an evicted file stays in the map.
EraseNothing(map, lost) == map

\* cacheMap.erase() of the paths that were popped
Erase(map, lost) == Restrict(map, DOMAIN map \ lost)

\* Variant: cacheMap.insert(), which leaves an entry that is there.
InsertFile(map, file) ==
    [p \in DOMAIN map \cup {file.path} |-> IF p \in DOMAIN map THEN map[p] ELSE file]

\* cacheMap[key] = file
SetFile(map, file) ==
    [p \in DOMAIN map \cup {file.path} |-> IF p = file.path THEN file ELSE map[p]]

\* Variant: the file is put in before there is room for it.
RoomAfterwards(map, lost, file) == Erase(SetFile(map, file), lost)

RoomFirst(map, lost, file) == SetFile(Erase(map, lost), file)

\* put(): the throw for a path that the map has and the list has not is left
\* out, as no state reaches it (Coherent).
Put(key, content) ==
    LET list == IF key \in DOMAIN cacheMap THEN Touched(cacheList, key) ELSE cacheList
        file == [path |-> key, content |-> content]
        size == Size[content]
    IN  \/ /\ ~AdmittedSize(size)
           /\ UNCHANGED cvars
        \/ /\ AdmittedSize(size)
           /\ \E n \in 0 .. Len(list) :
                 LET lost == {list[i].path : i \in n + 1 .. Len(list)}
                 IN  /\ Keeps(list, n, size)
                     /\ cacheList' = <<file>> \o SubSeq(list, 1, n)
                     /\ cacheMap' = RoomFirst(cacheMap, lost, file)
                     /\ currentSize' = (currentSize - BytesAfter(list, n)) + size

IsInCache(key) == key \in DOMAIN cacheMap

\* The content get() returns, for a key that is there.
Lookup(key) == cacheMap[key].content

\* What get() does to the cache: the file is now the most recently used.
Get(key) ==
    /\ cacheList' = IF IsInCache(key) THEN Touched(cacheList, key) ELSE cacheList
    /\ UNCHANGED <<cacheMap, currentSize>>

CacheNext ==
    \E key \in Paths : Get(key) \/ \E content \in Contents : Put(key, content)

CacheSpec == CacheInit /\ [][CacheNext]_cvars

------------------------------------------------------------------------------
(***************************************************************************)
(* Properties                                                              *)
(***************************************************************************)
CacheTypeOK ==
    /\ cacheList \in Seq(File)
    /\ \A i \in DOMAIN cacheList : Size[cacheList[i].content] \in 1 .. MaxSize - 1
    /\ DOMAIN cacheMap \subseteq Paths
    /\ \A p \in DOMAIN cacheMap : cacheMap[p] \in File /\ cacheMap[p].path = p

\* Repeated entries, entries of lost paths and evictions of an old copy of a
\* path never take the map and the list apart: a path the map knows is in the
\* list, and its first entry there is what the map holds.  So put() never
\* throws "File not found in cache list".
Coherent ==
    \A p \in DOMAIN cacheMap :
        \E i \in DOMAIN cacheList : IsFirst(cacheList, i, p) /\ cacheList[i] = cacheMap[p]

\* currentSize counts what is in the list, never wraps below zero and stays
\* within the budget, so that the loop of put() ends and never pops from an
\* empty list.
WithinBudget ==
    /\ currentSize \in Nat
    /\ currentSize = Bytes(cacheList, Len(cacheList))
    /\ currentSize <= MaxSize
==============================================================================
