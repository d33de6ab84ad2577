------------------------------ MODULE LruOrder -------------------------------
(***************************************************************************)
(* LruCache with a history of its use, to say what it promises (Cache) and *)
(* in which order it evicts.                                               *)
(***************************************************************************)
EXTENDS LruCache

VARIABLES
    latest,             \* history: the content put last for each path
    older,              \* history: <<p, q>> when the last use of p was before that of q
    doubled             \* history: a path was put while an entry of it was in the list

ovars == <<cvars, latest, older, doubled>>

\* Path p was used just now, after every other path that was ever admitted.
Use(p) ==
    older' = {pair \in older : p \notin {pair[1], pair[2]}} \cup ((DOMAIN latest \ {p}) \X {p})

Listed(p) == \E i \in DOMAIN cacheList : cacheList[i].path = p

Init == CacheInit /\ latest = <<>> /\ older = {} /\ doubled = FALSE

\* A file that is not admitted leaves what is there, an older content too.
PutUsed(key, content) ==
    /\ Put(key, content)
    /\ IF AdmittedSize(Size[content])
         THEN /\ Use(key)
              /\ latest' = [p \in DOMAIN latest \cup {key} |-> IF p = key THEN content ELSE latest[p]]
              /\ doubled' = (doubled \/ Listed(key))
         ELSE UNCHANGED <<latest, older, doubled>>

GetUsed(key) ==
    /\ Get(key)
    /\ IF IsInCache(key) THEN Use(key) ELSE UNCHANGED older
    /\ UNCHANGED <<latest, doubled>>

Next ==
    \E key \in Paths : GetUsed(key) \/ \E content \in Contents : PutUsed(key, content)

Spec == Init /\ [][Next]_ovars

------------------------------------------------------------------------------
Abstract == INSTANCE Cache WITH stored <- [p \in DOMAIN cacheMap |-> cacheMap[p].content]

\* Whatever the list does, a content that is found under a path is the last
\* admitted one that was put there.
ImplementsCache == Abstract!CSpec

Lost == DOMAIN cacheMap \ DOMAIN cacheMap'

\* Whatever the cache forgets was used before everything it keeps.
EvictsInOrder ==
    \A p \in Lost, q \in DOMAIN cacheMap \ Lost : <<p, q>> \in older'

\* While no path is put a second time, files leave the cache in the order of
\* their last use.  (Otherwise they need not, although server.hpp:181 says so:
\* an old entry of a path that was put twice takes the map's entry with it,
\* however recently the path was used.)
LruWithoutRepeats == [][~doubled' => EvictsInOrder]_ovars
==============================================================================
