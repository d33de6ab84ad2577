-------------------------------- MODULE Cache --------------------------------
(***************************************************************************)
(* What a cache of file contents promises its users: a content that is     *)
(* found under a key is the last one put there.  It may forget any key at  *)
(* a put of another, but never brings an older content back.               *)
(***************************************************************************)
CONSTANTS Paths, Contents

VARIABLES
    stored,         \* the contents that are found, a map from paths
    latest          \* the contents put last, a map from paths

avars == <<stored, latest>>

CInit == stored = <<>> /\ latest = <<>>

PutAndForget(key, content) ==
    /\ latest' = [p \in DOMAIN latest \cup {key} |-> IF p = key THEN content ELSE latest[p]]
    /\ \E kept \in SUBSET (DOMAIN stored \ {key}) :
          stored' = [p \in kept \cup {key} |-> IF p = key THEN content ELSE stored[p]]

CNext == \E key \in Paths, content \in Contents : PutAndForget(key, content)

CSpec == CInit /\ [][CNext]_avars
==============================================================================
