----------------------------- MODULE MCLruOrder ------------------------------
(* Three files of a budget of four bytes, in contents of one to four bytes:  *)
(* two of them tell an old content from a new one of the same size.          *)
EXTENDS LruOrder, TLC

MCPaths == {"a", "b", "c"}
MCContents == {"old1", "new1", "two", "four"}
MCSize == [c \in MCContents |-> IF c = "four" THEN 4 ELSE IF c = "two" THEN 2 ELSE 1]
==============================================================================
