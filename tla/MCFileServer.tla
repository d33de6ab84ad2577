---------------------------- MODULE MCFileServer -----------------------------
(* A cache with room for one plain file, or three compressed ones, so that    *)
(* an entry of one file is pushed out by the entries of another; a plain      *)
(* second version has outgrown it.                                            *)
EXTENDS FileServer, TLC

MCPaths == {"page", "photo"}
MCContents == [version : 1 .. MaxVersion, gzip : BOOLEAN]
MCSize == [c \in MCContents |-> IF c.gzip THEN 1 ELSE c.version + 1]
MCCompressible == {"page"}
MCChanging == {"page"}
==============================================================================
