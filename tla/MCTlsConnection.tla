--------------------------- MODULE MCTlsConnection ---------------------------
(* A small instance of TlsConnection: all of its constants are numbers.      *)
EXTENDS TlsConnection, TLC
==============================================================================
