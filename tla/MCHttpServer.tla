---------------------------- MODULE MCHttpServer -----------------------------
(* A small instance of HttpServer: connections share only the queue, the     *)
(* threads and the loop, so one connection that may have three requests in   *)
(* flight at once already meets every order of its handlers.                 *)
EXTENDS HttpServer, TLC

CONSTANT c1

MCConns == {c1}
MCKinds == AllKinds
==============================================================================
