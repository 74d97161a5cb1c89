---------------------------- MODULE MCHttp1Pool ----------------------------
(* Http1Pool with two requests and two sockets.  *)
EXTENDS Http1Pool
=============================================================================
