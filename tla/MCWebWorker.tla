---------------------------- MODULE MCWebWorker ----------------------------
(* WebWorker with three messages to the worker and three from it.  *)
EXTENDS WebWorker
=============================================================================
