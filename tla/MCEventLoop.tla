---------------------------- MODULE MCEventLoop ----------------------------
(* EventLoop with three timers in all and a clock that stops at two milliseconds.  *)
EXTENDS EventLoop
=============================================================================
