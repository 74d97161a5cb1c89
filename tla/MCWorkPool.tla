----------------------------- MODULE MCWorkPool -----------------------------
(* WorkPool with three workers, two submitting threads and three jobs.  *)
EXTENDS WorkPool
=============================================================================
