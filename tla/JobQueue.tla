------------------------------ MODULE JobQueue ------------------------------
(***************************************************************************)
(* What the compute pool of crates/cv_sched promises: every submitted job  *)
(* is started once, the highest band first and in order within a band, as  *)
(* long as a worker is free, whatever the other jobs do; the pool is       *)
(* closed only when nothing is queued or running.  No lock, no condition   *)
(* variable: WorkPool implements this.                                     *)
(***************************************************************************)
EXTENDS Naturals, Sequences

CONSTANTS Workers, Jobs, None

VARIABLES queue,   \* band -> jobs not started, oldest first
          cur,     \* worker -> the job it runs, or None
          done,    \* jobs that have returned
          closed   \* the pool has been dropped

vars == <<queue, cur, done, closed>>

Priority == {"High", "Normal", "Low"}
Outranks(p, q) == <<p, q>> \in {<<"High", "Normal">>, <<"High", "Low">>, <<"Normal", "Low">>}

Queued == UNION {{queue[p][i] : i \in DOMAIN queue[p]} : p \in Priority}
Running == {cur[w] : w \in Workers} \ {None}

Init == /\ queue = [p \in Priority |-> <<>>]
        /\ cur = [w \in Workers |-> None]
        /\ done = {} /\ closed = FALSE

Submit(p, j) ==
  /\ ~closed /\ j \notin Queued \cup Running \cup done
  /\ queue' = [queue EXCEPT ![p] = Append(@, j)]
  /\ UNCHANGED <<cur, done, closed>>

Start(w) ==
  /\ cur[w] = None
  /\ \E p \in Priority :
       /\ queue[p] # <<>>
       /\ \A q \in Priority : Outranks(q, p) => queue[q] = <<>>
       /\ cur' = [cur EXCEPT ![w] = Head(queue[p])]
       /\ queue' = [queue EXCEPT ![p] = Tail(@)]
  /\ UNCHANGED <<done, closed>>

Finish(w) ==
  /\ cur[w] # None
  /\ done' = done \cup {cur[w]}
  /\ cur' = [cur EXCEPT ![w] = None]
  /\ UNCHANGED <<queue, closed>>

Close ==
  /\ ~closed /\ Queued = {} /\ Running = {}
  /\ closed' = TRUE
  /\ UNCHANGED <<queue, cur, done>>

StartSome == \E w \in Workers : Start(w)
Next == \/ \E p \in Priority, j \in Jobs : Submit(p, j)
        \/ StartSome
        \/ \E w \in Workers : Finish(w)
        \/ Close

Safety == Init /\ [][Next]_vars

\* A free worker and a queued job find each other, even if no running job ever
\* returns.
Progress == WF_vars(StartSome)

Spec == Safety /\ Progress
=============================================================================
