------------------------------ MODULE WorkPool ------------------------------
(***************************************************************************)
(* The compute pool (crates/cv_sched/src/lib.rs): a Condvar-guarded queue  *)
(* of three priority bands, a fixed set of workers, submitters, and the    *)
(* thread that drops the pool.                                             *)
(*                                                                         *)
(* What a thread does while it holds the mutex is one step.  notify_one    *)
(* and notify_all come after the mutex is released, as steps of their own. *)
(***************************************************************************)
EXTENDS Naturals, Sequences, FiniteSets

CONSTANTS Workers, Submitters, Jobs, None

ASSUME PoolAssumption ==
  /\ IsFiniteSet(Workers) /\ Workers # {}   \* Pool::new clamps to one thread
  /\ IsFiniteSet(Submitters)
  /\ None \notin Jobs

VARIABLES
  queue, shutdown,   \* Inner
  wpc, cur,          \* workers: lock (about to take the mutex), wait, run, exit
  spc,               \* submitters: idle, or notify (job pushed, notify_one to come)
  dpc,               \* the pool: live, notify, join, dropped
  done               \* jobs that have returned

vars == <<queue, shutdown, wpc, cur, spc, dpc, done>>

Priority == {"High", "Normal", "Low"}
Empty == \A p \in Priority : queue[p] = <<>>
Queued == UNION {{queue[p][i] : i \in DOMAIN queue[p]} : p \in Priority}
Running == {cur[w] : w \in Workers} \ {None}

At(pc) == {w \in Workers : wpc[w] = pc}
Notifying == {s \in Submitters : spc[s] = "notify"}

Init ==
  /\ queue = [p \in Priority |-> <<>>] /\ shutdown = FALSE
  /\ wpc = [w \in Workers |-> "lock"] /\ cur = [w \in Workers |-> None]
  /\ spc = [s \in Submitters |-> "idle"]
  /\ dpc = "live"
  /\ done = {}

-----------------------------------------------------------------------------
(* submit *)

\* Inner::push under the mutex.  A job is a closure, submitted once.
Submit(s, p, j) ==
  /\ dpc = "live" /\ spc[s] = "idle"
  /\ j \notin Queued \cup Running \cup done
  /\ queue' = [queue EXCEPT ![p] = Append(@, j)]
  /\ spc' = [spc EXCEPT ![s] = "notify"]
  /\ UNCHANGED <<shutdown, wpc, cur, dpc, done>>

\* Seeded fault: the notification is lost.
NotifyOne_lost(s) ==
  /\ spc[s] = "notify"
  /\ spc' = [spc EXCEPT ![s] = "idle"]
  /\ UNCHANGED <<wpc, queue, shutdown, cur, dpc, done>>

\* notify_one wakes one of the threads waiting now, or nobody.
NotifyOne(s) ==
  /\ spc[s] = "notify"
  /\ spc' = [spc EXCEPT ![s] = "idle"]
  /\ \/ \E w \in At("wait") : wpc' = [wpc EXCEPT ![w] = "lock"]
     \/ At("wait") = {} /\ UNCHANGED wpc
  /\ UNCHANGED <<queue, shutdown, cur, dpc, done>>

-----------------------------------------------------------------------------
(* worker *)

\* Seeded fault: the bands are tried from the lowest.
pop_low_first == CASE queue["Low"] # <<>> -> "Low"
                   [] queue["Low"] = <<>> /\ queue["Normal"] # <<>> -> "Normal"
                   [] OTHER -> "High"

\* The band Inner::pop takes from, when the queue is not empty.
pop == CASE queue["High"] # <<>> -> "High"
         [] queue["High"] = <<>> /\ queue["Normal"] # <<>> -> "Normal"
         [] OTHER -> "Low"

TakeJob(w) ==
  /\ wpc[w] = "lock" /\ ~Empty
  /\ cur' = [cur EXCEPT ![w] = Head(queue[pop])]
  /\ queue' = [queue EXCEPT ![pop] = Tail(@)]
  /\ wpc' = [wpc EXCEPT ![w] = "run"]
  /\ UNCHANGED <<shutdown, spc, dpc, done>>

\* Nothing to do: the mutex is released and the thread waits, in one step.
WaitForJob(w) ==
  /\ wpc[w] = "lock" /\ Empty /\ ~shutdown
  /\ wpc' = [wpc EXCEPT ![w] = "wait"]
  /\ UNCHANGED <<queue, shutdown, cur, spc, dpc, done>>

ExitWorker(w) ==
  /\ wpc[w] = "lock" /\ Empty /\ shutdown
  /\ wpc' = [wpc EXCEPT ![w] = "exit"]
  /\ UNCHANGED <<queue, shutdown, cur, spc, dpc, done>>

\* Seeded fault: a thread that wakes up does not look at the queue again.
SpuriousWakeup_norecheck(w) ==
  /\ wpc[w] = "wait"
  /\ wpc' = [wpc EXCEPT ![w] = "run"]
  /\ UNCHANGED <<queue, shutdown, cur, spc, dpc, done>>

\* A condition variable may wake a thread for no reason.
SpuriousWakeup(w) ==
  /\ wpc[w] = "wait"
  /\ wpc' = [wpc EXCEPT ![w] = "lock"]
  /\ UNCHANGED <<queue, shutdown, cur, spc, dpc, done>>

\* job() returned; it ran outside the mutex.
FinishJob(w) ==
  /\ wpc[w] = "run"
  /\ done' = done \cup {cur[w]}
  /\ cur' = [cur EXCEPT ![w] = None]
  /\ wpc' = [wpc EXCEPT ![w] = "lock"]
  /\ UNCHANGED <<queue, shutdown, spc, dpc>>

-----------------------------------------------------------------------------
(* Drop for Pool: it owns the pool, so no submit is under way. *)

DropPool ==
  /\ dpc = "live" /\ Notifying = {}
  /\ shutdown' = TRUE
  /\ dpc' = "notify"
  /\ UNCHANGED <<queue, wpc, cur, spc, done>>

\* Seeded fault: notify_one where every worker has to be told.
DropNotify_one ==
  /\ dpc = "notify"
  /\ \/ \E w \in At("wait") : wpc' = [wpc EXCEPT ![w] = "lock"]
     \/ At("wait") = {} /\ UNCHANGED wpc
  /\ dpc' = "join"
  /\ UNCHANGED <<queue, shutdown, cur, spc, done>>

\* notify_all
DropNotify ==
  /\ dpc = "notify"
  /\ wpc' = [w \in Workers |-> IF wpc[w] = "wait" THEN "lock" ELSE wpc[w]]
  /\ dpc' = "join"
  /\ UNCHANGED <<queue, shutdown, cur, spc, done>>

\* Every worker has been joined.
DropJoined ==
  /\ dpc = "join" /\ At("exit") = Workers
  /\ dpc' = "dropped"
  /\ UNCHANGED <<queue, shutdown, wpc, cur, spc, done>>

-----------------------------------------------------------------------------
WorkerLocks(w) == TakeJob(w) \/ WaitForJob(w) \/ ExitWorker(w)
WorkerStep == \E w \in Workers : WorkerLocks(w) \/ SpuriousWakeup(w) \/ FinishJob(w)
SubmitterStep == \E s \in Submitters :
                   NotifyOne(s) \/ \E p \in Priority, j \in Jobs : Submit(s, p, j)
DropStep == DropPool \/ DropNotify \/ DropJoined

Dropped == dpc = "dropped" /\ UNCHANGED vars

Next == WorkerStep \/ SubmitterStep \/ DropStep \/ Dropped

\* Threads that have something to do and are not blocked get the processor.  No
\* job is assumed to return and no pool to be dropped.
Fairness ==
  /\ \A w \in Workers : WF_vars(WorkerLocks(w))
  /\ \A s \in Submitters : WF_vars(NotifyOne(s))
  /\ WF_vars(DropNotify) /\ WF_vars(DropJoined)

Spec == Init /\ [][Next]_vars /\ Fairness

-----------------------------------------------------------------------------
(* Properties. *)

\* The type of every variable.
TypeOK ==
  /\ queue \in [Priority -> Seq(Jobs)] /\ shutdown \in BOOLEAN
  /\ wpc \in [Workers -> {"lock", "wait", "run", "exit"}]
  /\ cur \in [Workers -> Jobs \cup {None}]
  /\ spc \in [Submitters -> {"idle", "notify"}]
  /\ dpc \in {"live", "notify", "join", "dropped"}
  /\ done \in SUBSET Jobs

QueueLength == Len(queue["High"]) + Len(queue["Normal"]) + Len(queue["Low"])

\* No wakeup is lost: while some worker sleeps, each queued job has a thread of
\* its own on the way, a worker about to look at the queue or a submitter about
\* to notify (notify_one is called once per push, outside the mutex).
WakeupsCoverQueue ==
  At("wait") # {} => QueueLength <= Cardinality(At("lock")) + Cardinality(Notifying)

JQ == INSTANCE JobQueue WITH closed <- dpc = "dropped"

\* The pool does only what JobQueue allows: a job is taken once, by one worker,
\* highest band first, and Drop returns only when no job is queued or running
\* ("no work is lost").
QueueSafety == JQ!Safety

\* A queued job is started if a worker is free, even when the jobs that run
\* never return: nothing but the wakeups carries it.
QueueProgress == JQ!Progress

\* Drop returns, provided no job runs for ever.
DropReturns ==
  (\A w \in Workers : []<>(cur[w] = None)) => ((dpc = "notify") ~> (dpc = "dropped"))
=============================================================================
