----------------------------- MODULE EventLoop ------------------------------
(***************************************************************************)
(* Timers and animation frames (crates/cv_browser/src/scheduler.rs) and    *)
(* the loops that drain them (crates/cv_browser/src/main.rs):              *)
(* drain_scheduler in the realm of a web worker or service worker, and     *)
(* drain_due and drain_due_deadline (the frame ticker) in a page's realm.  *)
(*                                                                         *)
(* JavaScript runs between the loop's steps: outside a drain (scripts and  *)
(* input handlers), in a timer's callback with the microtask checkpoint    *)
(* that follows it, and in the handlers of the other event sources.  What  *)
(* it may do to the scheduler are the Js actions.                          *)
(*                                                                         *)
(* The scheduler's Vec is a bag: its order is lost in drain_due_split's    *)
(* sort, whose ties are equal tasks.  A batch is a bag of which the least  *)
(* task runs next.  The history variables are read by properties only.     *)
(***************************************************************************)
EXTENDS Naturals, FiniteSets, Bags

CONSTANTS
  Delays,     \* setTimeout delays and setInterval periods, in milliseconds
  Slice,      \* length of the frame's slice, 12 ms in the code
  MaxIters,   \* max_iters of a drain, 50 to 8000 in the code
  MaxTime,    \* bound: the clock stops here
  MaxId,      \* bound: timers armed in all (2^32 in the code, then ids repeat)
  None

ASSUME LoopAssumption ==
  /\ Delays \subseteq Nat /\ IsFiniteSet(Delays)
  /\ Slice \in Nat /\ MaxIters \in Nat /\ MaxTime \in Nat /\ MaxId \in Nat
  /\ None \notin Nat

VARIABLES
  now,                    \* Scheduler::now_ms
  next_id, queue,         \* Scheduler
  frozen,                 \* drain_scheduler's realm: timers use the snapshot too
  pc,                     \* idle, top (of the for loop), batch, task, sources, host
  batch, running,         \* due tasks not run yet; the task whose callback runs
  had_timers, iters,      \* locals of the drain,
  raf_cutoff, deadline,   \* its snapshots: the clock, and the slice's end or None
  mark, ran,              \* history: next_id when the drain began; ids run since then
  last,                   \* history: <<fire_at, id>> of the last timeout or interval run
  fired, cancelled,       \* history: ids run at least once; ids cleared
  dead                    \* history: ids cleared while no batch held them

sched == <<next_id, queue>>
work == <<batch, running>>
locals == <<had_timers, iters, raf_cutoff, deadline, mark, ran>>
hist == <<last, fired, cancelled, dead>>
vars == <<now, sched, frozen, pc, work, locals, hist>>

Kinds == {"Timeout", "Interval", "AnimationFrame"}
Tasks == [id : Nat, fire_at : Nat, repeat : Nat, kind : Kinds]   \* repeat 0 is None

Copies(t, B) == IF t \in BagToSet(B) THEN B[t] ELSE 0
Ids(B) == {t.id : t \in BagToSet(B)}
Key(t) == <<t.fire_at, t.id>>
KeyLe(k, l) == k[1] < l[1] \/ (k[1] = l[1] /\ k[2] <= l[2])
Select(B, S) == [t \in S |-> B[t]]   \* the part of bag B over S \subseteq DOMAIN B

Init ==
  /\ now = 0 /\ next_id = 1 /\ queue = EmptyBag
  /\ pc = "idle" /\ batch = EmptyBag /\ running = None
  /\ had_timers = FALSE /\ iters = 0
  /\ raf_cutoff = 0 /\ deadline = None /\ frozen \in BOOLEAN
  /\ last = <<0, 0>> /\ fired = {} /\ cancelled = {} /\ dead = {}
  /\ mark = 0 /\ ran = {}

-----------------------------------------------------------------------------
(* The scheduler, called from JavaScript *)

JsRuns == pc \in {"idle", "task", "host"}

Arm(delay, repeat, kind) ==
  /\ JsRuns /\ next_id <= MaxId
  /\ queue' = queue (+) SetToBag({[id |-> next_id, fire_at |-> now + delay,
                                   repeat |-> repeat, kind |-> kind]})
  /\ next_id' = next_id + 1
  /\ UNCHANGED <<now, frozen, pc, work, locals, hist>>

schedule_timeout(delay) == Arm(delay, 0, "Timeout")

\* Seeded fault: no least period.
AtLeastOne_no(n) == n

AtLeastOne(n) == IF n = 0 THEN 1 ELSE n

schedule_interval(period) == Arm(AtLeastOne(period), AtLeastOne(period), "Interval")

\* Seeded fault: an animation frame is due at once.
schedule_raf_now == Arm(0, 0, "AnimationFrame")

\* Due at now + 1, after any snapshot of the drain that is running.
schedule_raf == Arm(1, 0, "AnimationFrame")

\* Seeded fault: only the earliest task of the id is removed.
cancel_one(id) ==
  /\ JsRuns /\ id < next_id
  /\ LET mine == {t \in BagToSet(queue) : t.id = id}
     IN queue' = Select(queue, BagToSet(queue) \
                               {t \in mine : \A u \in mine : t.fire_at <= u.fire_at})
  /\ cancelled' = cancelled \cup {id}
  /\ dead' = IF id \in Ids(batch) THEN dead ELSE dead \cup {id}
  /\ UNCHANGED <<now, next_id, frozen, pc, work, locals, last, fired>>

\* clearTimeout, clearInterval and cancelAnimationFrame: retain the other ids
\* of the queue.  The batch being run is not the scheduler's any more.
cancel(id) ==
  /\ JsRuns /\ id < next_id
  /\ queue' = Select(queue, {t \in BagToSet(queue) : t.id # id})
  /\ cancelled' = cancelled \cup {id}
  /\ dead' = IF id \in Ids(batch) THEN dead ELSE dead \cup {id}
  /\ UNCHANGED <<now, next_id, frozen, pc, work, locals, last, fired>>

-----------------------------------------------------------------------------
(* A drain *)

Goto(label) == pc' = label /\ UNCHANGED locals

NextTurn ==
  /\ pc' = "top" /\ iters' = iters + 1
  /\ UNCHANGED <<had_timers, raf_cutoff, deadline, mark, ran>>

\* The drain's locals end with it.
Return ==
  /\ pc' = "idle" /\ had_timers' = FALSE /\ iters' = 0
  /\ raf_cutoff' = 0 /\ deadline' = None /\ mark' = 0 /\ ran' = {}

\* Snapshot the clock, once for all animation frames of the drain.  Only the
\* page's ticker sets a deadline.
Begin(sliced) ==
  /\ pc = "idle" /\ (frozen => ~sliced)
  /\ pc' = "top" /\ raf_cutoff' = now
  /\ deadline' = IF sliced THEN now + Slice ELSE None
  /\ mark' = next_id
  /\ UNCHANGED <<now, sched, frozen, work, had_timers, iters, ran, hist>>

SlicePassed == deadline # None /\ now >= deadline

LoopEnds ==
  /\ pc = "top" /\ (iters = MaxIters \/ SlicePassed)
  /\ Return
  /\ UNCHANGED <<now, sched, frozen, work, hist>>

Due(cutoff) ==
  {t \in BagToSet(queue) :
     t.fire_at <= IF t.kind = "AnimationFrame" THEN raf_cutoff ELSE cutoff}

\* Seeded fault: a due interval is not queued again.
NextOccurrences_none(due, cutoff) == EmptyBag

\* Seeded fault: an interval that is late catches up with its missed deadlines.
NextOccurrences_catchup(due, cutoff) ==
  LET intervals == {t \in due : t.repeat # 0}
      again(t) == [t EXCEPT !.fire_at = t.fire_at + t.repeat]
      copies(n) == UNION {{t} \X (1..queue[t]) : t \in {u \in intervals : again(u) = n}}
  IN [n \in {again(t) : t \in intervals} |-> Cardinality(copies(n))]

\* The next occurrence of every due interval, as many times as it is due.
NextOccurrences(due, cutoff) ==
  LET intervals == {t \in due : t.repeat # 0}
      again(t) == [t EXCEPT !.fire_at = cutoff + t.repeat]
      copies(n) == UNION {{t} \X (1..queue[t]) : t \in {u \in intervals : again(u) = n}}
  IN [n \in {again(t) : t \in intervals} |-> Cardinality(copies(n))]

\* Pop all due tasks; an interval is queued for its next deadline at once.
drain_due_split ==
  LET cutoff == IF frozen THEN raf_cutoff ELSE now
      due == Due(cutoff)
  IN /\ pc = "top" /\ iters < MaxIters /\ ~SlicePassed
     /\ pc' = "batch" /\ had_timers' = (due # {})
     /\ batch' = Select(queue, due)
     /\ queue' = Select(queue, BagToSet(queue) \ due) (+) NextOccurrences(due, cutoff)
     /\ UNCHANGED <<now, next_id, frozen, running, iters, raf_cutoff, deadline,
                    mark, ran, hist>>

\* Seeded fault: the batch is run in any order.
First_any(t) == t \in BagToSet(batch)

\* The batch is sorted by deadline, then id.
First(t) == t \in BagToSet(batch) /\ \A u \in BagToSet(batch) : KeyLe(Key(t), Key(u))

\* The callback of the batch's first task is called.
RunTask ==
  /\ pc = "batch" /\ pc' = "task"
  /\ \E t \in BagToSet(batch) :
       /\ First(t)
       /\ batch' = batch (-) SetToBag({t}) /\ running' = t
       /\ fired' = fired \cup {t.id} /\ ran' = ran \cup {t.id}
       /\ last' = IF t.kind = "AnimationFrame" THEN last ELSE Key(t)
  /\ UNCHANGED <<now, sched, frozen, had_timers, iters, raf_cutoff, deadline, mark,
                 cancelled, dead>>

\* The rest of the batch goes back to the queue, verbatim.
requeue == queue' = queue (+) batch

\* The callback has returned or thrown, and microtasks are drained.
TaskReturns ==
  /\ pc = "task" /\ running' = None
  /\ IF SlicePassed
     THEN requeue /\ batch' = EmptyBag /\ Return
     ELSE UNCHANGED <<queue, batch>> /\ Goto("batch")
  /\ UNCHANGED <<now, next_id, frozen, last, fired, cancelled, dead>>

\* The batch is empty.  drain_scheduler has no other sources and stops at the
\* first batch that was empty from the start.
BatchDone ==
  /\ pc = "batch" /\ batch = EmptyBag
  /\ IF ~frozen THEN Goto("sources") ELSE IF had_timers THEN NextTurn ELSE Return
  /\ UNCHANGED <<now, sched, frozen, work, hist>>

\* Injected scripts, web sockets, event sources, XHRs, waitAsync promises,
\* fetches and microtasks: either a handler runs, or none had work.
Sources ==
  /\ pc = "sources"
  /\ Goto("host") \/ (IF had_timers THEN NextTurn ELSE Return)
  /\ UNCHANGED <<now, sched, frozen, work, hist>>

\* A source that had work keeps the loop going, except waitAsync promises.
HostReturns ==
  /\ pc = "host"
  /\ NextTurn \/ (~had_timers /\ Return)
  /\ UNCHANGED <<now, sched, frozen, work, hist>>

Tick ==
  /\ now < MaxTime /\ now' = now + 1
  /\ UNCHANGED <<sched, pc, frozen, work, locals, hist>>

-----------------------------------------------------------------------------
Js ==
  \/ \E d \in Delays : schedule_timeout(d) \/ schedule_interval(d)
  \/ schedule_raf
  \/ \E id \in 1..MaxId : cancel(id)

Drain ==
  \/ \E sliced \in BOOLEAN : Begin(sliced)
  \/ LoopEnds \/ drain_due_split
  \/ RunTask \/ TaskReturns \/ BatchDone
  \/ Sources \/ HostReturns

Next == Js \/ Drain \/ Tick

Spec == Init /\ [][Next]_vars

-----------------------------------------------------------------------------
TypeOK ==
  /\ now \in Nat /\ next_id \in Nat \ {0}
  /\ BagToSet(queue) \subseteq Tasks /\ BagToSet(batch) \subseteq Tasks
  /\ pc \in {"idle", "top", "batch", "task", "sources", "host"}
  /\ running \in Tasks \cup {None}
  /\ \A t \in BagToSet(queue) : (t.kind = "Interval") = (t.repeat # 0) /\ t.id < next_id
  /\ had_timers \in BOOLEAN /\ frozen \in BOOLEAN
  /\ iters \in Nat /\ raf_cutoff \in Nat /\ deadline \in Nat \cup {None}
  /\ last \in Nat \X Nat /\ mark \in Nat /\ ran \subseteq Nat
  /\ fired \subseteq Nat /\ cancelled \subseteq Nat /\ dead \subseteq Nat

\* Timeouts and intervals run in the order of their deadlines, and timers of
\* one deadline in the order they were armed: over batches, drains, slices cut
\* short and tasks put back, nothing overtakes a timer that is due earlier.
FiresInDeadlineOrder == [][KeyLe(last, last')]_last

\* Timers are conserved.  None is lost: one that was armed has run, was cleared, or is still held,
\* and an interval that was not cleared is always queued, while it runs too.
NoTimerLost ==
  \A id \in 1..(next_id - 1) \ cancelled :
    /\ id \in fired \cup Ids(queue) \cup Ids(batch)
    /\ \A t \in BagToSet(batch) \cup ({running} \ {None}) :
         t.id = id /\ t.repeat # 0 => id \in Ids(queue)

\* A timeout or animation frame runs once: after it ran it is not held again,
\* and it is never held twice.
OneShotRunsOnce ==
  \A t \in BagToSet(queue) \cup BagToSet(batch) :
    t.repeat = 0 =>
      /\ t.id \notin fired
      /\ Copies(t, queue) + Copies(t, batch) = 1

Conserved == NoTimerLost /\ OneShotRunsOnce

\* Clearing a timer that no running batch holds is final, an interval cleared
\* by its own callback included: it is never queued or popped again.  (A timer
\* of the batch that is running is past clearing: it runs, or is put back.)
ClearIsFinal == dead \cap (Ids(queue) \cup Ids(batch)) = {}

\* A drain is bounded by its snapshot of the clock.  An animation frame armed
\* during a drain waits for the next one, so that a callback that re-arms itself
\* advances one frame per drain.  In drain_scheduler's realms nothing runs twice
\* in a drain, however long callbacks take: an interval cannot keep a worker busy.
DrainIsBounded ==
  [][running' \notin {None, running} =>
       /\ running'.kind = "AnimationFrame" => running'.id < mark
       /\ frozen => running'.id \notin ran]_vars

Held == BagToSet(queue) \cup BagToSet(batch)

\* Tasks that the drain that runs, or the next one, has to pop: animation frames, and
\* in drain_scheduler's realms all timers, count by the snapshot of the drain.
Overdue ==
  {t \in Held : t.fire_at <= IF pc # "idle" /\ (frozen \/ t.kind = "AnimationFrame")
                             THEN raf_cutoff ELSE now}

\* Nothing gets in front of a task that is due, so that callbacks that arm timers and
\* intervals that are late cannot starve it: of the tasks that would run before it there
\* never come to be more, whatever is armed, re-queued, cut short by a slice or put
\* back, and every task that runs while it waits is one of these.
NothingOvertakesDue ==
  [][\A t \in Overdue :
       /\ \A u \in Held' : KeyLe(Key(u), Key(t)) =>
            Copies(u, queue') + Copies(u, batch') <= Copies(u, queue) + Copies(u, batch)
       /\ running' \notin {None, running} => KeyLe(Key(running'), Key(t))]_vars
=============================================================================
