-------------------------- MODULE EventLoopProofs ---------------------------
(***************************************************************************)
(* Proofs about EventLoop, for any delays, slice and bounds: its types,    *)
(* that clearing a timer is final, that timers run in the order of their   *)
(* deadlines, that they are conserved, that a drain is bounded, and that   *)
(* nothing gets in front of a timer that is due.  Only which tasks a bag   *)
(* holds matters to the first three; for conservation and bounded drains   *)
(* one-shot timers, and in a worker's realm all timers, are held once; the *)
(* last one counts the copies of a task.                                   *)
(***************************************************************************)
EXTENDS EventLoop, FiniteSetTheorems, TLAPS

\* The members of the bags that the scheduler builds: of a sum,
LEMMA SumMembers ==
  ASSUME NEW B, NEW D
  PROVE  BagToSet(B (+) D) = BagToSet(B) \cup BagToSet(D)
  BY DEF BagToSet, (+)

\* and of the others.
LEMMA BagMembers ==
  ASSUME NEW B, NEW D, NEW S
  PROVE  /\ BagToSet(B (-) D) \subseteq BagToSet(B)
         /\ BagToSet(SetToBag(S)) = S
         /\ BagToSet(Select(B, S)) = S
         /\ BagToSet(EmptyBag) = {}
  BY DEF BagToSet, (-), SetToBag, Select, EmptyBag

\* A next occurrence differs from the interval that is due in its deadline only.
LEMMA Occurrences ==
  ASSUME NEW due, due \subseteq Tasks, NEW cutoff \in Nat,
         NEW n \in BagToSet(NextOccurrences(due, cutoff))
  PROVE  /\ n \in Tasks
         /\ \E t \in due : /\ t.repeat # 0 /\ n.fire_at = cutoff + t.repeat
                           /\ n.id = t.id /\ n.kind = t.kind /\ n.repeat = t.repeat
<1>1. PICK t \in due : t.repeat # 0 /\ n = [t EXCEPT !.fire_at = cutoff + t.repeat]
  BY DEF BagToSet, NextOccurrences
<1>2. t \in Tasks
  OBVIOUS
<1> QED
  BY <1>1, <1>2 DEF Tasks

Good(t) == (t.kind = "Interval") = (t.repeat # 0) /\ t.id < next_id

\* What is needed besides TypeOK: the batch holds what the queue may hold, and
\* a cleared id is one that was armed.
LoopInv ==
  /\ TypeOK
  /\ \A t \in BagToSet(batch) : Good(t)
  /\ \A id \in dead : id < next_id

Timers(B) == {t \in BagToSet(B) : t.kind # "AnimationFrame"}

\* The order of what ran, what is in the batch and what is queued.  Where
\* timers use the snapshot of the clock, what is past is bounded by it.
OrderInv ==
  /\ last[1] <= now /\ last[2] < next_id /\ raf_cutoff <= now
  /\ frozen /\ pc # "idle" => last[1] <= raf_cutoff
  /\ \A u \in Timers(queue) \cup Timers(batch) : KeyLe(last, Key(u))
  /\ \A t \in Timers(batch) :
       /\ t.fire_at <= now
       /\ frozen /\ pc # "idle" => t.fire_at <= raf_cutoff
       /\ \A u \in Timers(queue) : KeyLe(Key(t), Key(u))

IInv == LoopInv /\ ClearIsFinal /\ OrderInv

USE LoopAssumption

\* Nothing is armed at first.
LEMMA InitInv == Init => IInv
<1> SUFFICES ASSUME Init PROVE IInv
  OBVIOUS
<1>1. BagToSet(queue) = {} /\ BagToSet(batch) = {}
  BY BagMembers DEF Init
<1>2. TypeOK
  <2>1. /\ had_timers \in BOOLEAN /\ frozen \in BOOLEAN /\ running \in Tasks \cup {None}
        /\ BagToSet(queue) \subseteq Tasks /\ BagToSet(batch) \subseteq Tasks
        /\ ran \subseteq Nat /\ fired \subseteq Nat
        /\ cancelled \subseteq Nat /\ dead \subseteq Nat
        /\ \A t \in BagToSet(queue) : (t.kind = "Interval") = (t.repeat # 0) /\ t.id < next_id
    BY <1>1, Zenon DEF Init
  <2>2. /\ now \in Nat /\ next_id \in Nat \ {0} /\ iters \in Nat /\ raf_cutoff \in Nat
        /\ deadline \in Nat \cup {None} /\ mark \in Nat
        /\ pc \in {"idle", "top", "batch", "task", "sources", "host"}
    BY DEF Init
  <2>3. last \in Nat \X Nat
    BY DEF Init
  <2> QED
    BY <2>1, <2>2, <2>3 DEF TypeOK
<1>3. ClearIsFinal /\ dead = {}
  BY DEF Init, ClearIsFinal
<1>4. OrderInv
  BY <1>1 DEF Init, OrderInv, Timers
<1> QED
  BY <1>1, <1>2, <1>3, <1>4 DEF IInv, LoopInv

\* A timer armed now is not due before now, and its id is the greatest.
LEMMA ArmInv ==
  ASSUME IInv, NEW delay \in Nat, NEW repeat \in Nat, NEW kind \in Kinds,
         (kind = "Interval") = (repeat # 0), Arm(delay, repeat, kind)
  PROVE  IInv'
<1> DEFINE new == [id |-> next_id, fire_at |-> now + delay, repeat |-> repeat, kind |-> kind]
<1>1. BagToSet(queue') = BagToSet(queue) \cup {new}
  <2>1. queue' = queue (+) SetToBag({new})
    BY DEF Arm
  <2>2. BagToSet(SetToBag({new})) = {new}
    BY BagMembers
  <2>3. BagToSet(queue (+) SetToBag({new})) = BagToSet(queue) \cup BagToSet(SetToBag({new}))
    BY SumMembers
  <2> QED
    BY <2>1, <2>2, <2>3
<1>2. new \in Tasks /\ new.id = next_id /\ new.fire_at = now + delay
      /\ new.repeat = repeat /\ new.kind = kind
  BY DEF Tasks, IInv, LoopInv, TypeOK
<1>3. next_id' = next_id + 1 /\ next_id \in Nat /\ now \in Nat
  BY DEF Arm, IInv, LoopInv, TypeOK
<1> HIDE DEF new
<1>4. UNCHANGED <<now, frozen, pc, work, locals, hist>>
  BY DEF Arm
<1>5. BagToSet(queue) \subseteq Tasks /\ BagToSet(batch) \subseteq Tasks
  BY DEF IInv, LoopInv, TypeOK
<1>6. LoopInv'
  BY <1>1, <1>2, <1>3, <1>4, <1>5
  DEF IInv, LoopInv, TypeOK, Good, Tasks, work, locals, hist
<1>7. ClearIsFinal'
  BY <1>1, <1>2, <1>3, <1>4 DEF IInv, LoopInv, ClearIsFinal, Ids, work, hist
<1>8. OrderInv'
  BY <1>1, <1>2, <1>3, <1>4, <1>5
  DEF IInv, LoopInv, TypeOK, OrderInv, Good, Timers, Key, KeyLe, Tasks, work, locals, hist
<1> QED
  BY <1>6, <1>7, <1>8 DEF IInv

\* Clearing an id leaves no task of it in the queue.
LEMMA CancelInv ==
  ASSUME IInv, NEW id \in 1..MaxId, cancel(id)
  PROVE  IInv'
<1>1. BagToSet(queue') = {t \in BagToSet(queue) : t.id # id}
  BY BagMembers DEF cancel
<1>2. UNCHANGED <<now, next_id, frozen, pc, batch, running, locals, last, fired>>
  BY DEF cancel, work
<1>3. LoopInv'
  BY <1>1, <1>2 DEF IInv, LoopInv, TypeOK, Good, cancel, locals
<1>4. ClearIsFinal'
  BY <1>1, <1>2 DEF IInv, ClearIsFinal, Ids, cancel
<1>5. OrderInv'
  BY <1>1, <1>2 DEF IInv, OrderInv, Timers, locals
<1> QED
  BY <1>3, <1>4, <1>5 DEF IInv

\* Steps that leave the tasks where they are.
LEMMA ControlInv ==
  ASSUME IInv, UNCHANGED <<next_id, frozen, work, queue, hist>>,
         now' \in Nat, now' >= now, TypeOK', raf_cutoff' <= now',
         pc' # "idle" => raf_cutoff' >= now \/ (raf_cutoff' = raf_cutoff /\ pc # "idle")
  PROVE  IInv'
<1>1. LoopInv'
  BY DEF IInv, LoopInv, TypeOK, Good, work, hist
<1>2. ClearIsFinal'
  BY DEF IInv, ClearIsFinal, Ids, work, hist
<1>3. BagToSet(queue) \subseteq Tasks /\ BagToSet(batch) \subseteq Tasks
  BY DEF IInv, LoopInv, TypeOK
<1>4. OrderInv'
  BY <1>3 DEF IInv, LoopInv, TypeOK, OrderInv, Timers, Tasks, work, hist
<1> QED
  BY <1>1, <1>2, <1>4 DEF IInv

\* What stays behind is due after the cutoff, and so is every next occurrence.
LEMMA SplitInv == ASSUME IInv, drain_due_split PROVE IInv'
<1> DEFINE cutoff == IF frozen THEN raf_cutoff ELSE now
           due == Due(cutoff)
           again == BagToSet(NextOccurrences(due, cutoff))
<1>1. /\ BagToSet(batch') = due
      /\ BagToSet(queue') = (BagToSet(queue) \ due) \cup again
  <2>1. /\ batch' = Select(queue, due)
        /\ queue' = Select(queue, BagToSet(queue) \ due) (+) NextOccurrences(due, cutoff)
    BY DEF drain_due_split
  <2>2. BagToSet(Select(queue, BagToSet(queue) \ due)) = BagToSet(queue) \ due
    BY BagMembers
  <2>3. BagToSet(Select(queue, due)) = due
    BY BagMembers
  <2>4. BagToSet(Select(queue, BagToSet(queue) \ due) (+) NextOccurrences(due, cutoff)) =
          BagToSet(Select(queue, BagToSet(queue) \ due)) \cup again
    BY SumMembers
  <2> QED
    BY <2>1, <2>2, <2>3, <2>4
<1>2. /\ UNCHANGED <<now, next_id, frozen, running, iters, raf_cutoff, deadline, mark, ran, hist>>
      /\ pc = "top" /\ pc' = "batch" /\ had_timers' \in BOOLEAN
  BY DEF drain_due_split
<1>3. cutoff \in Nat /\ cutoff <= now /\ last[1] <= cutoff /\ last \in Nat \X Nat /\ now \in Nat
  BY <1>2 DEF IInv, LoopInv, TypeOK, OrderInv
<1>4. due \subseteq BagToSet(queue) /\ BagToSet(queue) \subseteq Tasks
  BY DEF Due, IInv, LoopInv, TypeOK
<1>5. \A n \in again :
        /\ n \in Tasks
        /\ \E t \in due : /\ t.repeat # 0 /\ n.fire_at = cutoff + t.repeat
                          /\ n.id = t.id /\ n.kind = t.kind /\ n.repeat = t.repeat
  BY <1>3, <1>4, Occurrences
<1>6. \A u \in BagToSet(queue) :
        u.kind # "AnimationFrame" => (u \in due) = (u.fire_at <= cutoff)
  BY DEF Due
<1> HIDE DEF due, again, cutoff
<1>7. LoopInv'
  <2>1. \A t \in BagToSet(queue') : t \in Tasks /\ Good(t)
    BY <1>1, <1>4, <1>5 DEF IInv, LoopInv, TypeOK, Good
  <2>2. \A t \in BagToSet(batch') : t \in Tasks /\ Good(t)
    BY <1>1, <1>4 DEF IInv, LoopInv, TypeOK, Good
  <2> QED
    BY <1>2, <2>1, <2>2 DEF IInv, LoopInv, TypeOK, Good, hist
<1>8. ClearIsFinal'
  <2>1. Ids(queue') \subseteq Ids(queue) /\ Ids(batch') \subseteq Ids(queue)
    BY <1>1, <1>4, <1>5 DEF Ids
  <2> QED
    BY <1>2, <2>1 DEF IInv, ClearIsFinal, hist
<1>9. OrderInv'
  <2>1. \A t \in Timers(batch') : /\ t \in Tasks /\ t.fire_at <= cutoff
                                  /\ KeyLe(last, Key(t))
    BY <1>1, <1>4, <1>6 DEF IInv, OrderInv, Timers
  <2>2. \A u \in Timers(queue') : u \in Tasks /\ u.fire_at > cutoff
    BY <1>1, <1>3, <1>4, <1>5, <1>6 DEF Timers, Tasks
  <2>3. frozen => cutoff = raf_cutoff
    BY DEF cutoff
  <2>4. UNCHANGED <<last, now, next_id, raf_cutoff, frozen>>
    BY <1>2 DEF hist
  <2>5. \A u \in Timers(queue') : KeyLe(last, Key(u))
    BY <1>3, <2>2 DEF KeyLe, Key, Tasks
  <2>6. \A t \in Timers(batch') : \A u \in Timers(queue') : KeyLe(Key(t), Key(u))
    BY <1>3, <2>1, <2>2 DEF KeyLe, Key, Tasks
  <2>7. \A t \in Timers(batch') : /\ t.fire_at <= now
                                  /\ frozen => t.fire_at <= raf_cutoff
    BY <1>3, <2>1, <2>3 DEF Tasks
  <2>8. /\ last[1] <= now /\ last[2] < next_id /\ raf_cutoff <= now
        /\ frozen => last[1] <= raf_cutoff
    BY <1>3, <2>3 DEF IInv, OrderInv
  <2> QED
    BY <2>1, <2>4, <2>5, <2>6, <2>7, <2>8 DEF OrderInv
<1> QED
  BY <1>7, <1>8, <1>9 DEF IInv

\* The batch's first timer is no earlier than the last that ran, and no later
\* than what is left.
LEMMA RunInv == ASSUME IInv, RunTask PROVE IInv' /\ KeyLe(last, last')
<1>1. PICK t \in BagToSet(batch) :
        /\ First(t)
        /\ batch' = batch (-) SetToBag({t}) /\ running' = t
        /\ fired' = fired \cup {t.id} /\ ran' = ran \cup {t.id}
        /\ last' = IF t.kind = "AnimationFrame" THEN last ELSE Key(t)
  BY DEF RunTask
<1>2. BagToSet(batch') \subseteq BagToSet(batch)
  BY <1>1, BagMembers
<1>3. /\ UNCHANGED <<now, next_id, queue, frozen, had_timers, iters, raf_cutoff, deadline,
                      mark, cancelled, dead>>
      /\ pc = "batch" /\ pc' = "task"
  BY DEF RunTask, sched
<1>4. t \in Tasks /\ Good(t) /\ BagToSet(batch) \subseteq Tasks
      /\ BagToSet(queue) \subseteq Tasks /\ last \in Nat \X Nat
  BY DEF IInv, LoopInv, TypeOK
<1>5. Key(t) \in Nat \X Nat /\ Key(t)[1] = t.fire_at /\ Key(t)[2] = t.id /\ t.id \in Nat
  BY <1>4 DEF Key, Tasks
<1>6. LoopInv'
  BY <1>1, <1>2, <1>3, <1>4, <1>5 DEF IInv, LoopInv, TypeOK, Good
<1>7. ClearIsFinal'
  BY <1>2, <1>3 DEF IInv, ClearIsFinal, Ids
<1>8. KeyLe(last, last) /\ KeyLe(last, last')
  BY <1>1, <1>4 DEF IInv, OrderInv, Timers, KeyLe
<1>9. OrderInv'
  <2>1. CASE t.kind = "AnimationFrame"
    BY <1>1, <1>2, <1>3, <2>1 DEF IInv, OrderInv, Timers
  <2>2. CASE t.kind # "AnimationFrame"
    <3>1. t \in Timers(batch) /\ last' = Key(t)
      BY <1>1, <2>2 DEF Timers
    <3>2. Timers(batch') \subseteq Timers(batch) /\ Timers(queue') = Timers(queue)
      BY <1>2, <1>3 DEF Timers
    <3>3. \A u \in Timers(queue') \cup Timers(batch') : KeyLe(last', Key(u))
      BY <1>1, <3>1, <3>2 DEF IInv, OrderInv, First, Timers
    <3>4. /\ last'[1] <= now /\ last'[2] < next_id
          /\ frozen => last'[1] <= raf_cutoff
      BY <1>3, <1>4, <1>5, <3>1 DEF IInv, OrderInv, Good
    <3> QED
      BY <1>3, <3>2, <3>3, <3>4 DEF IInv, OrderInv
  <2> QED
    BY <2>1, <2>2
<1> QED
  BY <1>6, <1>7, <1>8, <1>9 DEF IInv

\* The end of a slice puts the batch back into the queue.
LEMMA ReturnsInv == ASSUME IInv, TaskReturns PROVE IInv'
<1>1. CASE SlicePassed
  <2>1. /\ queue' = queue (+) batch /\ batch' = EmptyBag /\ running' = None /\ Return
        /\ UNCHANGED <<now, next_id, frozen, last, fired, cancelled, dead>>
    BY <1>1 DEF TaskReturns, requeue
  <2>2. BagToSet(queue') = BagToSet(queue) \cup BagToSet(batch) /\ BagToSet(batch') = {}
    BY <2>1, SumMembers, BagMembers
  <2>3. LoopInv'
    BY <2>1, <2>2 DEF IInv, LoopInv, TypeOK, Good, Return
  <2>4. ClearIsFinal'
    BY <2>1, <2>2 DEF IInv, ClearIsFinal, Ids
  <2>5. OrderInv'
    BY <2>1, <2>2 DEF IInv, LoopInv, TypeOK, OrderInv, Timers, Return
  <2> QED
    BY <2>3, <2>4, <2>5 DEF IInv
<1>2. CASE ~SlicePassed
  <2>1. /\ UNCHANGED <<now, next_id, queue, batch, frozen, locals, hist>> /\ running' = None
        /\ pc = "task" /\ pc' = "batch"
    BY <1>2 DEF TaskReturns, Goto, hist
  <2>2. LoopInv'
    BY <2>1 DEF IInv, LoopInv, TypeOK, Good, locals, hist
  <2>3. ClearIsFinal'
    BY <2>1 DEF IInv, ClearIsFinal, Ids, hist
  <2>4. OrderInv'
    BY <2>1 DEF IInv, OrderInv, Timers, locals, hist
  <2> QED
    BY <2>2, <2>3, <2>4 DEF IInv
<1> QED
  BY <1>1, <1>2

\* Every step keeps the invariant, and only RunTask changes what ran last.
LEMMA NextInv == ASSUME IInv, [Next]_vars PROVE IInv' /\ (UNCHANGED last \/ KeyLe(last, last'))
<1>1. TypeOK
  BY DEF IInv, LoopInv
<1>2. ASSUME NEW d \in Delays, schedule_timeout(d) PROVE IInv' /\ UNCHANGED last
  BY <1>2, ArmInv DEF schedule_timeout, Arm, Kinds, hist
<1>3. ASSUME NEW d \in Delays, schedule_interval(d) PROVE IInv' /\ UNCHANGED last
  <2>1. AtLeastOne(d) \in Nat \ {0}
    BY DEF AtLeastOne
  <2>2. Arm(AtLeastOne(d), AtLeastOne(d), "Interval")
    BY <1>3 DEF schedule_interval
  <2>3. IInv'
    BY <2>1, <2>2, ArmInv DEF Kinds
  <2> QED
    BY <2>2, <2>3 DEF Arm, hist
<1>4. ASSUME schedule_raf PROVE IInv' /\ UNCHANGED last
  BY <1>4, ArmInv DEF schedule_raf, Arm, Kinds, hist
<1>5. ASSUME NEW id \in 1..MaxId, cancel(id) PROVE IInv' /\ UNCHANGED last
  BY <1>5, CancelInv DEF cancel
<1>6. ASSUME NEW sliced \in BOOLEAN, Begin(sliced) PROVE IInv' /\ UNCHANGED last
  <2>1. TypeOK'
    BY <1>1, <1>6 DEF Begin, TypeOK, sched, work, hist
  <2>2. UNCHANGED <<now, next_id, frozen, work, queue, hist>> /\ raf_cutoff' = now
    BY <1>6 DEF Begin, sched
  <2> QED
    BY <1>1, <2>1, <2>2, ControlInv DEF TypeOK, hist
<1>7. ASSUME LoopEnds \/ BatchDone \/ Sources \/ HostReturns PROVE IInv' /\ UNCHANGED last
  <2>1. /\ UNCHANGED <<now, next_id, frozen, work, queue, hist>>
        /\ pc # "idle"
        /\ Return \/ NextTurn \/ Goto("sources") \/ Goto("host")
    BY <1>7 DEF LoopEnds, BatchDone, Sources, HostReturns, sched
  <2>2. TypeOK'
    <3>1. CASE Return
      BY <1>1, <2>1, <3>1 DEF Return, TypeOK, work, hist
    <3>2. CASE NextTurn
      BY <1>1, <2>1, <3>2 DEF NextTurn, TypeOK, work, hist
    <3>3. CASE Goto("sources") \/ Goto("host")
      BY <1>1, <2>1, <3>3 DEF Goto, TypeOK, work, hist, locals
    <3> QED
      BY <2>1, <3>1, <3>2, <3>3
  <2>3. /\ raf_cutoff' <= now'
        /\ pc' # "idle" => raf_cutoff' = raf_cutoff
    BY <1>1, <2>1 DEF Return, NextTurn, Goto, locals, IInv, OrderInv, TypeOK
  <2> QED
    BY <1>1, <2>1, <2>2, <2>3, ControlInv DEF TypeOK, hist
<1>8. ASSUME drain_due_split PROVE IInv' /\ UNCHANGED last
  BY <1>8, SplitInv DEF drain_due_split, hist
<1>9. ASSUME TaskReturns PROVE IInv' /\ UNCHANGED last
  BY <1>9, ReturnsInv DEF TaskReturns
<1>10. ASSUME Tick PROVE IInv' /\ UNCHANGED last
  <2>1. TypeOK'
    BY <1>1, <1>10 DEF Tick, TypeOK, sched, work, locals, hist
  <2>2. /\ UNCHANGED <<next_id, frozen, work, queue, hist, pc, raf_cutoff>>
        /\ now' = now + 1
    BY <1>10 DEF Tick, sched, locals
  <2>3. raf_cutoff <= now /\ raf_cutoff \in Nat /\ now \in Nat
    BY <1>1 DEF TypeOK, IInv, OrderInv
  <2> QED
    BY <2>1, <2>2, <2>3, ControlInv DEF hist
<1>11. ASSUME UNCHANGED vars PROVE IInv' /\ UNCHANGED last
  BY <1>11 DEF vars, sched, work, locals, hist, IInv, LoopInv, TypeOK, Good, ClearIsFinal, Ids,
               OrderInv, Timers
<1> QED
  BY <1>2, <1>3, <1>4, <1>5, <1>6, <1>7, <1>8, <1>9, <1>10, <1>11, RunInv
  DEF Next, Js, Drain

\* The inductive invariant holds in every reachable state.
THEOREM LoopInvariance == Spec => []IInv
<1>1. Init => IInv
  BY InitInv
<1>2. IInv /\ [Next]_vars => IInv'
  BY NextInv
<1> QED
  BY <1>1, <1>2, PTL DEF Spec

\* Every variable of the scheduler and of the loop keeps its type, and the
\* queue holds armed tasks whose period fits their kind.
THEOREM LoopTypeCorrect == Spec => []TypeOK
<1>1. IInv => TypeOK
  BY DEF IInv, LoopInv
<1> QED
  BY <1>1, LoopInvariance, PTL

\* A timer that is cleared while no batch holds it (scheduler.rs, cancel) is
\* never queued or popped again, by a requeue at the end of a slice either.
THEOREM ClearingIsFinal == Spec => []ClearIsFinal
<1>1. IInv => ClearIsFinal
  BY DEF IInv
<1> QED
  BY <1>1, LoopInvariance, PTL

\* Timeouts and intervals run in the order of their deadlines, then of their
\* arming, over batches, drains and slices that are cut short.
THEOREM TimersRunInOrder == Spec => FiresInDeadlineOrder
<1>1. IInv /\ [Next]_vars => [KeyLe(last, last')]_last
  BY NextInv
<1> QED
  BY <1>1, LoopInvariance, PTL DEF Spec, FiresInDeadlineOrder

-----------------------------------------------------------------------------
(* Timers are conserved.                                                     *)

\* How many times a bag holds a task that is in it once: after a sum with a bag
\* that does not hold it,
LEMMA SumCounts ==
  ASSUME NEW B, NEW D, NEW t, t \in BagToSet(B), B[t] = 1, t \notin BagToSet(D)
  PROVE  (B (+) D)[t] = 1 /\ (D (+) B)[t] = 1
  BY DEF BagToSet, (+)

\* and after another task, or itself, was taken off.
LEMMA MinusCounts ==
  ASSUME NEW B, NEW t, NEW u, u \in BagToSet(B), B[u] = 1
  PROVE  /\ u # t => /\ u \in BagToSet(B (-) SetToBag({t}))
                     /\ (B (-) SetToBag({t}))[u] = 1
         /\ u = t => u \notin BagToSet(B (-) SetToBag({t}))
  BY DEF BagToSet, (-), SetToBag

OneShots(B) == {t \in BagToSet(B) : t.repeat = 0}

\* A one-shot timer is one task, in the queue or in the batch, until it runs;
\* between batches the batch is empty, and between tasks no task runs.
Accounts ==
  /\ pc \notin {"batch", "task"} => BagToSet(batch) = {}
  /\ pc # "task" => running = None
  /\ \A id \in fired : id < next_id
  /\ \A t \in OneShots(queue) : queue[t] = 1 /\ t \notin BagToSet(batch) /\ t.id \notin fired
  /\ \A t \in OneShots(batch) : batch[t] = 1 /\ t \notin BagToSet(queue) /\ t.id \notin fired
  /\ \A t \in OneShots(queue) \cup OneShots(batch), u \in BagToSet(queue) \cup BagToSet(batch) :
       u.id = t.id => u = t
  /\ NoTimerLost

LEMMA AccountsConserve == IInv /\ Accounts => Conserved
  BY DEF Accounts, Conserved, OneShotRunsOnce, OneShots, Copies

\* The next occurrence of an interval that is due is queued.
LEMMA Requeued ==
  ASSUME NEW due, due \subseteq Tasks, NEW cutoff \in Nat, NEW t \in due, t.repeat # 0
  PROVE  \E n \in BagToSet(NextOccurrences(due, cutoff)) : n.id = t.id
<1>1. [t EXCEPT !.fire_at = cutoff + t.repeat] \in BagToSet(NextOccurrences(due, cutoff))
  BY DEF BagToSet, NextOccurrences
<1>2. [t EXCEPT !.fire_at = cutoff + t.repeat].id = t.id
  BY DEF Tasks
<1> QED
  BY <1>1, <1>2

LEMMA InitAccounts == Init => Accounts
<1> SUFFICES ASSUME Init PROVE Accounts
  OBVIOUS
<1>1. BagToSet(queue) = {} /\ BagToSet(batch) = {}
  BY BagMembers DEF Init
<1>2. NoTimerLost
  BY DEF Init, NoTimerLost
<1> QED
  BY <1>1, <1>2 DEF Init, Accounts, OneShots

LEMMA ArmAccounts ==
  ASSUME IInv, Accounts, NEW delay \in Nat, NEW repeat \in Nat, NEW kind \in Kinds,
         Arm(delay, repeat, kind)
  PROVE  Accounts'
<1> DEFINE new == [id |-> next_id, fire_at |-> now + delay, repeat |-> repeat, kind |-> kind]
<1>1. /\ queue' = queue (+) SetToBag({new}) /\ next_id' = next_id + 1
      /\ UNCHANGED <<pc, batch, running, fired, cancelled>>
  BY DEF Arm, work, hist
<1>2. new.id = next_id /\ next_id \in Nat
  BY DEF IInv, LoopInv, TypeOK
<1> HIDE DEF new
<1>3. BagToSet(SetToBag({new})) = {new} /\ SetToBag({new})[new] = 1
  BY DEF BagToSet, SetToBag
<1>4. BagToSet(queue') = BagToSet(queue) \cup {new}
  BY <1>1, <1>3, SumMembers
<1>5. \A t \in BagToSet(queue) \cup BagToSet(batch) : t.id \in Nat /\ t.id < next_id
  BY DEF IInv, LoopInv, TypeOK, Good, Tasks
<1>6. new \notin BagToSet(queue) \cup BagToSet(batch)
  BY <1>2, <1>5
<1>7. queue'[new] = 1
  BY <1>1, <1>3, <1>6, SumCounts
<1>8. \A t \in OneShots(queue) : queue'[t] = 1
  <2> TAKE t \in OneShots(queue)
  <2>1. t \in BagToSet(queue) /\ queue[t] = 1 /\ t \notin {new}
    BY <1>6 DEF OneShots, Accounts
  <2> QED
    BY <1>1, <1>3, <2>1, SumCounts
<1>9. OneShots(queue') \subseteq OneShots(queue) \cup {new} /\ OneShots(batch') = OneShots(batch)
  BY <1>1, <1>4 DEF OneShots
<1>10. \A id \in fired : id \in Nat /\ id < next_id
  BY DEF Accounts, IInv, LoopInv, TypeOK
<1>11. NoTimerLost'
  <2>1. 1..(next_id' - 1) \subseteq 1..(next_id - 1) \cup {next_id}
    BY <1>1, <1>2
  <2>2. Ids(queue') = Ids(queue) \cup {next_id} /\ Ids(batch') = Ids(batch)
    BY <1>1, <1>2, <1>4 DEF Ids
  <2> QED
    BY <1>1, <2>1, <2>2 DEF Accounts, NoTimerLost
<1>12. /\ \A t \in OneShots(queue') : queue'[t] = 1 /\ t \notin BagToSet(batch) /\ t.id \notin fired
       /\ \A t \in OneShots(batch) : t \notin BagToSet(queue')
  BY <1>2, <1>4, <1>6, <1>7, <1>8, <1>9, <1>10 DEF Accounts, OneShots
<1>13. \A t \in OneShots(queue') \cup OneShots(batch), u \in BagToSet(queue') \cup BagToSet(batch) :
         u.id = t.id => u = t
  BY <1>2, <1>4, <1>5, <1>9 DEF Accounts, OneShots
<1>14. \A id \in fired' : id < next_id'
  BY <1>1, <1>2, <1>10
<1> QED
  BY <1>1, <1>9, <1>11, <1>12, <1>13, <1>14 DEF Accounts

LEMMA CancelAccounts ==
  ASSUME IInv, Accounts, NEW id \in 1..MaxId, cancel(id)
  PROVE  Accounts'
<1>1. /\ queue' = Select(queue, {t \in BagToSet(queue) : t.id # id})
      /\ cancelled' = cancelled \cup {id}
      /\ UNCHANGED <<pc, batch, running, fired, next_id>>
  BY DEF cancel, work
<1>2. BagToSet(queue') = {t \in BagToSet(queue) : t.id # id}
  BY <1>1, BagMembers
<1>3. \A t \in BagToSet(queue') : queue'[t] = queue[t]
  BY <1>1, <1>2 DEF Select
<1>4. NoTimerLost'
  <2>1. Ids(queue') = Ids(queue) \ {id} /\ Ids(batch') = Ids(batch)
    BY <1>1, <1>2 DEF Ids
  <2> QED
    BY <1>1, <2>1 DEF Accounts, NoTimerLost
<1>5. OneShots(queue') \subseteq OneShots(queue) /\ OneShots(batch') = OneShots(batch)
  BY <1>1, <1>2 DEF OneShots
<1> QED
  BY <1>1, <1>2, <1>3, <1>4, <1>5 DEF Accounts, OneShots

\* Steps that leave the tasks where they are.
LEMMA ControlAccounts ==
  ASSUME Accounts, UNCHANGED <<next_id, work, queue, hist>>, pc = "task" => pc' = "task",
         pc' \notin {"batch", "task"} => pc \notin {"batch", "task"} \/ BagToSet(batch) = {}
  PROVE  Accounts'
  BY DEF Accounts, OneShots, NoTimerLost, Ids, work, hist

\* Due tasks move to the empty batch, intervals leave their next occurrence.
LEMMA SplitAccounts == ASSUME IInv, Accounts, drain_due_split PROVE Accounts'
<1> DEFINE cutoff == IF frozen THEN raf_cutoff ELSE now
           due == Due(cutoff)
           next == NextOccurrences(due, cutoff)
           kept == Select(queue, BagToSet(queue) \ due)
<1>1. /\ batch' = Select(queue, due) /\ queue' = kept (+) next /\ pc = "top" /\ pc' = "batch"
      /\ UNCHANGED <<next_id, running, fired, cancelled>>
  BY DEF drain_due_split, hist
<1>2. /\ BagToSet(batch') = due /\ BagToSet(kept) = BagToSet(queue) \ due
      /\ BagToSet(queue') = (BagToSet(queue) \ due) \cup BagToSet(next)
  <2>1. BagToSet(kept) = BagToSet(queue) \ due /\ BagToSet(Select(queue, due)) = due
    BY BagMembers
  <2> QED
    BY <1>1, <2>1, SumMembers
<1>3. cutoff \in Nat /\ due \subseteq BagToSet(queue) /\ BagToSet(queue) \subseteq Tasks
  BY DEF Due, IInv, LoopInv, TypeOK
<1>4. \A n \in BagToSet(next) : \E t \in due : n.repeat # 0 /\ n.id = t.id /\ t.repeat # 0
  BY <1>3, Occurrences
<1>5. \A t \in due : t.repeat # 0 => \E n \in BagToSet(next) : n.id = t.id
  BY <1>3, Requeued
<1>6. \A t \in due : batch'[t] = queue[t]
  BY <1>1 DEF Select
<1>7. \A t \in BagToSet(kept) : kept[t] = queue[t]
  BY <1>2 DEF Select
<1>8. BagToSet(batch) = {}
  BY <1>1 DEF Accounts
<1> HIDE DEF due, cutoff, next, kept
<1>9. OneShots(queue') = OneShots(queue) \ due /\ OneShots(batch') = OneShots(queue) \cap due
  BY <1>2, <1>3, <1>4 DEF OneShots
<1>10. \A t \in OneShots(queue') : queue'[t] = 1 /\ t \notin BagToSet(batch') /\ t.id \notin fired
  <2> TAKE t \in OneShots(queue')
  <2>1. t \in OneShots(queue) /\ t \notin due /\ t \in BagToSet(kept) /\ t.repeat = 0
    BY <1>2, <1>9 DEF OneShots
  <2>2. t \notin BagToSet(next) /\ kept[t] = 1
    BY <1>4, <1>7, <2>1 DEF Accounts
  <2>3. queue'[t] = 1
    BY <1>1, <2>1, <2>2, SumCounts
  <2> QED
    BY <1>2, <2>1, <2>3 DEF Accounts
<1>11. \A t \in OneShots(batch') : batch'[t] = 1 /\ t \notin BagToSet(queue') /\ t.id \notin fired
  <2> TAKE t \in OneShots(batch')
  <2>1. t \in OneShots(queue) /\ t \in due /\ t.repeat = 0
    BY <1>9 DEF OneShots
  <2> QED
    BY <1>2, <1>4, <1>6, <2>1 DEF Accounts
<1>12. \A t \in OneShots(queue') \cup OneShots(batch'), u \in BagToSet(queue') \cup BagToSet(batch') :
         u.id = t.id => u = t
  <2> TAKE t \in OneShots(queue') \cup OneShots(batch'), u \in BagToSet(queue') \cup BagToSet(batch')
  <2>1. t \in OneShots(queue) /\ t.repeat = 0
    BY <1>9 DEF OneShots
  <2>2. CASE u \in BagToSet(queue)
    BY <2>1, <2>2 DEF Accounts
  <2>3. CASE u \in BagToSet(next)
    <3>1. PICK v \in due : v.id = u.id /\ v.repeat # 0
      BY <1>4, <2>3
    <3> QED
      BY <1>3, <2>1, <3>1 DEF Accounts
  <2> QED
    BY <1>2, <1>3, <2>2, <2>3
<1>13. NoTimerLost'
  <2>1. Ids(queue) \subseteq Ids(queue') \cup Ids(batch') /\ Ids(batch) = {}
    BY <1>2, <1>8 DEF Ids
  <2>2. \A t \in due : t.repeat # 0 => t.id \in Ids(queue')
    BY <1>2, <1>5 DEF Ids
  <2>3. running' = None
    BY <1>1 DEF Accounts
  <2> QED
    BY <1>1, <1>2, <2>1, <2>2, <2>3 DEF Accounts, NoTimerLost
<1> QED
  BY <1>1, <1>10, <1>11, <1>12, <1>13 DEF Accounts

\* The task that runs leaves the batch; a one-shot one is not held any more.
LEMMA RunAccounts == ASSUME IInv, Accounts, RunTask PROVE Accounts'
<1>1. PICK t \in BagToSet(batch) :
        /\ batch' = batch (-) SetToBag({t}) /\ running' = t /\ fired' = fired \cup {t.id}
  BY DEF RunTask
<1>2. UNCHANGED <<queue, next_id, cancelled>> /\ pc = "batch" /\ pc' = "task"
  BY DEF RunTask, sched
<1>3. BagToSet(batch') \subseteq BagToSet(batch)
  BY <1>1, BagMembers
<1>4. \A u \in OneShots(batch) : /\ u # t => u \in BagToSet(batch') /\ batch'[u] = 1
                                 /\ u = t => u \notin BagToSet(batch')
  <2> TAKE u \in OneShots(batch)
  <2>1. u \in BagToSet(batch) /\ batch[u] = 1
    BY DEF OneShots, Accounts
  <2> QED
    BY <1>1, <2>1, MinusCounts
<1>5. \A u \in OneShots(queue') \cup OneShots(batch') : u.id # t.id
  BY <1>2, <1>3, <1>4 DEF OneShots, Accounts
<1>6. \A id \in fired' : id < next_id'
  BY <1>1, <1>2 DEF Accounts, IInv, LoopInv, Good
<1>7. NoTimerLost'
  <2>1. \A u \in BagToSet(batch) : u.repeat = 0 => u.id \in Ids(batch') \cup {t.id}
    BY <1>4 DEF OneShots, Ids
  <2>2. \A id \in 1..(next_id - 1) \ cancelled : id \in fired' \cup Ids(queue) \cup Ids(batch')
    <3> SUFFICES ASSUME NEW id \in 1..(next_id - 1) \ cancelled, id \in Ids(batch)
                 PROVE  id \in fired' \cup Ids(queue) \cup Ids(batch')
      BY <1>1 DEF Accounts, NoTimerLost
    <3>1. PICK u \in BagToSet(batch) : u.id = id
      BY DEF Ids
    <3> QED
      BY <1>1, <2>1, <3>1 DEF Accounts, NoTimerLost
  <2>3. \A id \in 1..(next_id - 1) \ cancelled : \A u \in BagToSet(batch') \cup {t} :
          u.id = id /\ u.repeat # 0 => id \in Ids(queue)
    BY <1>3 DEF Accounts, NoTimerLost
  <2>4. Ids(queue') = Ids(queue)
    BY <1>2
  <2> QED
    BY <1>1, <1>2, <2>2, <2>3, <2>4 DEF NoTimerLost
<1>8. OneShots(queue') = OneShots(queue) /\ OneShots(batch') \subseteq OneShots(batch)
  BY <1>2, <1>3 DEF OneShots
<1>9. \A u \in OneShots(batch') : u # t
  BY <1>5
<1> QED
  BY <1>1, <1>2, <1>3, <1>4, <1>5, <1>6, <1>7, <1>8, <1>9 DEF Accounts

\* What is put back was not in the queue, or is an interval.
LEMMA ReturnsAccounts == ASSUME IInv, Accounts, TaskReturns PROVE Accounts'
<1>1. CASE SlicePassed
  <2>1. /\ queue' = queue (+) batch /\ batch' = EmptyBag /\ running' = None /\ pc' = "idle"
        /\ UNCHANGED <<next_id, fired, cancelled>>
    BY <1>1 DEF TaskReturns, requeue, Return
  <2>2. BagToSet(queue') = BagToSet(queue) \cup BagToSet(batch) /\ BagToSet(batch') = {}
    BY <2>1, SumMembers, BagMembers
  <2>3. \A t \in OneShots(queue) \cup OneShots(batch) : queue'[t] = 1 /\ t.id \notin fired
    <3> TAKE t \in OneShots(queue) \cup OneShots(batch)
    <3>1. CASE t \in OneShots(queue)
      <4>1. t \in BagToSet(queue) /\ queue[t] = 1 /\ t \notin BagToSet(batch) /\ t.id \notin fired
        BY <3>1 DEF OneShots, Accounts
      <4> QED
        BY <2>1, <4>1, SumCounts
    <3>2. CASE t \in OneShots(batch)
      <4>1. t \in BagToSet(batch) /\ batch[t] = 1 /\ t \notin BagToSet(queue) /\ t.id \notin fired
        BY <3>2 DEF OneShots, Accounts
      <4> QED
        BY <2>1, <4>1, SumCounts
    <3> QED
      BY <3>1, <3>2
  <2>4. OneShots(queue') = OneShots(queue) \cup OneShots(batch) /\ OneShots(batch') = {}
    BY <2>2 DEF OneShots
  <2>5. NoTimerLost'
    <3>1. Ids(queue') = Ids(queue) \cup Ids(batch) /\ Ids(batch') = {}
      BY <2>2 DEF Ids
    <3> QED
      BY <2>1, <2>2, <3>1 DEF Accounts, NoTimerLost
  <2> QED
    BY <2>1, <2>2, <2>3, <2>4, <2>5 DEF Accounts
<1>2. CASE ~SlicePassed
  <2>1. /\ UNCHANGED <<next_id, queue, batch, fired, cancelled>> /\ running' = None
        /\ pc = "task" /\ pc' = "batch"
    BY <1>2 DEF TaskReturns, Goto
  <2>2. NoTimerLost'
    BY <2>1 DEF Accounts, NoTimerLost, Ids
  <2> QED
    BY <2>1, <2>2 DEF Accounts, OneShots
<1> QED
  BY <1>1, <1>2

LEMMA AccountsStep == ASSUME IInv, Accounts, [Next]_vars PROVE Accounts'
<1>1. ASSUME NEW d \in Delays, schedule_timeout(d) \/ schedule_interval(d) PROVE Accounts'
  <2>1. AtLeastOne(d) \in Nat /\ d \in Nat
    BY DEF AtLeastOne
  <2> QED
    BY <1>1, <2>1, ArmAccounts DEF schedule_timeout, schedule_interval, Kinds
<1>2. ASSUME schedule_raf PROVE Accounts'
  BY <1>2, ArmAccounts DEF schedule_raf, Kinds
<1>3. ASSUME NEW sliced \in BOOLEAN, Begin(sliced) PROVE Accounts'
  BY <1>3, ControlAccounts DEF Begin, sched
<1>4. ASSUME LoopEnds \/ BatchDone \/ Sources \/ HostReturns PROVE Accounts'
  <2>1. UNCHANGED <<next_id, queue, work, hist>> /\ pc # "task"
    BY <1>4 DEF LoopEnds, BatchDone, Sources, HostReturns, sched
  <2>2. pc \notin {"batch", "task"} \/ BagToSet(batch) = {}
    BY <1>4, BagMembers DEF LoopEnds, BatchDone, Sources, HostReturns
  <2> QED
    BY <2>1, <2>2, ControlAccounts
<1>5. ASSUME Tick \/ UNCHANGED vars PROVE Accounts'
  BY <1>5, ControlAccounts DEF Tick, vars, sched
<1> QED
  BY <1>1, <1>2, <1>3, <1>4, <1>5, CancelAccounts, SplitAccounts, RunAccounts, ReturnsAccounts
  DEF Next, Js, Drain

LEMMA AccountsInvariance == Spec => [](IInv /\ Accounts)
<1>1. Init => IInv /\ Accounts
  BY InitInv, InitAccounts
<1>2. (IInv /\ Accounts) /\ [Next]_vars => (IInv /\ Accounts)'
  BY NextInv, AccountsStep
<1> QED
  BY <1>1, <1>2, PTL DEF Spec

\* Timers are conserved (scheduler.rs, the drains of main.rs): none is lost, an
\* interval stays queued until it is cleared and a one-shot timer runs once,
\* for any delays, slice, number of timers and drains cut short.
THEOREM TimersAreConserved == Spec => []Conserved
  BY AccountsInvariance, AccountsConserve, PTL

-----------------------------------------------------------------------------
(* A drain is bounded by its snapshot of the clock.                          *)

\* In every realm: an animation frame armed since the drain began is not due in
\* it.
FramesWait ==
  /\ pc # "idle" => \A t \in BagToSet(queue) :
       t.kind = "AnimationFrame" /\ t.id >= mark => t.fire_at > raf_cutoff
  /\ \A t \in BagToSet(batch) : t.kind = "AnimationFrame" => t.id < mark

\* A bag holds each timer once.
OnceEach(B) ==
  /\ \A t \in BagToSet(B) : B[t] = 1
  /\ \A t, u \in BagToSet(B) : t.id = u.id => t = u

\* Where timers use the snapshot too there is no slice, so that no batch is put
\* back: queue and batch hold each timer once, and what was popped in this
\* drain is queued for after it.
OncePerDrain ==
  /\ pc = "idle" => ran = {}
  /\ \A id \in ran : id < next_id
  /\ frozen =>
       /\ deadline = None
       /\ OnceEach(queue) /\ OnceEach(batch)
       /\ ran \cap Ids(batch) = {}
       /\ pc # "idle" => \A t \in BagToSet(queue) :
            t.id \in ran \cup Ids(batch) => t.fire_at > raf_cutoff

Snapshot == FramesWait /\ OncePerDrain

LEMMA InitSnapshot == Init => Snapshot
<1> SUFFICES ASSUME Init PROVE Snapshot
  OBVIOUS
<1>1. BagToSet(queue) = {} /\ BagToSet(batch) = {}
  BY BagMembers DEF Init
<1> QED
  BY <1>1 DEF Init, Snapshot, FramesWait, OncePerDrain, OnceEach, Ids

\* A frame armed in a drain is due after the clock's snapshot.
LEMMA ArmSnapshot ==
  ASSUME IInv, Snapshot, NEW delay \in Nat, NEW repeat \in Nat, NEW kind \in Kinds,
         kind = "AnimationFrame" => delay = 1, Arm(delay, repeat, kind)
  PROVE  Snapshot'
<1> DEFINE new == [id |-> next_id, fire_at |-> now + delay, repeat |-> repeat, kind |-> kind]
<1>1. /\ queue' = queue (+) SetToBag({new}) /\ next_id' = next_id + 1
      /\ UNCHANGED <<pc, batch, frozen, raf_cutoff, deadline, mark, ran>>
  BY DEF Arm, work, locals
<1>2. /\ new.id = next_id /\ next_id \in Nat /\ raf_cutoff \in Nat
      /\ new.kind = "AnimationFrame" => new.fire_at > raf_cutoff
  BY DEF IInv, LoopInv, TypeOK, OrderInv
<1> HIDE DEF new
<1>3. BagToSet(SetToBag({new})) = {new} /\ SetToBag({new})[new] = 1
  BY DEF BagToSet, SetToBag
<1>4. BagToSet(queue') = BagToSet(queue) \cup {new}
  BY <1>1, <1>3, SumMembers
<1>5. \A t \in BagToSet(queue) \cup BagToSet(batch) : t.id \in Nat /\ t.id < next_id
  BY DEF IInv, LoopInv, TypeOK, Good, Tasks
<1>6. \A id \in ran : id \in Nat /\ id < next_id
  BY DEF Snapshot, OncePerDrain, IInv, LoopInv, TypeOK
<1>7. FramesWait'
  BY <1>1, <1>2, <1>4 DEF Snapshot, FramesWait
<1>8. ASSUME OnceEach(queue) PROVE OnceEach(queue')
  <2>0. new \notin BagToSet(queue)
    BY <1>2, <1>5
  <2>1. queue'[new] = 1
    BY <1>1, <1>3, <2>0, SumCounts
  <2>2. \A t \in BagToSet(queue) : queue'[t] = 1
    <3> TAKE t \in BagToSet(queue)
    <3>1. queue[t] = 1 /\ t \notin {new}
      BY <1>2, <1>5, <1>8 DEF OnceEach
    <3> QED
      BY <1>1, <1>3, <3>1, SumCounts
  <2> QED
    BY <1>2, <1>4, <1>5, <1>8, <2>1, <2>2 DEF OnceEach
<1>9. new.id \notin ran \cup Ids(batch)
  BY <1>2, <1>5, <1>6 DEF Ids
<1>10. \A id \in ran' : id < next_id'
  BY <1>1, <1>2, <1>6
<1>11. Ids(batch') = Ids(batch) /\ (OnceEach(batch) => OnceEach(batch'))
  BY <1>1 DEF Ids
<1>12. OncePerDrain'
  BY <1>1, <1>4, <1>8, <1>9, <1>10, <1>11 DEF Snapshot, OncePerDrain
<1> QED
  BY <1>7, <1>12 DEF Snapshot

LEMMA CancelSnapshot ==
  ASSUME Snapshot, NEW id \in 1..MaxId, cancel(id)
  PROVE  Snapshot'
<1>1. /\ queue' = Select(queue, {t \in BagToSet(queue) : t.id # id})
      /\ UNCHANGED <<pc, batch, frozen, next_id, raf_cutoff, deadline, mark, ran>>
  BY DEF cancel, work, locals
<1>2. BagToSet(queue') = {t \in BagToSet(queue) : t.id # id}
  BY <1>1, BagMembers
<1>3. \A t \in BagToSet(queue') : queue'[t] = queue[t]
  BY <1>1, <1>2 DEF Select
<1> QED
  BY <1>1, <1>2, <1>3 DEF Snapshot, FramesWait, OncePerDrain, OnceEach, Ids

\* The loop's steps that leave the tasks where they are; a drain that begins
\* takes the clock and the next id, one that ends forgets what ran.
LEMMA ControlSnapshot ==
  ASSUME IInv, Accounts, Snapshot, UNCHANGED <<next_id, frozen, queue, batch>>,
         \/ \E sliced \in BOOLEAN : Begin(sliced)
         \/ Return /\ BagToSet(batch) = {}
         \/ UNCHANGED <<raf_cutoff, deadline, mark, ran>> /\ (pc = "idle" <=> pc' = "idle")
  PROVE  Snapshot'
<1>1. \A t \in BagToSet(queue) : t.id \in Nat /\ t.id < next_id /\ next_id \in Nat
  BY DEF IInv, LoopInv, TypeOK, Tasks
<1>2. CASE \E sliced \in BOOLEAN : Begin(sliced)
  <2>1. PICK sliced \in BOOLEAN : Begin(sliced)
    BY <1>2
  <2>2. /\ pc = "idle" /\ pc' = "top" /\ mark' = next_id /\ ran' = ran
        /\ frozen => deadline' = None
    BY <2>1 DEF Begin
  <2>3. BagToSet(batch) = {} /\ ran = {} /\ BagToSet(batch') = {} /\ Ids(batch') = {}
    BY <2>2 DEF Accounts, Snapshot, OncePerDrain, Ids
  <2>4. FramesWait'
    BY <1>1, <2>2, <2>3 DEF FramesWait
  <2>5. OncePerDrain'
    BY <2>2, <2>3 DEF Snapshot, OncePerDrain, OnceEach
  <2> QED
    BY <2>4, <2>5 DEF Snapshot
<1>3. CASE Return /\ BagToSet(batch) = {}
  BY <1>3 DEF Return, Snapshot, FramesWait, OncePerDrain, OnceEach, Ids
<1>4. CASE UNCHANGED <<raf_cutoff, deadline, mark, ran>> /\ (pc = "idle" <=> pc' = "idle")
  BY <1>4 DEF Snapshot, FramesWait, OncePerDrain, OnceEach, Ids
<1> QED
  BY <1>2, <1>3, <1>4

\* An interval that is queued once has one next occurrence.
LEMMA OneOccurrence ==
  ASSUME NEW due, due \subseteq Tasks, due \subseteq BagToSet(queue), OnceEach(queue),
         NEW cutoff \in Nat
  PROVE  OnceEach(NextOccurrences(due, cutoff))
<1> DEFINE intervals == {t \in due : t.repeat # 0}
           again(t) == [t EXCEPT !.fire_at = cutoff + t.repeat]
           copies(n) == UNION {{t} \X (1..queue[t]) : t \in {u \in intervals : again(u) = n}}
           next == NextOccurrences(due, cutoff)
<1>1. next = [n \in {again(t) : t \in intervals} |-> Cardinality(copies(n))]
  BY DEF NextOccurrences
<1>2. \A t \in due : again(t).id = t.id
  BY DEF Tasks
<1>3. \A t, u \in intervals : again(t).id = again(u).id => t = u
  BY <1>2 DEF OnceEach
<1> HIDE DEF again, next
<1>4. BagToSet(next) = {again(t) : t \in intervals}
  BY <1>1 DEF BagToSet
<1>5. ASSUME NEW t \in intervals PROVE next[again(t)] = 1
  <2>1. {u \in intervals : again(u) = again(t)} = {t}
    BY <1>3
  <2>2. queue[t] = 1
    BY DEF OnceEach
  <2>3. {t} \X (1..queue[t]) = {<<t, 1>>}
    BY <2>2
  <2>4. copies(again(t)) = {<<t, 1>>}
    BY <2>1, <2>3
  <2>5. Cardinality({<<t, 1>>}) = 1
    BY FS_Singleton
  <2> QED
    BY <1>1, <2>4, <2>5
<1>6. OnceEach(next)
  BY <1>3, <1>4, <1>5 DEF OnceEach
<1> QED
  BY <1>6 DEF next

\* What is popped is due at the snapshot, what is left or queued again is not.
LEMMA SplitSnapshot == ASSUME IInv, Accounts, Snapshot, drain_due_split PROVE Snapshot'
<1> DEFINE cutoff == IF frozen THEN raf_cutoff ELSE now
           due == Due(cutoff)
           next == NextOccurrences(due, cutoff)
           kept == Select(queue, BagToSet(queue) \ due)
<1>1. /\ batch' = Select(queue, due) /\ queue' = kept (+) next /\ pc = "top" /\ pc' = "batch"
      /\ UNCHANGED <<next_id, frozen, raf_cutoff, deadline, mark, ran>>
  BY DEF drain_due_split
<1>2. /\ BagToSet(batch') = due /\ BagToSet(kept) = BagToSet(queue) \ due
      /\ BagToSet(queue') = (BagToSet(queue) \ due) \cup BagToSet(next)
  <2>1. BagToSet(kept) = BagToSet(queue) \ due /\ BagToSet(Select(queue, due)) = due
    BY BagMembers
  <2> QED
    BY <1>1, <2>1, SumMembers
<1>3. /\ cutoff \in Nat /\ due \subseteq BagToSet(queue) /\ BagToSet(queue) \subseteq Tasks
      /\ raf_cutoff \in Nat /\ mark \in Nat /\ (frozen => cutoff = raf_cutoff)
  BY DEF Due, IInv, LoopInv, TypeOK
<1>4. \A n \in BagToSet(next) : \E t \in due : /\ n.id = t.id /\ n.kind # "AnimationFrame"
                                              /\ n.fire_at = cutoff + t.repeat /\ t.repeat # 0
  <2> TAKE n \in BagToSet(next)
  <2>1. PICK t \in due : /\ t.repeat # 0 /\ n.fire_at = cutoff + t.repeat
                         /\ n.id = t.id /\ n.kind = t.kind
    BY <1>3, Occurrences
  <2>2. t.kind = "Interval"
    BY <1>3, <2>1 DEF IInv, LoopInv, TypeOK
  <2> QED
    BY <2>1, <2>2
<1>5. \A t \in due : t.fire_at <= IF t.kind = "AnimationFrame" THEN raf_cutoff ELSE cutoff
  BY DEF Due
<1>6. \A t \in due : batch'[t] = queue[t]
  BY <1>1 DEF Select
<1>7. \A t \in BagToSet(kept) : kept[t] = queue[t]
  BY <1>2 DEF Select
<1>8. BagToSet(batch) = {}
  BY <1>1 DEF Accounts
<1>9. OnceEach(queue) => OnceEach(next)
  BY <1>3, OneOccurrence
<1> HIDE DEF due, cutoff, next, kept
<1>10. FramesWait'
  <2>1. \A t \in due : t.kind = "AnimationFrame" => t.id < mark
    <3> TAKE t \in due
    <3>1. t.id \in Nat /\ t.fire_at \in Nat
      BY <1>3 DEF Tasks
    <3> QED
      BY <1>1, <1>3, <1>5, <3>1 DEF Snapshot, FramesWait
  <2> QED
    BY <1>1, <1>2, <1>4, <2>1 DEF Snapshot, FramesWait
<1>11. ASSUME frozen PROVE OnceEach(queue') /\ OnceEach(batch')
  <2>1. OnceEach(queue) /\ OnceEach(next)
    BY <1>9, <1>11 DEF Snapshot, OncePerDrain
  <2>2. \A n \in BagToSet(next), u \in BagToSet(kept) : n.id # u.id
    BY <1>2, <1>3, <1>4, <2>1 DEF OnceEach
  <2>3. \A u \in BagToSet(kept) : queue'[u] = 1
    <3> TAKE u \in BagToSet(kept)
    <3>1. u \notin BagToSet(next) /\ kept[u] = 1
      BY <1>2, <1>7, <2>1, <2>2 DEF OnceEach
    <3> QED
      BY <1>1, <3>1, SumCounts
  <2>4. \A n \in BagToSet(next) : queue'[n] = 1
    <3> TAKE n \in BagToSet(next)
    <3>1. n \notin BagToSet(kept) /\ next[n] = 1
      BY <2>1, <2>2 DEF OnceEach
    <3> QED
      BY <1>1, <3>1, SumCounts
  <2>5. BagToSet(queue') = BagToSet(kept) \cup BagToSet(next) /\ BagToSet(kept) \subseteq BagToSet(queue)
    BY <1>2
  <2>6. OnceEach(queue')
    BY <2>1, <2>2, <2>3, <2>4, <2>5 DEF OnceEach
  <2>7. OnceEach(batch')
    BY <1>2, <1>3, <1>6, <2>1 DEF OnceEach
  <2> QED
    BY <2>6, <2>7
<1>12. ASSUME frozen PROVE /\ ran \cap Ids(batch') = {}
                           /\ \A t \in BagToSet(queue') :
                                t.id \in ran \cup Ids(batch') => t.fire_at > raf_cutoff
  <2>1. \A t \in BagToSet(queue) : t.id \in ran => t.fire_at > raf_cutoff
    BY <1>1, <1>12 DEF Snapshot, OncePerDrain
  <2>2. \A t \in due : t.fire_at <= raf_cutoff /\ t.fire_at \in Nat
    BY <1>3, <1>5, <1>12 DEF Tasks
  <2>3. \A t \in due : t.id \notin ran
    BY <1>3, <2>1, <2>2
  <2>4. \A n \in BagToSet(next) : n.fire_at > raf_cutoff
    <3> TAKE n \in BagToSet(next)
    <3>1. PICK t \in due : n.fire_at = cutoff + t.repeat /\ t.repeat # 0
      BY <1>4
    <3>2. t.repeat \in Nat /\ cutoff = raf_cutoff
      BY <1>3, <1>12 DEF Tasks
    <3> QED
      BY <1>3, <3>1, <3>2
  <2>5. \A t \in BagToSet(queue) \ due : t.id \notin Ids(batch')
    BY <1>2, <1>3, <1>12 DEF Ids, Snapshot, OncePerDrain, OnceEach
  <2>6. ran \cap Ids(batch') = {}
    BY <1>2, <2>3 DEF Ids
  <2> QED
    BY <1>2, <2>1, <2>4, <2>5, <2>6
<1>13. OncePerDrain'
  BY <1>1, <1>11, <1>12 DEF Snapshot, OncePerDrain
<1> QED
  BY <1>10, <1>13 DEF Snapshot

\* The task that runs is a frame armed before the drain, or none; where the
\* batch holds each timer once it is the first of its timer in this drain.
LEMMA RunSnapshot ==
  ASSUME IInv, Snapshot, RunTask
  PROVE  /\ Snapshot'
         /\ running'.kind = "AnimationFrame" => running'.id < mark
         /\ frozen => running'.id \notin ran
<1>1. PICK t \in BagToSet(batch) :
        /\ batch' = batch (-) SetToBag({t}) /\ running' = t /\ ran' = ran \cup {t.id}
  BY DEF RunTask
<1>2. /\ UNCHANGED <<queue, next_id, frozen, raf_cutoff, deadline, mark>>
      /\ pc = "batch" /\ pc' = "task"
  BY DEF RunTask, sched
<1>3. BagToSet(batch') \subseteq BagToSet(batch)
  BY <1>1, BagMembers
<1>4. FramesWait'
  BY <1>2, <1>3 DEF Snapshot, FramesWait
<1>5. t.id < next_id /\ t.id \in Ids(batch)
  BY DEF IInv, LoopInv, Good, Ids
<1>6. \A id \in ran' : id < next_id'
  BY <1>1, <1>2, <1>5 DEF Snapshot, OncePerDrain
<1>7. ASSUME frozen PROVE OnceEach(batch') /\ t.id \notin Ids(batch')
  <2>1. OnceEach(batch)
    BY <1>7 DEF Snapshot, OncePerDrain
  <2>2. \A u \in BagToSet(batch) : batch[u] = 1
    BY <2>1 DEF OnceEach
  <2>3. t \notin BagToSet(batch')
    BY <1>1, <2>2, MinusCounts
  <2>4. \A u \in BagToSet(batch') : batch'[u] = 1
    <3> TAKE u \in BagToSet(batch')
    <3>1. u \in BagToSet(batch) /\ u # t /\ batch[u] = 1
      BY <1>3, <2>2, <2>3
    <3> QED
      BY <1>1, <3>1, MinusCounts
  <2> QED
    BY <1>3, <2>1, <2>3, <2>4 DEF OnceEach, Ids
<1>8. Ids(batch') \subseteq Ids(batch) /\ ran' \cup Ids(batch') \subseteq ran \cup Ids(batch)
  BY <1>1, <1>3, <1>5 DEF Ids
<1>9. OnceEach(queue) => OnceEach(queue')
  BY <1>2
<1>10. OncePerDrain'
  BY <1>1, <1>2, <1>6, <1>7, <1>8, <1>9 DEF Snapshot, OncePerDrain
<1> QED
  BY <1>1, <1>4, <1>5, <1>10 DEF Snapshot, FramesWait, OncePerDrain

\* A batch is put back only where there is a slice.
LEMMA ReturnsSnapshot == ASSUME IInv, Snapshot, TaskReturns PROVE Snapshot'
<1>1. CASE SlicePassed
  <2>1. /\ batch' = EmptyBag /\ pc' = "idle" /\ ran' = {}
        /\ UNCHANGED <<next_id, frozen>>
    BY <1>1 DEF TaskReturns, Return
  <2>2. ~frozen
    BY <1>1 DEF SlicePassed, Snapshot, OncePerDrain
  <2>3. BagToSet(batch') = {}
    BY <2>1, BagMembers
  <2> QED
    BY <2>1, <2>2, <2>3 DEF Snapshot, FramesWait, OncePerDrain
<1>2. CASE ~SlicePassed
  <2>1. /\ UNCHANGED <<next_id, queue, batch, frozen, raf_cutoff, deadline, mark, ran>>
        /\ pc = "task" /\ pc' = "batch"
    BY <1>2 DEF TaskReturns, Goto, locals
  <2> QED
    BY <2>1 DEF Snapshot, FramesWait, OncePerDrain, OnceEach, Ids
<1> QED
  BY <1>1, <1>2

\* Only RunTask starts a task.
LEMMA SnapshotStep ==
  ASSUME IInv, Accounts, Snapshot, [Next]_vars
  PROVE  /\ Snapshot'
         /\ running' \notin {None, running} =>
              /\ running'.kind = "AnimationFrame" => running'.id < mark
              /\ frozen => running'.id \notin ran
<1>1. ASSUME NEW d \in Delays, schedule_timeout(d) \/ schedule_interval(d)
      PROVE  Snapshot' /\ running' = running
  <2>1. AtLeastOne(d) \in Nat /\ d \in Nat
    BY DEF AtLeastOne
  <2> QED
    BY <1>1, <2>1, ArmSnapshot DEF schedule_timeout, schedule_interval, Kinds, Arm, work
<1>2. ASSUME schedule_raf PROVE Snapshot' /\ running' = running
  BY <1>2, ArmSnapshot DEF schedule_raf, Kinds, Arm, work
<1>3. ASSUME NEW id \in 1..MaxId, cancel(id) PROVE Snapshot' /\ running' = running
  BY <1>3, CancelSnapshot DEF cancel, work
<1>4. ASSUME NEW sliced \in BOOLEAN, Begin(sliced) PROVE Snapshot' /\ running' = running
  BY <1>4, ControlSnapshot DEF Begin, sched, work
<1>5. ASSUME LoopEnds \/ BatchDone \/ Sources \/ HostReturns
      PROVE  Snapshot' /\ running' = running
  <2>1. UNCHANGED <<next_id, frozen, queue, batch, running>> /\ pc # "idle"
    BY <1>5 DEF LoopEnds, BatchDone, Sources, HostReturns, sched, work
  <2>2. BagToSet(batch) = {}
    BY <1>5, BagMembers DEF LoopEnds, BatchDone, Sources, HostReturns, Accounts
  <2>3. Return \/ NextTurn \/ Goto("sources") \/ Goto("host")
    BY <1>5 DEF LoopEnds, BatchDone, Sources, HostReturns
  <2>4. \/ Return
        \/ UNCHANGED <<raf_cutoff, deadline, mark, ran>> /\ pc' # "idle"
    BY <2>3 DEF NextTurn, Goto, locals
  <2> QED
    BY <2>1, <2>2, <2>4, ControlSnapshot
<1>6. ASSUME Tick \/ UNCHANGED vars PROVE Snapshot' /\ running' = running
  BY <1>6, ControlSnapshot DEF Tick, vars, sched, work, locals
<1>7. ASSUME drain_due_split PROVE Snapshot' /\ running' = running
  BY <1>7, SplitSnapshot DEF drain_due_split
<1>8. ASSUME TaskReturns PROVE Snapshot' /\ running' = None
  BY <1>8, ReturnsSnapshot DEF TaskReturns
<1> QED
  BY <1>1, <1>2, <1>3, <1>4, <1>5, <1>6, <1>7, <1>8, RunSnapshot DEF Next, Js, Drain

\* A drain is bounded by its snapshot of the clock (schedule_raf, and the
\* cutoffs of drain_due_split): no animation frame armed in it runs in it, and
\* in the realm of a worker no timer runs twice in it, for any delays and
\* however long the callbacks take.
THEOREM DrainsAreBounded == Spec => DrainIsBounded
<1>1. Init => Snapshot
  BY InitSnapshot
<1>2. (IInv /\ Accounts) /\ Snapshot /\ [Next]_vars => Snapshot'
  BY SnapshotStep
<1>3. (IInv /\ Accounts) /\ Snapshot /\ [Next]_vars =>
        [running' \notin {None, running} =>
           /\ running'.kind = "AnimationFrame" => running'.id < mark
           /\ frozen => running'.id \notin ran]_vars
  BY SnapshotStep
<1> QED
  BY <1>1, <1>2, <1>3, AccountsInvariance, PTL DEF Spec, DrainIsBounded

-----------------------------------------------------------------------------
(* Nothing overtakes a task that is due.                                     *)

\* Frames of the batch are due at the snapshot and come before what is queued,
\* and the frames that are queued are due after it.
FramesFirst ==
  pc \in {"batch", "task"} =>
    /\ \A b \in BagToSet(batch) : b.kind = "AnimationFrame" =>
         b.fire_at <= raf_cutoff /\ \A u \in BagToSet(queue) : KeyLe(Key(b), Key(u))
    /\ \A u \in BagToSet(queue) : u.kind = "AnimationFrame" => u.fire_at > raf_cutoff

IsCounted(B) == IsFiniteSet(BagToSet(B)) /\ \A t \in BagToSet(B) : B[t] \in Nat

\* The bags hold finitely many tasks, each of them finitely often.
Counted == IsCounted(queue) /\ IsCounted(batch)

FairInv == FramesFirst /\ Counted

\* Bags of finitely many tasks are closed under the scheduler's operations: sum,
LEMMA SumCounted ==
  ASSUME NEW B, NEW D, IsCounted(B), IsCounted(D)
  PROVE  /\ IsCounted(B (+) D)
         /\ \A u : Copies(u, B (+) D) = Copies(u, B) + Copies(u, D)
<1>1. BagToSet(B (+) D) = BagToSet(B) \cup BagToSet(D)
  BY SumMembers
<1>2. IsFiniteSet(BagToSet(B (+) D))
  BY <1>1, FS_Union DEF IsCounted
<1>3. \A u \in BagToSet(B (+) D) : (B (+) D)[u] = Copies(u, B) + Copies(u, D)
  BY DEF BagToSet, (+), Copies
<1>4. \A u : Copies(u, B) \in Nat /\ Copies(u, D) \in Nat
  BY DEF IsCounted, Copies
<1>5. \A u : u \notin BagToSet(B (+) D) => Copies(u, B) = 0 /\ Copies(u, D) = 0
  BY <1>1 DEF Copies
<1> QED
  BY <1>2, <1>3, <1>4, <1>5 DEF IsCounted, Copies

\* selection,
LEMMA SelectCounted ==
  ASSUME NEW B, IsCounted(B), NEW S, S \subseteq BagToSet(B)
  PROVE  /\ IsCounted(Select(B, S))
         /\ \A u : Copies(u, Select(B, S)) = IF u \in S THEN Copies(u, B) ELSE 0
<1>1. BagToSet(Select(B, S)) = S /\ \A u \in S : Select(B, S)[u] = B[u]
  BY BagMembers DEF Select
<1>2. IsFiniteSet(S)
  BY FS_Subset DEF IsCounted
<1> QED
  BY <1>1, <1>2 DEF IsCounted, Copies

\* a new task, taking one off,
LEMMA OneCounted ==
  ASSUME NEW B, IsCounted(B), NEW t
  PROVE  /\ IsCounted(SetToBag({t})) /\ IsCounted(EmptyBag)
         /\ IsCounted(B (-) SetToBag({t}))
         /\ \A u : /\ Copies(u, SetToBag({t})) = IF u = t THEN 1 ELSE 0
                   /\ Copies(u, EmptyBag) = 0
                   /\ Copies(u, B (-) SetToBag({t})) <= Copies(u, B)
<1>1. /\ BagToSet(SetToBag({t})) = {t} /\ SetToBag({t})[t] = 1
      /\ BagToSet(EmptyBag) = {}
  BY DEF BagToSet, SetToBag, EmptyBag
<1>2. IsFiniteSet({t}) /\ IsFiniteSet({})
  BY FS_Singleton, FS_EmptySet
<1>3. BagToSet(B (-) SetToBag({t})) \subseteq BagToSet(B)
  BY BagMembers
<1>4. IsFiniteSet(BagToSet(B (-) SetToBag({t})))
  BY <1>3, FS_Subset DEF IsCounted
<1>5. \A u \in BagToSet(B (-) SetToBag({t})) :
        /\ (B (-) SetToBag({t}))[u] \in Nat
        /\ (B (-) SetToBag({t}))[u] <= B[u]
  BY DEF BagToSet, (-), SetToBag, IsCounted
<1>6. \A u \in BagToSet(B) : B[u] \in Nat
  BY DEF IsCounted
<1>7. IsCounted(SetToBag({t})) /\ IsCounted(EmptyBag)
  BY <1>1, <1>2 DEF IsCounted
<1>8. IsCounted(B (-) SetToBag({t}))
  BY <1>4, <1>5 DEF IsCounted
<1>9. \A u : /\ Copies(u, SetToBag({t})) = IF u = t THEN 1 ELSE 0
            /\ Copies(u, EmptyBag) = 0
  BY <1>1 DEF Copies
<1>10. \A u : Copies(u, B (-) SetToBag({t})) <= Copies(u, B)
  BY <1>3, <1>5, <1>6 DEF Copies
<1> QED
  BY <1>7, <1>8, <1>9, <1>10

\* (A function on a finite set has finitely many values.)
LEMMA FiniteRange ==
  ASSUME NEW S, IsFiniteSet(S), NEW f, f \in [S -> {f[x] : x \in S}]
  PROVE  IsFiniteSet({f[x] : x \in S})
<1> DEFINE T == {f[x] : x \in S}
<1>1. f \in Surjection(S, T)
  BY DEF Surjection
<1> HIDE DEF T
<1>2. IsFiniteSet(T)
  BY <1>1, FS_Surjection
<1> QED
  BY <1>2 DEF T

\* and the next occurrences.
LEMMA NextCounted ==
  ASSUME NEW due, due \subseteq BagToSet(queue), IsCounted(queue), NEW cutoff
  PROVE  IsCounted(NextOccurrences(due, cutoff))
<1> DEFINE intervals == {t \in due : t.repeat # 0}
           again(t) == [t EXCEPT !.fire_at = cutoff + t.repeat]
           same(n) == {u \in intervals : again(u) = n}
           pairs(t) == {t} \X (1..queue[t])
           copies(n) == UNION {pairs(t) : t \in same(n)}
           next == NextOccurrences(due, cutoff)
<1>1. next = [n \in {again(t) : t \in intervals} |-> Cardinality(copies(n))]
  BY DEF NextOccurrences
<1>2. IsFiniteSet(intervals) /\ \A n : IsFiniteSet(same(n))
  BY FS_Subset DEF IsCounted
<1>3. \A t \in intervals : IsFiniteSet(pairs(t))
  <2> TAKE t \in intervals
  <2>1. IsFiniteSet({t})
    BY FS_Singleton
  <2>2. queue[t] \in Nat
    BY DEF IsCounted
  <2>3. IsFiniteSet(1..queue[t])
    BY <2>2, FS_Interval
  <2> QED
    BY <2>1, <2>3, FS_Product
<1> HIDE DEF again, next
<1>4. ASSUME NEW n PROVE Cardinality(copies(n)) \in Nat
  <2>1. IsFiniteSet({pairs(t) : t \in same(n)})
    <3> DEFINE f == [t \in same(n) |-> pairs(t)]
    <3>1. IsFiniteSet(same(n))
      BY <1>2
    <3> HIDE DEF same, pairs
    <3>2. f \in [same(n) -> {f[t] : t \in same(n)}]
      OBVIOUS
    <3>3. {f[t] : t \in same(n)} = {pairs(t) : t \in same(n)}
      OBVIOUS
    <3>4. IsFiniteSet({f[t] : t \in same(n)})
      <4> HIDE DEF f
      <4> QED
        BY <3>1, <3>2, FiniteRange
    <3> QED
      BY <3>3, <3>4
  <2>2. \A P \in {pairs(t) : t \in same(n)} : IsFiniteSet(P)
    BY <1>3
  <2>3. IsFiniteSet(copies(n))
    <3> HIDE DEF same, pairs
    <3> QED
      BY <2>1, <2>2, FS_UNION
  <2> QED
    BY <2>3, FS_CardinalityType
<1>5. BagToSet(next) = {again(t) : t \in intervals}
  BY <1>1 DEF BagToSet
<1>6. IsFiniteSet({again(t) : t \in intervals})
  <2> DEFINE f == [t \in intervals |-> again(t)]
  <2> HIDE DEF intervals
  <2>1. f \in [intervals -> {f[t] : t \in intervals}]
    OBVIOUS
  <2>2. {f[t] : t \in intervals} = {again(t) : t \in intervals}
    OBVIOUS
  <2>3. IsFiniteSet({f[t] : t \in intervals})
    <3> HIDE DEF f
    <3> QED
      BY <1>2, <2>1, FiniteRange
  <2> QED
    BY <2>2, <2>3
<1>7. \A n \in BagToSet(next) : next[n] \in Nat
  BY <1>1, <1>4, <1>5
<1>8. IsCounted(next)
  BY <1>5, <1>6, <1>7 DEF IsCounted
<1> QED
  BY <1>8 DEF next

LEMMA CountsAreNats ==
  ASSUME Counted
  PROVE  \A u : Copies(u, queue) \in Nat /\ Copies(u, batch) \in Nat
  BY DEF Counted, IsCounted, Copies

\* A step puts no more copies of any task in front of the tasks that are due.
NoMoreAhead ==
  \A t \in Overdue : \A u \in Held' : KeyLe(Key(u), Key(t)) =>
    Copies(u, queue') + Copies(u, batch') <= Copies(u, queue) + Copies(u, batch)

LEMMA InitFair == Init => FairInv
<1> SUFFICES ASSUME Init PROVE FairInv
  OBVIOUS
<1>1. BagToSet(EmptyBag) = {} /\ queue = EmptyBag /\ batch = EmptyBag /\ pc = "idle"
  BY BagMembers DEF Init
<1>2. IsFiniteSet({})
  BY FS_EmptySet
<1> QED
  BY <1>1, <1>2 DEF FairInv, FramesFirst, Counted, IsCounted

\* A new timer is due after all that are due now, or armed after them.
LEMMA ArmFair ==
  ASSUME IInv, FairInv, NEW delay \in Nat, NEW repeat \in Nat, NEW kind \in Kinds,
         kind = "AnimationFrame" => delay = 1, Arm(delay, repeat, kind)
  PROVE  FairInv' /\ NoMoreAhead
<1> DEFINE new == [id |-> next_id, fire_at |-> now + delay, repeat |-> repeat, kind |-> kind]
<1>1. /\ queue' = queue (+) SetToBag({new})
      /\ UNCHANGED <<now, pc, batch, frozen, raf_cutoff>>
  BY DEF Arm, work, locals
<1>2. /\ new.id = next_id /\ next_id \in Nat /\ raf_cutoff \in Nat /\ now \in Nat
      /\ raf_cutoff <= now /\ new.fire_at \in Nat /\ new.fire_at >= now
      /\ new.kind = "AnimationFrame" => new.fire_at > now
  BY DEF IInv, LoopInv, TypeOK, OrderInv
<1> HIDE DEF new
<1>3. /\ IsCounted(SetToBag({new})) /\ IsCounted(queue) /\ IsCounted(batch)
      /\ \A u : Copies(u, SetToBag({new})) = IF u = new THEN 1 ELSE 0
  BY OneCounted DEF FairInv, Counted
<1>4. /\ IsCounted(queue')
      /\ \A u : Copies(u, queue') = Copies(u, queue) + Copies(u, SetToBag({new}))
  BY <1>1, <1>3, SumCounted
<1>5. BagToSet(queue') = BagToSet(queue) \cup {new}
  BY <1>1, BagMembers, SumMembers
<1>6. \A t \in Held : t \in Tasks /\ t.id < next_id
  BY DEF IInv, LoopInv, TypeOK, Good, Held
<1>7. FramesFirst'
  <2> SUFFICES ASSUME pc \in {"batch", "task"} PROVE FramesFirst'
    BY <1>1 DEF FramesFirst
  <2>1. ASSUME NEW b \in BagToSet(batch), b.kind = "AnimationFrame" PROVE KeyLe(Key(b), Key(new))
    <3>1. b.fire_at <= raf_cutoff /\ b.fire_at \in Nat /\ b.id \in Nat /\ b.id < next_id
      BY <1>6, <2>1 DEF FairInv, FramesFirst, Held, Tasks
    <3> QED
      BY <1>2, <3>1 DEF KeyLe, Key
  <2>2. new.kind = "AnimationFrame" => new.fire_at > raf_cutoff
    BY <1>2
  <2> QED
    BY <1>1, <1>5, <2>1, <2>2 DEF FairInv, FramesFirst
<1>8. ASSUME NEW t \in Overdue PROVE ~KeyLe(Key(new), Key(t))
  <2>1. t \in Tasks /\ t.id < next_id /\ t.fire_at <= now
    BY <1>2, <1>6 DEF Overdue, Tasks
  <2> QED
    BY <1>2, <2>1 DEF KeyLe, Key, Tasks
<1>9. \A u : u # new => Copies(u, queue') = Copies(u, queue)
  BY <1>3, <1>4, CountsAreNats DEF FairInv
<1>10. NoMoreAhead
  <2> SUFFICES ASSUME NEW t \in Overdue, NEW u \in Held', KeyLe(Key(u), Key(t))
               PROVE  Copies(u, queue') + Copies(u, batch') <= Copies(u, queue) + Copies(u, batch)
    BY DEF NoMoreAhead
  <2>1. u # new
    BY <1>8
  <2>2. Copies(u, queue') = Copies(u, queue) /\ Copies(u, batch') = Copies(u, batch)
    BY <1>1, <1>9, <2>1
  <2> QED
    BY <2>2, CountsAreNats DEF FairInv
<1> QED
  BY <1>1, <1>3, <1>4, <1>7, <1>10 DEF FairInv, Counted

LEMMA CancelFair ==
  ASSUME FairInv, NEW id \in 1..MaxId, cancel(id)
  PROVE  FairInv' /\ NoMoreAhead
<1> DEFINE S == {t \in BagToSet(queue) : t.id # id}
<1>1. queue' = Select(queue, S) /\ UNCHANGED <<pc, batch, raf_cutoff>>
  BY DEF cancel, work, locals
<1>2. /\ IsCounted(queue') /\ BagToSet(queue') = S
      /\ \A u : Copies(u, queue') = IF u \in S THEN Copies(u, queue) ELSE 0
  BY <1>1, SelectCounted, BagMembers DEF FairInv, Counted
<1>3. FramesFirst'
  BY <1>1, <1>2 DEF FairInv, FramesFirst
<1>4. \A u : /\ Copies(u, queue') <= Copies(u, queue) /\ Copies(u, batch') = Copies(u, batch)
             /\ Copies(u, queue') \in Nat
  BY <1>1, <1>2, CountsAreNats DEF FairInv
<1>5. NoMoreAhead
  BY <1>4, CountsAreNats DEF FairInv, NoMoreAhead
<1> QED
  BY <1>1, <1>2, <1>3, <1>5 DEF FairInv, Counted

\* The loop's steps that leave the tasks where they are.
LEMMA ControlFair ==
  ASSUME FairInv, UNCHANGED <<queue, batch>>,
         pc' \in {"batch", "task"} => pc \in {"batch", "task"} /\ UNCHANGED raf_cutoff
  PROVE  FairInv' /\ NoMoreAhead
<1>1. FramesFirst' /\ Counted'
  BY DEF FairInv, FramesFirst, Counted, IsCounted
<1>2. NoMoreAhead
  BY CountsAreNats DEF FairInv, NoMoreAhead
<1> QED
  BY <1>1, <1>2 DEF FairInv

\* The next occurrence of an interval is due after the cutoff, hence after all
\* that is due, however late the interval is.
LEMMA SplitFair ==
  ASSUME IInv, Accounts, FairInv, drain_due_split
  PROVE  FairInv' /\ NoMoreAhead
<1> DEFINE cutoff == IF frozen THEN raf_cutoff ELSE now
           due == Due(cutoff)
           next == NextOccurrences(due, cutoff)
           kept == Select(queue, BagToSet(queue) \ due)
<1>1. /\ batch' = Select(queue, due) /\ queue' = kept (+) next /\ pc = "top"
      /\ UNCHANGED <<now, frozen, raf_cutoff>>
  BY DEF drain_due_split
<1>2. BagToSet(batch) = {}
  BY <1>1 DEF Accounts
<1>3. /\ cutoff \in Nat /\ due \subseteq BagToSet(queue) /\ BagToSet(queue) \subseteq Tasks
      /\ raf_cutoff \in Nat /\ raf_cutoff <= cutoff /\ now \in Nat /\ IsCounted(queue)
  BY DEF Due, IInv, LoopInv, TypeOK, OrderInv, FairInv, Counted
<1>4. /\ \A t \in due : t.fire_at <= IF t.kind = "AnimationFrame" THEN raf_cutoff ELSE cutoff
      /\ \A t \in BagToSet(queue) \ due :
           ~(t.fire_at <= IF t.kind = "AnimationFrame" THEN raf_cutoff ELSE cutoff)
  BY DEF Due
<1>5. \A t \in Overdue : t \in BagToSet(queue) /\ t.fire_at <= cutoff
  <2> TAKE t \in Overdue
  <2>1. t \in BagToSet(queue) /\ t.fire_at \in Nat
    BY <1>2, <1>3 DEF Overdue, Held, Tasks
  <2>2. t.fire_at <= IF frozen \/ t.kind = "AnimationFrame" THEN raf_cutoff ELSE now
    BY <1>1 DEF Overdue
  <2> QED
    BY <1>3, <2>1, <2>2
<1>6. /\ IsCounted(batch') /\ IsCounted(kept) /\ IsCounted(next)
      /\ \A u : /\ Copies(u, batch') = IF u \in due THEN Copies(u, queue) ELSE 0
                /\ Copies(u, kept) = IF u \in BagToSet(queue) \ due THEN Copies(u, queue) ELSE 0
  <2>1. IsCounted(next)
    BY <1>3, NextCounted
  <2>2. BagToSet(queue) \ due \subseteq BagToSet(queue)
    OBVIOUS
  <2> HIDE DEF due, next
  <2> QED
    BY <1>1, <1>3, <2>1, <2>2, SelectCounted
<1>7. \A n \in BagToSet(next) : /\ n \in Tasks /\ n.fire_at > cutoff
                                /\ n.kind # "AnimationFrame"
  <2> TAKE n \in BagToSet(next)
  <2>1. PICK t \in due : t.repeat # 0 /\ n.fire_at = cutoff + t.repeat /\ n.kind = t.kind
    BY <1>3, Occurrences
  <2>2. t.kind = "Interval" /\ t.repeat \in Nat
    BY <1>3, <2>1 DEF IInv, LoopInv, TypeOK, Tasks
  <2>3. n \in Tasks
    BY <1>3, Occurrences
  <2> QED
    BY <1>3, <2>1, <2>2, <2>3
<1>8. /\ BagToSet(batch') = due
      /\ BagToSet(queue') = (BagToSet(queue) \ due) \cup BagToSet(next)
  <2>1. BagToSet(kept) = BagToSet(queue) \ due /\ BagToSet(Select(queue, due)) = due
    BY BagMembers
  <2> QED
    BY <1>1, <2>1, SumMembers
<1> HIDE DEF due, cutoff, next, kept
<1>9. IsCounted(queue') /\ \A u : Copies(u, queue') = Copies(u, kept) + Copies(u, next)
  BY <1>1, <1>6, SumCounted
<1>10. FramesFirst'
  <2>1. \A u \in BagToSet(queue') : u \in Tasks /\ u.fire_at > raf_cutoff
    BY <1>3, <1>4, <1>7, <1>8 DEF Tasks
  <2>2. \A b \in BagToSet(batch') : b.kind = "AnimationFrame" =>
          b \in Tasks /\ b.fire_at <= raf_cutoff
    BY <1>3, <1>4, <1>8
  <2>3. \A b \in BagToSet(batch') : b.kind = "AnimationFrame" =>
          \A u \in BagToSet(queue') : KeyLe(Key(b), Key(u))
    BY <1>3, <2>1, <2>2 DEF KeyLe, Key, Tasks
  <2> QED
    BY <1>1, <2>1, <2>2, <2>3 DEF FramesFirst
<1>11. NoMoreAhead
  <2> SUFFICES ASSUME NEW t \in Overdue, NEW u \in Held', KeyLe(Key(u), Key(t))
               PROVE  Copies(u, queue') + Copies(u, batch') <= Copies(u, queue) + Copies(u, batch)
    BY DEF NoMoreAhead
  <2>1. u \in Tasks
    BY <1>3, <1>7, <1>8 DEF Held
  <2>2. u.fire_at <= cutoff
    BY <1>3, <1>5, <2>1 DEF KeyLe, Key, Tasks
  <2>3. u \notin BagToSet(next)
    BY <1>3, <1>7, <2>1, <2>2 DEF Tasks
  <2>4. Copies(u, next) = 0 /\ Copies(u, batch) = 0 /\ Copies(u, queue) \in Nat
    BY <1>2, <2>3, CountsAreNats DEF Copies, FairInv
  <2> QED
    BY <1>6, <1>9, <2>4
<1> QED
  BY <1>6, <1>9, <1>10, <1>11 DEF FairInv, Counted

\* What runs is the first of the batch, and what is queued comes after the
\* batch or is not due.
LEMMA RunFair ==
  ASSUME IInv, FairInv, RunTask
  PROVE  FairInv' /\ NoMoreAhead /\ \A t \in Overdue : KeyLe(Key(running'), Key(t))
<1>1. PICK r \in BagToSet(batch) :
        First(r) /\ batch' = batch (-) SetToBag({r}) /\ running' = r
  BY DEF RunTask
<1>2. UNCHANGED <<queue, raf_cutoff, now, frozen>> /\ pc = "batch"
  BY DEF RunTask, sched
<1>3. BagToSet(batch') \subseteq BagToSet(batch)
  BY <1>1, BagMembers
<1>4. FramesFirst'
  BY <1>2, <1>3 DEF FairInv, FramesFirst
<1>5. IsCounted(batch') /\ \A u : Copies(u, batch') <= Copies(u, batch)
  BY <1>1, OneCounted DEF FairInv, Counted
<1>6. \A u : Copies(u, batch') \in Nat
  BY <1>5 DEF IsCounted, Copies
<1>7. \A u : Copies(u, queue') = Copies(u, queue)
  BY <1>2
<1>8. NoMoreAhead
  BY <1>5, <1>6, <1>7, CountsAreNats DEF FairInv, NoMoreAhead
<1>9. ASSUME NEW t \in Overdue PROVE KeyLe(Key(r), Key(t))
  <2>1. CASE t \in BagToSet(batch)
    BY <1>1, <2>1 DEF First
  <2>2. CASE t \in BagToSet(queue)
    <3>1. t \in Tasks /\ raf_cutoff \in Nat
      BY <2>2 DEF IInv, LoopInv, TypeOK
    <3>2. t.kind # "AnimationFrame"
      BY <1>2, <2>2, <3>1 DEF FairInv, FramesFirst, Overdue, Tasks
    <3>3. CASE r.kind = "AnimationFrame"
      BY <1>2, <2>2, <3>3 DEF FairInv, FramesFirst
    <3>4. CASE r.kind # "AnimationFrame"
      BY <2>2, <3>2, <3>4 DEF IInv, OrderInv, Timers
    <3> QED
      BY <3>3, <3>4
  <2> QED
    BY <2>1, <2>2 DEF Overdue, Held
<1> QED
  BY <1>1, <1>2, <1>4, <1>5, <1>8, <1>9 DEF FairInv, Counted

\* What is put back was held before.
LEMMA ReturnsFair == ASSUME FairInv, TaskReturns PROVE FairInv' /\ NoMoreAhead
<1>1. CASE SlicePassed
  <2>1. queue' = queue (+) batch /\ batch' = EmptyBag /\ pc' = "idle"
    BY <1>1 DEF TaskReturns, requeue, Return
  <2>2. /\ IsCounted(queue')
        /\ \A u : Copies(u, queue') = Copies(u, queue) + Copies(u, batch)
    BY <2>1, SumCounted DEF FairInv, Counted
  <2>3. IsCounted(batch') /\ \A u : Copies(u, batch') = 0
    BY <2>1, OneCounted DEF FairInv, Counted
  <2>4. NoMoreAhead
    BY <2>2, <2>3, CountsAreNats DEF FairInv, NoMoreAhead
  <2> QED
    BY <2>1, <2>2, <2>3, <2>4 DEF FairInv, FramesFirst, Counted
<1>2. CASE ~SlicePassed
  <2>1. UNCHANGED <<queue, batch, raf_cutoff>> /\ pc = "task"
    BY <1>2 DEF TaskReturns, Goto, locals
  <2> QED
    BY <2>1, ControlFair
<1> QED
  BY <1>1, <1>2

LEMMA FairStep ==
  ASSUME IInv, Accounts, FairInv, [Next]_vars
  PROVE  /\ FairInv' /\ NoMoreAhead
         /\ running' \notin {None, running} => \A t \in Overdue : KeyLe(Key(running'), Key(t))
<1>1. ASSUME NEW d \in Delays, schedule_timeout(d) \/ schedule_interval(d)
      PROVE  FairInv' /\ NoMoreAhead /\ running' = running
  <2>1. AtLeastOne(d) \in Nat /\ d \in Nat
    BY DEF AtLeastOne
  <2> QED
    BY <1>1, <2>1, ArmFair DEF schedule_timeout, schedule_interval, Kinds, Arm, work
<1>2. ASSUME schedule_raf PROVE FairInv' /\ NoMoreAhead /\ running' = running
  BY <1>2, ArmFair DEF schedule_raf, Kinds, Arm, work
<1>3. ASSUME NEW id \in 1..MaxId, cancel(id)
      PROVE  FairInv' /\ NoMoreAhead /\ running' = running
  BY <1>3, CancelFair DEF cancel, work
<1>4. ASSUME NEW sliced \in BOOLEAN, Begin(sliced)
      PROVE  FairInv' /\ NoMoreAhead /\ running' = running
  BY <1>4, ControlFair DEF Begin, sched, work
<1>5. ASSUME LoopEnds \/ BatchDone \/ Sources \/ HostReturns
      PROVE  FairInv' /\ NoMoreAhead /\ running' = running
  <2>1. UNCHANGED <<queue, batch, running>>
    BY <1>5 DEF LoopEnds, BatchDone, Sources, HostReturns, sched, work
  <2>2. Return \/ NextTurn \/ Goto("sources") \/ Goto("host")
    BY <1>5 DEF LoopEnds, BatchDone, Sources, HostReturns
  <2>3. pc' \notin {"batch", "task"}
    BY <2>2 DEF Return, NextTurn, Goto
  <2> QED
    BY <2>1, <2>3, ControlFair
<1>6. ASSUME Tick \/ UNCHANGED vars PROVE FairInv' /\ NoMoreAhead /\ running' = running
  BY <1>6, ControlFair DEF Tick, vars, sched, work, locals
<1>7. ASSUME drain_due_split PROVE FairInv' /\ NoMoreAhead /\ running' = running
  BY <1>7, SplitFair DEF drain_due_split
<1>8. ASSUME TaskReturns PROVE FairInv' /\ NoMoreAhead /\ running' = None
  BY <1>8, ReturnsFair DEF TaskReturns
<1> QED
  BY <1>1, <1>2, <1>3, <1>4, <1>5, <1>6, <1>7, <1>8, RunFair DEF Next, Js, Drain

\* Nothing gets in front of a task that is due (scheduler.rs, drain_due_split and
\* requeue; main.rs, the slice of the frame ticker): for any delays, periods, slice
\* and number of timers, of the tasks that would run before it there never come
\* to be more, and what runs while it waits is one of these.
THEOREM NoStarvation == Spec => NothingOvertakesDue
<1>1. Init => FairInv
  BY InitFair
<1>2. (IInv /\ Accounts) /\ FairInv /\ [Next]_vars => FairInv'
  BY FairStep
<1>3. (IInv /\ Accounts) /\ FairInv /\ [Next]_vars =>
        [\A t \in Overdue :
           /\ \A u \in Held' : KeyLe(Key(u), Key(t)) =>
                Copies(u, queue') + Copies(u, batch') <= Copies(u, queue) + Copies(u, batch)
           /\ running' \notin {None, running} => KeyLe(Key(running'), Key(t))]_vars
  BY FairStep DEF NoMoreAhead
<1> QED
  BY <1>1, <1>2, <1>3, AccountsInvariance, PTL DEF Spec, NothingOvertakesDue
=============================================================================
