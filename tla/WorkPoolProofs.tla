--------------------------- MODULE WorkPoolProofs ---------------------------
(***************************************************************************)
(* For any finite number of workers and submitters and any set of jobs:    *)
(* the pool's types, that it implements the safety part of JobQueue, and   *)
(* that no wakeup is lost.                                                 *)
(***************************************************************************)
EXTENDS WorkPool, FiniteSetTheorems, TLAPS

\* A worker holds a job exactly while it runs one; a worker has left only when
\* the pool shuts down with an empty queue; shutdown is set by Drop, which finds
\* no submit under way.
Coherent ==
  /\ \A w \in Workers : wpc[w] = "run" <=> cur[w] # None
  /\ \A w \in Workers : wpc[w] = "exit" => shutdown /\ Empty
  /\ shutdown <=> dpc # "live"
  /\ shutdown => Notifying = {}

IInv == TypeOK /\ Coherent /\ WakeupsCoverQueue

\* The band pop chooses is not empty when the queue is not, and no higher band
\* has a job (Inner::pop).
LEMMA PopBand ==
  ASSUME TypeOK, ~Empty
  PROVE  /\ pop \in Priority /\ queue[pop] # <<>>
         /\ \A q \in Priority : JQ!Outranks(q, pop) => queue[q] = <<>>
  BY DEF TypeOK, Empty, Priority, pop, JQ!Outranks

\* The initial state has the types and is coherent (Pool::new).
LEMMA InitIInv == Init => IInv
<1> SUFFICES ASSUME Init PROVE IInv
  OBVIOUS
<1>1. TypeOK
  <2>1. <<>> \in Seq(Jobs)
    OBVIOUS
  <2> QED
    BY <2>1 DEF Init, TypeOK
<1>2. Coherent
  BY PoolAssumption DEF Init, Coherent, Empty, Notifying
<1>3. At("wait") = {}
  BY DEF Init, At
<1> QED
  BY <1>1, <1>2, <1>3 DEF IInv, WakeupsCoverQueue

\* Every action preserves the types.
LEMMA TypeStep == TypeOK /\ Coherent /\ [Next]_vars => TypeOK'
<1> SUFFICES ASSUME TypeOK, Coherent, [Next]_vars PROVE TypeOK'
  OBVIOUS
<1> USE DEF TypeOK
<1>1. ASSUME NEW s \in Submitters, NEW p \in Priority, NEW j \in Jobs, Submit(s, p, j)
      PROVE  TypeOK'
  BY <1>1 DEF Submit
<1>2. ASSUME NEW s \in Submitters, NotifyOne(s) PROVE TypeOK'
  BY <1>2 DEF NotifyOne, At
<1>3. ASSUME NEW w \in Workers, TakeJob(w) PROVE TypeOK'
  <2>1. pop \in Priority /\ queue[pop] # <<>>
    BY <1>3, PopBand DEF TakeJob
  <2>2. queue[pop] \in Seq(Jobs) /\ Head(queue[pop]) \in Jobs /\ Tail(queue[pop]) \in Seq(Jobs)
    BY <2>1
  <2>3. queue' \in [Priority -> Seq(Jobs)]
    BY <1>3, <2>1, <2>2 DEF TakeJob
  <2>4. cur' \in [Workers -> Jobs \cup {None}]
    BY <1>3, <2>2 DEF TakeJob
  <2> QED
    BY <1>3, <2>3, <2>4 DEF TakeJob
<1>4. ASSUME NEW w \in Workers, WaitForJob(w) \/ ExitWorker(w) \/ SpuriousWakeup(w)
      PROVE  TypeOK'
  BY <1>4 DEF WaitForJob, ExitWorker, SpuriousWakeup
<1>5. ASSUME NEW w \in Workers, FinishJob(w) PROVE TypeOK'
  <2>1. cur[w] \in Jobs
    BY <1>5 DEF FinishJob, Coherent
  <2> QED
    BY <1>5, <2>1 DEF FinishJob
<1>6. ASSUME DropStep PROVE TypeOK'
  BY <1>6 DEF DropStep, DropPool, DropNotify, DropJoined
<1>7. ASSUME UNCHANGED vars PROVE TypeOK'
  BY <1>7 DEF vars
<1> QED
  BY <1>1, <1>2, <1>3, <1>4, <1>5, <1>6, <1>7
     DEF Next, WorkerStep, WorkerLocks, SubmitterStep, Dropped

\* Every action keeps the program counters, the jobs in hand and the shutdown
\* flag coherent.
LEMMA CoherentStep == TypeOK /\ Coherent /\ [Next]_vars => Coherent'
<1> SUFFICES ASSUME TypeOK, Coherent, [Next]_vars PROVE Coherent'
  OBVIOUS
<1> USE DEF TypeOK, Coherent, Notifying, Empty
<1>1. ASSUME NEW s \in Submitters, NEW p \in Priority, NEW j \in Jobs, Submit(s, p, j)
      PROVE  Coherent'
  BY <1>1 DEF Submit
<1>2. ASSUME NEW s \in Submitters, NotifyOne(s) PROVE Coherent'
  BY <1>2 DEF NotifyOne, At
<1>3. ASSUME NEW w \in Workers, TakeJob(w) PROVE Coherent'
  <2>1. pop \in Priority /\ queue[pop] # <<>>
    BY <1>3, PopBand DEF TakeJob
  <2>2. Head(queue[pop]) # None
    BY <2>1, PoolAssumption
  <2>3. \A v \in Workers : wpc[v] # "exit"
    BY <1>3 DEF TakeJob
  <2> QED
    BY <1>3, <2>2, <2>3 DEF TakeJob
<1>4. ASSUME NEW w \in Workers, WaitForJob(w) \/ ExitWorker(w) \/ SpuriousWakeup(w)
      PROVE  Coherent'
  BY <1>4 DEF WaitForJob, ExitWorker, SpuriousWakeup
<1>5. ASSUME NEW w \in Workers, FinishJob(w) PROVE Coherent'
  BY <1>5 DEF FinishJob
<1>6. ASSUME DropStep PROVE Coherent'
  BY <1>6 DEF DropStep, DropPool, DropNotify, DropJoined
<1>7. ASSUME UNCHANGED vars PROVE Coherent'
  BY <1>7 DEF vars
<1> QED
  BY <1>1, <1>2, <1>3, <1>4, <1>5, <1>6, <1>7
     DEF Next, WorkerStep, WorkerLocks, SubmitterStep, Dropped

-----------------------------------------------------------------------------
\* The sets of threads the wakeup count is about are finite.
LEMMA FiniteThreads ==
  ASSUME NEW pc
  PROVE  /\ IsFiniteSet(At(pc)) /\ Cardinality(At(pc)) \in Nat
         /\ IsFiniteSet(Notifying) /\ Cardinality(Notifying) \in Nat
<1>1. At(pc) \subseteq Workers /\ Notifying \subseteq Submitters
  BY DEF At, Notifying
<1>2. IsFiniteSet(At(pc)) /\ IsFiniteSet(Notifying)
  BY <1>1, PoolAssumption, FS_Subset
<1> QED
  BY <1>2, FS_CardinalityType

\* A worker that comes to the mutex, or leaves it, changes the count by one.
LEMMA LockCount ==
  ASSUME TypeOK, NEW w \in Workers, NEW pc, wpc' = [wpc EXCEPT ![w] = pc]
  PROVE  /\ (wpc[w] # "lock" /\ pc = "lock") =>
              Cardinality(At("lock")') = Cardinality(At("lock")) + 1
         /\ (wpc[w] = "lock" /\ pc # "lock") =>
              Cardinality(At("lock")') = Cardinality(At("lock")) - 1
<1>1. IsFiniteSet(At("lock"))
  BY FiniteThreads
<1>2. ASSUME wpc[w] # "lock", pc = "lock"
      PROVE  Cardinality(At("lock")') = Cardinality(At("lock")) + 1
  <2>1. At("lock")' = At("lock") \cup {w} /\ w \notin At("lock")
    BY <1>2 DEF At, TypeOK
  <2> QED
    BY <1>1, <2>1, FS_AddElement
<1>3. ASSUME wpc[w] = "lock", pc # "lock"
      PROVE  Cardinality(At("lock")') = Cardinality(At("lock")) - 1
  <2>1. At("lock")' = At("lock") \ {w} /\ w \in At("lock")
    BY <1>3 DEF At, TypeOK
  <2> QED
    BY <1>1, <2>1, FS_RemoveElement
<1> QED
  BY <1>2, <1>3

\* Sums of natural numbers.
LEMMA Sums == /\ \A a, b, c \in Nat : a + b + c \in Nat
              /\ \A a, b \in Nat : 0 <= a + b
              /\ 0 + 0 + 0 = 0
  OBVIOUS

\* The queue's length counts its jobs: a push adds one, a pop takes one away.
LEMMA LengthSteps ==
  ASSUME TypeOK, NEW p \in Priority
  PROVE  /\ QueueLength \in Nat
         /\ Empty => QueueLength = 0
         /\ \A j \in Jobs : queue' = [queue EXCEPT ![p] = Append(@, j)]
              => QueueLength' = QueueLength + 1
         /\ (queue[p] # <<>> /\ queue' = [queue EXCEPT ![p] = Tail(@)])
              => QueueLength' = QueueLength - 1
<1> DEFINE len(q) == Len(queue[q])
<1>1. \A q \in Priority : queue[q] \in Seq(Jobs) /\ len(q) \in Nat
  BY DEF TypeOK
<1>2. len("High") \in Nat /\ len("Normal") \in Nat /\ len("Low") \in Nat
  BY <1>1 DEF Priority
<1>3. QueueLength \in Nat
  BY <1>2, Sums, Zenon DEF QueueLength
<1>4. Empty => QueueLength = 0
  <2>1. Empty => len("High") = 0 /\ len("Normal") = 0 /\ len("Low") = 0
    BY DEF Empty, Priority
  <2> QED
    BY <2>1, Sums, Zenon DEF QueueLength
<1>5. ASSUME NEW s \in Seq(Jobs), NEW d \in {1, -1}, Len(s) = len(p) + d,
             queue' = [queue EXCEPT ![p] = s]
      PROVE  QueueLength' = QueueLength + d
  <2>1. \A q \in Priority : len(q)' = IF q = p THEN len(p) + d ELSE len(q)
    BY <1>5 DEF TypeOK
  <2>2. /\ len("High")' = IF "High" = p THEN len(p) + d ELSE len("High")
        /\ len("Normal")' = IF "Normal" = p THEN len(p) + d ELSE len("Normal")
        /\ len("Low")' = IF "Low" = p THEN len(p) + d ELSE len("Low")
    BY <2>1 DEF Priority
  <2>3. QueueLength' = len("High")' + len("Normal")' + len("Low")'
    BY DEF QueueLength
  <2>4. QueueLength = len("High") + len("Normal") + len("Low")
    BY DEF QueueLength
  <2> HIDE DEF len
  <2> QED
    BY <1>2, <2>2, <2>3, <2>4 DEF Priority
<1>6. ASSUME NEW j \in Jobs, queue' = [queue EXCEPT ![p] = Append(@, j)]
      PROVE  QueueLength' = QueueLength + 1
  <2>1. /\ Append(queue[p], j) \in Seq(Jobs) /\ Len(Append(queue[p], j)) = len(p) + 1
        /\ queue' = [queue EXCEPT ![p] = Append(queue[p], j)]
    BY <1>1, <1>6
  <2> QED
    BY <1>5, <2>1
<1>7. ASSUME queue[p] # <<>>, queue' = [queue EXCEPT ![p] = Tail(@)]
      PROVE  QueueLength' = QueueLength - 1
  <2>1. /\ Tail(queue[p]) \in Seq(Jobs) /\ Len(Tail(queue[p])) = len(p) + (-1)
        /\ queue' = [queue EXCEPT ![p] = Tail(queue[p])]
    BY <1>1, <1>7
  <2>2. QueueLength' = QueueLength + (-1)
    BY <1>5, <2>1
  <2> QED
    BY <1>3, <2>2
<1> QED
  BY <1>3, <1>4, <1>6, <1>7

\* Every action keeps enough wakeups on the way.
LEMMA WakeupStep == IInv /\ [Next]_vars => WakeupsCoverQueue'
<1> SUFFICES ASSUME IInv, [Next]_vars PROVE WakeupsCoverQueue'
  OBVIOUS
<1> DEFINE locks == Cardinality(At("lock"))
           notes == Cardinality(Notifying)
<1> USE DEF IInv
<1>0. /\ locks \in Nat /\ notes \in Nat /\ QueueLength \in Nat
      /\ locks' \in Nat /\ notes' \in Nat
  <2>1. locks \in Nat /\ notes \in Nat
    BY FiniteThreads
  <2>2. locks' \in Nat /\ notes' \in Nat
    <3>1. At("lock")' \subseteq Workers /\ Notifying' \subseteq Submitters
      BY DEF At, Notifying
    <3>2. IsFiniteSet(At("lock")') /\ IsFiniteSet(Notifying')
      BY <3>1, PoolAssumption, FS_Subset
    <3> QED
      BY <3>2, FS_CardinalityType
  <2>3. QueueLength \in Nat
    BY LengthSteps DEF Priority
  <2> QED
    BY <2>1, <2>2, <2>3
<1>1. ASSUME NEW s \in Submitters, NEW p \in Priority, NEW j \in Jobs, Submit(s, p, j)
      PROVE  WakeupsCoverQueue'
  <2>1. QueueLength' = QueueLength + 1
    BY <1>1, LengthSteps DEF Submit
  <2>2. Notifying' = Notifying \cup {s} /\ s \notin Notifying
    BY <1>1 DEF Submit, Notifying, TypeOK
  <2>3. notes' = notes + 1
    BY <2>2, FiniteThreads, FS_AddElement
  <2>4. At("lock")' = At("lock") /\ At("wait")' = At("wait")
    BY <1>1 DEF Submit, At
  <2> HIDE DEF locks, notes
  <2>5. locks' = locks
    BY <2>4 DEF locks
  <2>6. At("wait") # {} => QueueLength <= locks + notes
    BY DEF WakeupsCoverQueue, locks, notes
  <2>7. At("wait")' # {} => QueueLength' <= locks' + notes'
    BY <1>0, <2>1, <2>3, <2>4, <2>5, <2>6
  <2> QED
    BY <2>7 DEF WakeupsCoverQueue, locks, notes
<1>2. ASSUME NEW s \in Submitters, NotifyOne(s) PROVE WakeupsCoverQueue'
  <2>1. CASE At("wait") = {} /\ UNCHANGED wpc
    BY <2>1 DEF WakeupsCoverQueue, At
  <2>2. ASSUME NEW w \in At("wait"), wpc' = [wpc EXCEPT ![w] = "lock"]
        PROVE  WakeupsCoverQueue'
    <3>1. w \in Workers /\ wpc[w] # "lock"
      BY DEF At
    <3>2. locks' = locks + 1
      BY <2>2, <3>1, LockCount
    <3>3. Notifying' = Notifying \ {s} /\ s \in Notifying
      BY <1>2 DEF NotifyOne, Notifying, TypeOK
    <3>4. notes' = notes - 1
      BY <3>3, FiniteThreads, FS_RemoveElement
    <3>5. QueueLength' = QueueLength
      BY <1>2 DEF NotifyOne, QueueLength
    <3>6. QueueLength <= locks + notes
      BY <2>2 DEF WakeupsCoverQueue
    <3> HIDE DEF locks, notes
    <3>7. QueueLength' <= locks' + notes'
      BY <1>0, <3>2, <3>4, <3>5, <3>6
    <3> QED
      BY <3>7 DEF WakeupsCoverQueue, locks, notes
  <2> QED
    BY <1>2, <2>1, <2>2 DEF NotifyOne
<1>3. ASSUME NEW w \in Workers, TakeJob(w) PROVE WakeupsCoverQueue'
  <2>1. pop \in Priority /\ queue[pop] # <<>>
    BY <1>3, PopBand DEF TakeJob
  <2>2. queue' = [queue EXCEPT ![pop] = Tail(@)]
    BY <1>3 DEF TakeJob
  <2>3. QueueLength' = QueueLength - 1
    BY <2>1, <2>2, LengthSteps
  <2>4. locks' = locks - 1
    <3>1. wpc' = [wpc EXCEPT ![w] = "run"] /\ wpc[w] = "lock"
      BY <1>3 DEF TakeJob
    <3>2. "run" # "lock"
      OBVIOUS
    <3> QED
      BY <3>1, <3>2, LockCount, Zenon
  <2>5. notes' = notes /\ At("wait")' = At("wait")
    BY <1>3 DEF TakeJob, Notifying, At, TypeOK
  <2>6. At("wait") # {} => QueueLength <= locks + notes
    BY DEF WakeupsCoverQueue
  <2> HIDE DEF locks, notes
  <2>7. At("wait")' # {} => QueueLength' <= locks' + notes'
    BY <1>0, <2>3, <2>4, <2>5, <2>6
  <2> QED
    BY <2>7 DEF WakeupsCoverQueue, locks, notes
<1>4. ASSUME NEW w \in Workers, WaitForJob(w) \/ ExitWorker(w) PROVE WakeupsCoverQueue'
  <2>1. QueueLength' = 0
    <3>1. QueueLength = 0
      BY <1>4, LengthSteps DEF WaitForJob, ExitWorker, Priority
    <3> QED
      BY <1>4, <3>1 DEF WaitForJob, ExitWorker, QueueLength
  <2> HIDE DEF locks, notes
  <2>2. QueueLength' <= locks' + notes'
    <3>1. locks' \in Nat /\ notes' \in Nat
      BY <1>0
    <3> QED
      BY <2>1, <3>1, Sums, Zenon
  <2> QED
    BY <2>2 DEF WakeupsCoverQueue, locks, notes
<1>5. ASSUME NEW w \in Workers, SpuriousWakeup(w) \/ FinishJob(w) PROVE WakeupsCoverQueue'
  <2>1. wpc' = [wpc EXCEPT ![w] = "lock"] /\ wpc[w] # "lock"
    BY <1>5 DEF SpuriousWakeup, FinishJob
  <2>2. locks' = locks + 1
    BY <2>1, LockCount
  <2>3. notes' = notes /\ QueueLength' = QueueLength
    BY <1>5 DEF SpuriousWakeup, FinishJob, Notifying, QueueLength
  <2>4. At("wait")' # {} => At("wait") # {}
    BY <2>1 DEF At, TypeOK
  <2>5. At("wait") # {} => QueueLength <= locks + notes
    BY DEF WakeupsCoverQueue
  <2> HIDE DEF locks, notes
  <2>6. At("wait")' # {} => QueueLength' <= locks' + notes'
    BY <1>0, <2>2, <2>3, <2>4, <2>5
  <2> QED
    BY <2>6 DEF WakeupsCoverQueue, locks, notes
<1>6. ASSUME DropPool \/ DropJoined PROVE WakeupsCoverQueue'
  BY <1>6 DEF DropPool, DropJoined, WakeupsCoverQueue, At, Notifying, QueueLength
<1>7. ASSUME DropNotify PROVE WakeupsCoverQueue'
  <2>1. At("wait")' = {}
    BY <1>7 DEF DropNotify, At, TypeOK
  <2> QED
    BY <2>1 DEF WakeupsCoverQueue
<1>8. ASSUME UNCHANGED vars PROVE WakeupsCoverQueue'
  BY <1>8 DEF vars, WakeupsCoverQueue, At, Notifying, QueueLength
<1> QED
  BY <1>1, <1>2, <1>3, <1>4, <1>5, <1>6, <1>7, <1>8
     DEF Next, WorkerStep, WorkerLocks, SubmitterStep, DropStep, Dropped

\* The inductive invariant of the pool.
LEMMA Inductive == Spec => []IInv
<1>1. IInv /\ [Next]_vars => IInv'
  BY TypeStep, CoherentStep, WakeupStep DEF IInv
<1> QED
  BY <1>1, InitIInv, PTL DEF Spec

\* The pool's state keeps its type (cv_sched::Pool, for any number of workers,
\* submitters and jobs).
THEOREM PoolTypeCorrect == Spec => []TypeOK
  BY Inductive, PTL DEF IInv

\* No wakeup is lost: while a worker sleeps in Condvar::wait, every queued job
\* has a worker or a notify_one of its own on the way.
THEOREM NoLostWakeup == Spec => []WakeupsCoverQueue
  BY Inductive, PTL DEF IInv

-----------------------------------------------------------------------------
\* The pool's initial state is one of JobQueue.
LEMMA RefinesInit == Init => JQ!Init
  BY DEF Init, JQ!Init, Priority, JQ!Priority

\* Every step of the pool is a step of JobQueue or leaves its variables alone.
LEMMA RefinesStep == IInv /\ [Next]_vars => [JQ!Next]_(JQ!vars)
<1> SUFFICES ASSUME TypeOK, Coherent, [Next]_vars PROVE JQ!Next \/ UNCHANGED JQ!vars
  BY DEF IInv
<1>0. /\ JQ!Queued = Queued /\ JQ!Running = Running /\ JQ!Priority = Priority
  BY DEF JQ!Queued, Queued, JQ!Running, Running, JQ!Priority, Priority
<1>1. ASSUME NEW s \in Submitters, NEW p \in Priority, NEW j \in Jobs, Submit(s, p, j)
      PROVE  JQ!Next
  <2>1. JQ!Submit(p, j)
    BY <1>0, <1>1 DEF Submit, JQ!Submit
  <2> QED
    BY <1>0, <2>1 DEF JQ!Next
<1>2. ASSUME NEW s \in Submitters, NotifyOne(s) PROVE UNCHANGED JQ!vars
  BY <1>2 DEF NotifyOne, JQ!vars
<1>3. ASSUME NEW w \in Workers, TakeJob(w) PROVE JQ!Next
  <2>1. /\ pop \in Priority /\ queue[pop] # <<>>
        /\ \A q \in Priority : JQ!Outranks(q, pop) => queue[q] = <<>>
    BY <1>3, PopBand DEF TakeJob
  <2>2. cur[w] = None
    BY <1>3 DEF TakeJob, Coherent
  <2>3. JQ!Start(w)
    BY <1>0, <1>3, <2>1, <2>2 DEF TakeJob, JQ!Start
  <2> QED
    BY <2>3 DEF JQ!Next, JQ!StartSome
<1>4. ASSUME NEW w \in Workers, WaitForJob(w) \/ ExitWorker(w) \/ SpuriousWakeup(w)
      PROVE  UNCHANGED JQ!vars
  BY <1>4 DEF WaitForJob, ExitWorker, SpuriousWakeup, JQ!vars
<1>5. ASSUME NEW w \in Workers, FinishJob(w) PROVE JQ!Next
  <2>1. JQ!Finish(w)
    BY <1>5 DEF FinishJob, JQ!Finish, Coherent
  <2> QED
    BY <2>1 DEF JQ!Next
<1>6. ASSUME DropPool \/ DropNotify PROVE UNCHANGED JQ!vars
  BY <1>6 DEF DropPool, DropNotify, JQ!vars
<1>7. ASSUME DropJoined PROVE JQ!Next
  <2>1. \A w \in Workers : wpc[w] = "exit"
    BY <1>7 DEF DropJoined, At
  <2>2. Queued = {}
    <3>1. \A p \in Priority : queue[p] = <<>>
      BY <2>1, PoolAssumption DEF Coherent, Empty
    <3> QED
      BY <3>1 DEF Queued
  <2>3. Running = {}
    BY <2>1 DEF Coherent, Running
  <2>4. JQ!Close
    BY <1>0, <1>7, <2>2, <2>3 DEF DropJoined, JQ!Close
  <2> QED
    BY <2>4 DEF JQ!Next
<1>8. ASSUME UNCHANGED vars PROVE UNCHANGED JQ!vars
  BY <1>8 DEF vars, JQ!vars
<1> QED
  BY <1>1, <1>2, <1>3, <1>4, <1>5, <1>6, <1>7, <1>8
     DEF Next, WorkerStep, WorkerLocks, SubmitterStep, DropStep, Dropped

\* The pool implements JobQueue's safety part: each job is taken once, by one
\* worker, highest band first, and Drop returns only when nothing is queued or
\* running.
THEOREM PoolImplementsQueue == Spec => QueueSafety
<1>1. Spec => JQ!Init
  BY RefinesInit DEF Spec
<1>2. Spec => [][JQ!Next]_(JQ!vars)
  BY Inductive, RefinesStep, PTL DEF Spec
<1> QED
  BY <1>1, <1>2 DEF QueueSafety, JQ!Safety
=============================================================================
