-------------------------- MODULE WebWorkerProofs ---------------------------
(***************************************************************************)
(* For any number of messages: the types of a web worker and its channels, *)
(* that terminate() and close() end it promptly, and that a worker which   *)
(* ends by itself loses no message.                                        *)
(***************************************************************************)
EXTENDS WebWorker, FiniteSetTheorems, TLAPS

\* The types, one variable at a time.
Types ==
  /\ registered \in BOOLEAN /\ terminated \in BOOLEAN /\ listening \in BOOLEAN
  /\ connected \in BOOLEAN /\ shutdown \in BOOLEAN
  /\ closing \in BOOLEAN /\ blocked \in BOOLEAN /\ early \in BOOLEAN
  /\ callbacks \in Nat
  /\ inbox \in Seq({"Post", "Terminate"})
  /\ outbox \in Seq({"Post", "Error", "Closed"})
  /\ wpc \in {"none", "script", "top", "recv", "message", "timers", "done"}
  /\ posts \in Nat /\ dispatched \in Nat /\ sent \in Nat /\ collected \in Nat
  /\ late \in Nat /\ over \in Nat

\* Only a script can sleep; nothing is queued for no thread.
Threads ==
  /\ blocked => wpc \in {"script", "message", "timers"}
  /\ wpc \in {"none", "done"} => inbox = <<>>

\* The message taken after terminate() was the one the loop had gone to fetch:
\* with the flag set the loop's top ends the thread.  close() in a handler or
\* timer ends the thread with the turn; in the first script it leaves one turn.
Prompt ==
  /\ late = 0 \/ (late = 1 /\ shutdown /\ wpc # "recv")
  /\ ~closing => over = 0 /\ ~early
  /\ closing /\ ~early => over = 0 /\ wpc \in {"message", "timers", "done"}
  /\ closing /\ early => over = 0 \/ (over = 1 /\ wpc \in {"message", "done"})

\* What the worker sent is in the channel or was taken by the pump, while there
\* is an entry; Closed is the last message; and without terminate() the entry
\* goes only after the thread.
Accounts ==
  /\ wpc = "none" => ~registered /\ outbox = <<>> /\ sent = 0 /\ collected = 0 /\ connected
  /\ registered => collected + Len(outbox) = sent
  /\ Has(outbox, "Closed") \/ ~connected => wpc = "done"
  /\ wpc # "none" /\ ~registered => wpc = "done" /\ collected = sent

IInv == Types /\ Threads /\ Prompt /\ Accounts

PageStep == SpawnOk \/ Post \/ terminate \/ RunCallback \/ \E on \in BOOLEAN : SetHandler(on)
QuietStep == close \/ Block \/ Unblock \/ ScriptEnds \/ LoopTop \/ RecvPost \/ RecvTerminate
             \/ RecvTimeout
SendStep == (\E msg \in {"Post", "Error"} : SendFromWorker(msg)) \/ ScriptThrows \/ TurnEnds

\* Next, by what the steps do to the worker's messages.
LEMMA NextCases ==
  [Next]_vars => \/ PageStep \/ QuietStep \/ SendStep
                 \/ SpawnFails \/ drain_worker_inboxes \/ UNCHANGED vars
  BY DEF Next, Page, Script, Loop, PageStep, QuietStep, SendStep

\* What is put into a channel, or left in it, has the channel's type.
LEMMA Channels ==
  /\ <<>> \in Seq({"Post", "Terminate"}) /\ <<>> \in Seq({"Post", "Error", "Closed"})
  /\ <<"Error">> \in Seq({"Post", "Error", "Closed"})
  /\ \A s \in Seq({"Post", "Terminate"}) :
       /\ Append(s, "Post") \in Seq({"Post", "Terminate"})
       /\ Append(s, "Terminate") \in Seq({"Post", "Terminate"})
       /\ s # <<>> => Tail(s) \in Seq({"Post", "Terminate"})
  OBVIOUS

\* Init: no worker yet.
LEMMA InitIInv == Init => IInv
<1> SUFFICES ASSUME Init PROVE IInv
  OBVIOUS
<1>1. Types /\ Threads
  BY Channels DEF Init, Types, Threads
<1>2. Prompt /\ Accounts
  BY DEF Init, Prompt, Accounts, Has
<1> QED
  BY <1>1, <1>2 DEF IInv

\* A message sent by the worker is put at the end of the channel, or lost.
LEMMA SendType ==
  ASSUME Types, NEW msg \in {"Post", "Error", "Closed"}, Send(msg)
  PROVE  /\ outbox' \in Seq({"Post", "Error", "Closed"}) /\ sent' = sent + 1
         /\ registered => Len(outbox') = Len(outbox) + 1
         /\ Has(outbox', "Closed") => Has(outbox, "Closed") \/ msg = "Closed"
  BY DEF Types, Send, Has

\* The handler calls for the messages of one pump are a number.
LEMMA ForHandlersType == Types => ForHandlers(outbox) \in Nat
<1> SUFFICES ASSUME Types PROVE ForHandlers(outbox) \in Nat
  OBVIOUS
<1>1. Len(outbox) \in Nat
  BY DEF Types
<1>2. IsFiniteSet(1..Len(outbox))
  BY <1>1, FS_Interval
<1>3. {i \in 1..Len(outbox) : outbox[i] # "Closed"} \subseteq 1..Len(outbox)
  OBVIOUS
<1> QED
  BY <1>2, <1>3, FS_Subset, FS_CardinalityType DEF ForHandlers

\* Every action keeps the types and the shape of the threads.
LEMMA TypesStep == Types /\ Threads /\ [Next]_vars => Types' /\ Threads'
<1> SUFFICES ASSUME Types, Threads, [Next]_vars PROVE Types' /\ Threads'
  OBVIOUS
<1> USE DEF Types, Threads
<1>1. CASE PageStep
  <2>1. CASE SpawnOk
    BY <2>1 DEF SpawnOk, hist
  <2>4. CASE RunCallback
    BY <2>4 DEF RunCallback, thread, hist
  <2>5. ASSUME NEW on \in BOOLEAN, SetHandler(on) PROVE Types' /\ Threads'
    BY <2>5 DEF SetHandler, thread, hist
  <2>2. CASE Post
    BY <2>2, Channels DEF Post, page, thread
  <2>3. CASE terminate
    BY <2>3, Channels DEF terminate, thread, hist
  <2> QED
    BY <1>1, <2>1, <2>2, <2>3, <2>4, <2>5 DEF PageStep
<1>2. CASE QuietStep
  <2>1. CASE close
    BY <2>1 DEF close, InScript, page
  <2>6. CASE Block \/ Unblock
    BY <2>6 DEF Block, Unblock, InScript, page, hist
  <2>2. CASE ScriptEnds \/ RecvTimeout
    BY <2>2 DEF ScriptEnds, RecvTimeout, page, hist
  <2>4. CASE RecvTerminate
    BY <2>4, Channels DEF RecvTerminate, EndThread, page, hist
  <2>5. CASE LoopTop
    <3>1. CASE shutdown
      BY <2>5, <3>1, Channels DEF LoopTop, EndThread, page, hist
    <3>2. CASE ~shutdown
      BY <2>5, <3>2 DEF LoopTop, page, hist
    <3> QED
      BY <3>1, <3>2
  <2>3. CASE RecvPost
    BY <2>3, Channels DEF RecvPost, page
  <2> QED
    BY <1>2, <2>1, <2>2, <2>3, <2>4, <2>5, <2>6 DEF QuietStep
<1>3. CASE SendStep
  <2>1. ASSUME NEW msg \in {"Post", "Error"}, SendFromWorker(msg) PROVE Types' /\ Threads'
    BY <2>1, SendType DEF SendFromWorker, page, thread
  <2>2. CASE ScriptThrows
    BY <2>2, SendType, Channels DEF ScriptThrows, EndThread, page
  <2>3. CASE TurnEnds
    <3>1. CASE closing
      BY <2>3, <3>1, SendType, Channels DEF TurnEnds, EndThread, page
    <3>2. CASE ~closing
      BY <2>3, <3>2 DEF TurnEnds, page
    <3> QED
      BY <3>1, <3>2
  <2> QED
    BY <1>3, <2>1, <2>2, <2>3 DEF SendStep
<1>4. CASE SpawnFails
  BY <1>4, Channels DEF SpawnFails
<1>5. CASE drain_worker_inboxes
  <2>1. ForHandlers(outbox) \in Nat
    BY ForHandlersType
  <2> QED
    BY <1>5, <2>1 DEF drain_worker_inboxes, Has, thread
<1>6. CASE UNCHANGED vars
  BY <1>6 DEF vars, page, thread, hist
<1> QED
  BY NextCases, <1>1, <1>2, <1>3, <1>4, <1>5, <1>6

\* Every action keeps the bounds on what is taken after terminate() and close().
LEMMA PromptStep == Types /\ Threads /\ Prompt /\ [Next]_vars => Prompt'
<1> SUFFICES ASSUME Types, Threads, Prompt, [Next]_vars PROVE Prompt'
  OBVIOUS
<1> USE DEF Types, Threads, Prompt
<1>1. CASE PageStep
  BY <1>1 DEF PageStep, SpawnOk, Post, terminate, RunCallback, SetHandler,
              page, thread, hist
<1>2. CASE QuietStep
  <2>1. CASE close
    BY <2>1 DEF close, InScript, page
  <2>2. CASE RecvPost
    BY <2>2 DEF RecvPost, page
  <2>3. CASE Block \/ Unblock \/ ScriptEnds \/ LoopTop \/ RecvTerminate \/ RecvTimeout
    BY <2>3 DEF Block, Unblock, ScriptEnds, LoopTop, RecvTerminate, RecvTimeout,
                EndThread, page, hist
  <2> QED
    BY <1>2, <2>1, <2>2, <2>3 DEF QuietStep
<1>3. CASE SendStep
  BY <1>3 DEF SendStep, SendFromWorker, ScriptThrows, TurnEnds, EndThread, page, thread
<1>4. CASE SpawnFails
  BY <1>4 DEF SpawnFails
<1>5. CASE drain_worker_inboxes
  BY <1>5 DEF drain_worker_inboxes, thread
<1>6. CASE UNCHANGED vars
  BY <1>6 DEF vars, page, thread, hist
<1> QED
  BY NextCases, <1>1, <1>2, <1>3, <1>4, <1>5, <1>6

\* Every action keeps the account of the worker's messages.
LEMMA AccountsStep == Types /\ Accounts /\ [Next]_vars => Accounts'
<1> SUFFICES ASSUME Types, Accounts, [Next]_vars PROVE Accounts'
  OBVIOUS
<1> USE DEF Types, Accounts
<1>1. CASE PageStep
  BY <1>1 DEF PageStep, SpawnOk, Post, terminate, RunCallback, SetHandler, Has,
              page, thread, hist
<1>2. CASE QuietStep
  BY <1>2 DEF QuietStep, close, Block, Unblock, ScriptEnds, LoopTop, RecvPost,
              RecvTerminate, RecvTimeout, EndThread, InScript, Has, page, thread, hist
<1>3. CASE SendStep
  <2>1. ASSUME NEW msg \in {"Post", "Error"}, SendFromWorker(msg) PROVE Accounts'
    BY <2>1, SendType DEF SendFromWorker, InScript, page, thread
  <2>2. CASE ScriptThrows
    BY <2>2, SendType DEF ScriptThrows, EndThread, page
  <2>3. CASE TurnEnds
    BY <2>3, SendType DEF TurnEnds, EndThread, Has, page
  <2> QED
    BY <1>3, <2>1, <2>2, <2>3 DEF SendStep
<1>4. CASE SpawnFails
  BY <1>4 DEF SpawnFails
<1>5. CASE drain_worker_inboxes
  BY <1>5 DEF drain_worker_inboxes, Has, thread
<1>6. CASE UNCHANGED vars
  BY <1>6 DEF vars, Has, page, thread, hist
<1> QED
  BY NextCases, <1>1, <1>2, <1>3, <1>4, <1>5, <1>6

\* The inductive invariant holds in every behaviour.
THEOREM WorkerInvariance == Spec => []IInv
<1>1. IInv /\ [Next]_vars => IInv'
  BY TypesStep, PromptStep, AccountsStep DEF IInv
<1> QED
  BY InitIInv, <1>1, PTL DEF Spec

\* The types of the worker's handle, thread and channels (worker.rs).
THEOREM WorkerTypeCorrect == Spec => []TypeOK
<1>1. IInv => TypeOK
  BY DEF IInv, Types, Threads, TypeOK
<1> QED
  BY WorkerInvariance, <1>1, PTL

\* Whatever is queued, terminate() lets a worker take at most one more message,
\* and close() none, or one when the first script closed (worker_main).
THEOREM WorkerEndsPromptly == Spec => []EndIsPrompt
<1>1. IInv => EndIsPrompt
  BY DEF IInv, Types, Prompt, EndIsPrompt
<1> QED
  BY WorkerInvariance, <1>1, PTL

\* drain_worker_inboxes removes the entry of a worker that ended by itself only
\* with all its messages taken.
THEOREM NothingIsLostAtClose == Spec => []CloseLosesNothing
<1>1. IInv => CloseLosesNothing
  BY DEF IInv, Accounts, CloseLosesNothing
<1> QED
  BY WorkerInvariance, <1>1, PTL
=============================================================================
