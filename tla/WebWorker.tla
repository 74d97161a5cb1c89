------------------------------ MODULE WebWorker -----------------------------
(***************************************************************************)
(* A dedicated web worker (crates/cv_browser/src/worker.rs): the Worker    *)
(* object that a page made with build_real_worker (main.rs), the worker's  *)
(* thread (worker_main) with its message loop, the two channels between    *)
(* them and the frame ticker's drain_worker_inboxes.                       *)
(*                                                                         *)
(* Workers share nothing with each other here, so one is modelled.  A      *)
(* message is its kind.  JavaScript is what it may do: on the page the     *)
(* actions Post, terminate and SetHandler, at any time (before and after   *)
(* every callback); in the worker postMessage, close, a throw and a wait   *)
(* that blocks, while a script, message handler or timer runs.             *)
(***************************************************************************)
EXTENDS Naturals, Sequences, FiniteSets

CONSTANTS
  MaxPosts,   \* bound: messages that the page posts
  MaxSent     \* bound: messages and errors that the worker sends

ASSUME WorkerAssumption == MaxPosts \in Nat /\ MaxSent \in Nat

VARIABLES
  registered,   \* an entry of WORKER_REGISTRY, with the receiver of outbox
  terminated,   \* WorkerHandle.terminated
  listening,    \* a message handler is set (onerror is taken to be set with it)
  callbacks,    \* number of handler calls that pumps enqueued as microtasks
  inbox,        \* WorkerMsg channel
  outbox,       \* MainMsg channel
  connected,    \* a sender of outbox is alive
  shutdown,     \* the ShutdownFlag
  wpc,          \* none, script, top, recv, message, timers, done
  closing,      \* close() was called
  blocked,      \* the worker's script sleeps in Atomics.wait
  posts, dispatched,   \* history: messages accepted by inbox; taken by the worker
  sent, collected,     \* history: messages that the worker sent; taken by the pump
  late,                \* history: messages dispatched after terminate()
  over, early          \* history: dispatched after close(); close() in the first script

page == <<registered, terminated, listening, callbacks>>
thread == <<wpc, closing, blocked>>
hist == <<posts, dispatched, sent, collected, late, over, early>>
vars == <<page, inbox, outbox, connected, shutdown, thread, hist>>

Init ==
  /\ registered = FALSE /\ terminated = FALSE /\ listening = FALSE /\ callbacks = 0
  /\ inbox = <<>> /\ outbox = <<>> /\ connected = TRUE /\ shutdown = FALSE
  /\ wpc = "none" /\ closing = FALSE /\ blocked = FALSE
  /\ posts = 0 /\ dispatched = 0 /\ sent = 0 /\ collected = 0
  /\ late = 0 /\ over = 0 /\ early = FALSE

-----------------------------------------------------------------------------
(* The page *)

\* new Worker(url): the script is fetched and the thread spawned.
SpawnOk ==
  /\ wpc = "none" /\ wpc' = "script" /\ registered' = TRUE
  /\ UNCHANGED <<terminated, listening, callbacks, inbox, outbox, connected, shutdown,
                 closing, blocked, hist>>

\* The fetch or the spawn failed: an error is queued by the page itself, whose
\* sender is the only one and ends with the constructor.
SpawnFails ==
  /\ wpc = "none" /\ wpc' = "done" /\ registered' = TRUE
  /\ outbox' = <<"Error">> /\ sent' = 1 /\ connected' = FALSE
  /\ UNCHANGED <<terminated, listening, callbacks, inbox, shutdown, closing, blocked,
                 posts, dispatched, collected, late, over, early>>

SetHandler(on) ==
  /\ wpc # "none" /\ listening # on /\ listening' = on
  /\ UNCHANGED <<registered, terminated, callbacks, inbox, outbox, connected, shutdown,
                 thread, hist>>

\* worker.postMessage: nothing after terminate, lost when the thread has ended.
Post ==
  /\ wpc # "none" /\ ~terminated /\ posts < MaxPosts
  /\ inbox' = IF wpc = "done" THEN inbox ELSE Append(inbox, "Post")
  /\ posts' = posts + 1
  /\ UNCHANGED <<page, outbox, connected, shutdown, thread,
                 dispatched, sent, collected, late, over, early>>

\* Seeded fault: only the page's handle is marked.
terminate_local ==
  /\ wpc # "none" /\ ~terminated /\ terminated' = TRUE
  /\ UNCHANGED <<registered, listening, callbacks, inbox, outbox, connected, shutdown,
                 thread, hist>>

\* worker.terminate: the flag, a message to wake the loop, and no join.
terminate ==
  /\ wpc # "none" /\ ~terminated /\ terminated' = TRUE
  /\ shutdown' = TRUE
  /\ inbox' = IF wpc = "done" THEN inbox ELSE Append(inbox, "Terminate")
  /\ UNCHANGED <<registered, listening, callbacks, outbox, connected, thread, hist>>

Has(seq, msg) == \E i \in 1..Len(seq) : seq[i] = msg
ForHandlers(seq) == Cardinality({i \in 1..Len(seq) : seq[i] # "Closed"})

\* Seeded fault: the pump gives up the messages that come with Closed.
drain_worker_inboxes_drop ==
  /\ registered
  /\ outbox' = <<>>
  /\ registered' = (connected /\ ~Has(outbox, "Closed"))
  /\ collected' = IF registered' THEN collected + Len(outbox) ELSE collected
  /\ callbacks' = IF ~registered' \/ terminated \/ ~listening
                  THEN callbacks ELSE callbacks + ForHandlers(outbox)
  /\ terminated' = (terminated \/ Has(outbox, "Closed"))
  /\ UNCHANGED <<listening, inbox, connected, shutdown, thread,
                 posts, dispatched, sent, late, over, early>>

\* The ticker's pump: take all that has arrived, discard it when the worker is
\* terminated, else enqueue the handlers set now; Closed, or no sender left,
\* removes the entry.
drain_worker_inboxes ==
  /\ registered
  /\ outbox' = <<>>
  /\ collected' = collected + Len(outbox)
  /\ registered' = (connected /\ ~Has(outbox, "Closed"))
  /\ callbacks' = IF terminated \/ ~listening
                  THEN callbacks ELSE callbacks + ForHandlers(outbox)
  /\ terminated' = (terminated \/ Has(outbox, "Closed"))
  /\ UNCHANGED <<listening, inbox, connected, shutdown, thread,
                 posts, dispatched, sent, late, over, early>>

\* A microtask of the page: the handler of one message runs.
RunCallback ==
  /\ callbacks > 0 /\ callbacks' = callbacks - 1
  /\ UNCHANGED <<registered, terminated, listening, inbox, outbox, connected, shutdown,
                 thread, hist>>

-----------------------------------------------------------------------------
(* The worker's thread *)

InScript == wpc \in {"script", "message", "timers"} /\ ~blocked

\* What the worker sends is lost once the page has dropped the receiver.
Send(msg) ==
  /\ outbox' = IF registered THEN Append(outbox, msg) ELSE outbox
  /\ sent' = sent + 1

\* Seeded fault: the receiver outlives the loop.
EndThread_keep == wpc' = "done" /\ UNCHANGED inbox

\* The thread ends: the receiver of inbox is dropped.  A sender of outbox stays
\* alive in the worker's realm, an object graph with cycles that nothing frees.
EndThread == wpc' = "done" /\ inbox' = <<>>

\* postMessage, or a message handler that throws (which does not end the worker).
SendFromWorker(msg) ==
  /\ InScript /\ sent < MaxSent /\ (msg = "Error" => wpc = "message")
  /\ Send(msg)
  /\ UNCHANGED <<page, inbox, connected, shutdown, thread,
                 posts, dispatched, collected, late, over, early>>

close ==
  /\ InScript /\ ~closing /\ closing' = TRUE
  /\ early' = (wpc = "script")
  /\ UNCHANGED <<page, inbox, outbox, connected, shutdown, wpc, blocked,
                 posts, dispatched, sent, collected, late, over>>

\* Atomics.wait without a timeout, and the notify that may come.
Block ==
  /\ InScript /\ blocked' = TRUE
  /\ UNCHANGED <<page, inbox, outbox, connected, shutdown, wpc, closing, hist>>

Unblock ==
  /\ blocked /\ blocked' = FALSE
  /\ UNCHANGED <<page, inbox, outbox, connected, shutdown, wpc, closing, hist>>

\* The first script, its microtasks and timers are done.
ScriptEnds ==
  /\ wpc = "script" /\ ~blocked /\ wpc' = "top"
  /\ UNCHANGED <<page, inbox, outbox, connected, shutdown, closing, blocked, hist>>

\* The first script throws: report and die.
ScriptThrows ==
  /\ wpc = "script" /\ ~blocked
  /\ EndThread /\ Send("Error")
  /\ UNCHANGED <<page, connected, shutdown, closing, blocked,
                 posts, dispatched, collected, late, over, early>>

\* Seeded fault: the Terminate message is left to end the loop.
LoopTop_noflag ==
  /\ wpc = "top" /\ wpc' = "recv"
  /\ UNCHANGED <<page, inbox, outbox, connected, shutdown, closing, blocked, hist>>

\* The top of the loop looks at the flag.
LoopTop ==
  /\ wpc = "top"
  /\ IF shutdown THEN EndThread ELSE wpc' = "recv" /\ UNCHANGED inbox
  /\ UNCHANGED <<page, outbox, connected, shutdown, closing, blocked, hist>>

RecvPost ==
  /\ wpc = "recv" /\ inbox # <<>> /\ Head(inbox) = "Post"
  /\ wpc' = "message" /\ inbox' = Tail(inbox)
  /\ dispatched' = dispatched + 1
  /\ late' = IF shutdown THEN late + 1 ELSE late
  /\ over' = IF closing THEN over + 1 ELSE over
  /\ UNCHANGED <<page, outbox, connected, shutdown, closing, blocked,
                 posts, sent, collected, early>>

RecvTerminate ==
  /\ wpc = "recv" /\ inbox # <<>> /\ Head(inbox) = "Terminate"
  /\ EndThread
  /\ UNCHANGED <<page, outbox, connected, shutdown, closing, blocked, hist>>

\* recv_timeout ends with nothing received: timers run.
RecvTimeout ==
  /\ wpc = "recv" /\ inbox = <<>> /\ wpc' = "timers"
  /\ UNCHANGED <<page, inbox, outbox, connected, shutdown, closing, blocked, hist>>

\* Seeded fault: the worker ends without telling the page.
TurnEnds_silent ==
  /\ wpc \in {"message", "timers"} /\ ~blocked
  /\ IF closing THEN EndThread ELSE wpc' = "top" /\ UNCHANGED inbox
  /\ UNCHANGED <<page, outbox, connected, shutdown, closing, blocked, hist>>

\* Microtasks and timers are done: a closed worker says so and ends.
TurnEnds ==
  /\ wpc \in {"message", "timers"} /\ ~blocked
  /\ IF closing
     THEN Send("Closed") /\ EndThread
     ELSE wpc' = "top" /\ UNCHANGED <<inbox, outbox, sent>>
  /\ UNCHANGED <<page, connected, shutdown, closing, blocked,
                 posts, dispatched, collected, late, over, early>>

-----------------------------------------------------------------------------
Page ==
  \/ SpawnOk \/ SpawnFails \/ Post \/ terminate
  \/ \E on \in BOOLEAN : SetHandler(on)
  \/ drain_worker_inboxes \/ RunCallback

Script ==
  \/ \E msg \in {"Post", "Error"} : SendFromWorker(msg)
  \/ close \/ Block \/ Unblock \/ ScriptThrows

\* What the thread does whatever its scripts do.
Loop == ScriptEnds \/ LoopTop \/ RecvPost \/ RecvTerminate \/ RecvTimeout \/ TurnEnds

Next == Page \/ Script \/ Loop

\* The frame ticker calls the pump and drains microtasks again and again; the
\* thread is scheduled, and its scripts return unless they block.
Fairness ==
  /\ WF_vars(drain_worker_inboxes) /\ WF_vars(RunCallback)
  /\ WF_vars(Loop)

Spec == Init /\ [][Next]_vars /\ Fairness

-----------------------------------------------------------------------------
TypeOK ==
  /\ {registered, terminated, listening, connected, shutdown, closing, blocked, early}
       \subseteq BOOLEAN
  /\ callbacks \in Nat
  /\ inbox \in Seq({"Post", "Terminate"})
  /\ outbox \in Seq({"Post", "Error", "Closed"})
  /\ wpc \in {"none", "script", "top", "recv", "message", "timers", "done"}
  /\ {posts, dispatched, sent, collected, late, over} \subseteq Nat
  /\ blocked => wpc \in {"script", "message", "timers"}
  /\ wpc = "done" => inbox = <<>>

\* terminate() is prompt although it does not join: whatever is queued, the
\* worker starts at most one more message, the one its loop had gone to fetch
\* before the flag was set.  After close() it takes no further message; only
\* when the first script closes does the loop still make one turn, and take one
\* message at most.
EndIsPrompt == late <= 1 /\ over <= IF early THEN 1 ELSE 0

\* A worker that ends by itself takes nothing with it: when its registry entry
\* goes and the page did not terminate it, the pump has had all it sent.
CloseLosesNothing ==
  wpc # "none" /\ ~registered /\ ~shutdown => collected = sent

\* terminate() ends the thread, unless its script sleeps in Atomics.wait.
TerminateEndsThread == terminated ~> (wpc = "done" \/ blocked)

\* A worker that could not start leaves the registry, and so does one that
\* closed itself from a handler or timer before the page terminated it.
ClosedIsUnregistered ==
  (wpc = "done" /\ (~connected \/ (closing /\ ~early /\ ~shutdown))) ~> ~registered
=============================================================================
