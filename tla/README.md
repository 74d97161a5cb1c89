# TLA+ verification of Conclave

Conclave is a Windows browser written from scratch in Rust (about 360,000 lines,
46 crates). This project models the parts of it whose correctness depends on the
order in which threads, processes and messages act, checks the models with TLC
on small instances and proves the main safety properties with TLAPS for every
value of the parameters. `PROJECT.json` lists components, runs, mutants, findings,
hazards and theorems, and maps every definition that models code to its lines.

## 1. Inventory

Processes and threads of one window:

```
 UI thread --ToPage--> router thread --pipe--> renderer process (one per site)
     ^                   |    ^                     |   page thread
     |                   |    | RendererReady       |   web worker threads, service worker threads
     |                   +--> spawn worker threads  |   compute pool
     +----- FromPage ---- reader thread (one per renderer) <--pipe--+
```

| Component | State it keeps | Operations | Interacts with | What is hard | What makes it correct |
|---|---|---|---|---|---|
| Site router (`cv_browser/src/main.rs` 1901-2647, `site_router.rs`) | renderer map, host table, active id, pending swap | route a command, swap, stop, spawn result, shutdown | window, spawn workers, renderers | results out of order, Stop during a spawn, stale captures | tables agree, no orphan process, Stop wins, each swap resolves |
| Renderer table (`cv_ipc/src/renderer_host.rs`) | site -> child id, reference count | lookup, lookup_or_spawn, release | router | counts | record gone with its last reference |
| Spawn workers (`connect_persistent_renderer`) | the child being connected | spawn, accept, handshake, time out | router | timeouts, router already gone | always answers, child never leaks |
| Renderer loop (`renderer_persistent_loop`) | epoch, page | build, serve commands, tick, commit | router, reader | failed build, crash, commands queued during a build | frames labelled so that the window can tell stale ones |
| Window (`cv_ui`) | nav_gen, nav_in_flight, frame shown | navigate, input, resize, tab command, Stop, drain | router, readers | frames of several renderers in one channel | never shows an older navigation, loading ends |
| Compute pool (`cv_sched`) | three bands, shutdown flag | submit, run, drop | any thread | notify outside the mutex, drop during work | no lost wakeup, bands in order, drop drains |
| SharedArrayBuffer, Atomics (`cv_js/src/sab.rs`) | bytes, RMW lock, waiter list | load, store, RMW, CAS, wait, notify, waitAsync, drain | page and workers | byte-wise memory, lock-free stores, one condition variable | no lost wakeup, exact counts, isolated RMWs |
| Web workers (`worker.rs`, `main.rs` 35722-35864) | two channels, registry, shutdown flag, terminated, closing | start, post, pump, terminate, close | page thread, Atomics | terminate without a join, Closed behind the last messages, blocked workers | terminate and close are prompt, nothing sent before close is lost, thread and entry go |
| Timer scheduler, event loop (`scheduler.rs`, `main.rs` 10526-10598, 16915-17117) | task queue, ids, a drain's batch and snapshots | set, clear, drain, requeue | script, other event sources | callbacks that arm and clear, batches cut short by the frame's slice | no timer lost or run twice, clearing is final, deadline order, bounded drains, no starvation |
| Service workers (`service_worker.rs`) | registrations, lifecycle | register, install, activate, intercept | page, network | re-entrancy, versions | one active worker per scope |
| HTTP/1.1 client (`cv_net/src/http1.rs` 360-1057) | pool of idle connections | send, checkout, dial, read, return | servers | retries, late responses, connections closed after the peek | one owner per socket, no response for another request, bounded resends |
| HTTP/2 pool (`cv_net/src/http1.rs` 1062-1419) | shared connections, poisoned and GOAWAY flags, two levels of mutexes | evict, checkout, drive, insert | servers | flags stale after waiting for a mutex, GOAWAY unread on an idle connection, retries on several paths | a stale connection does not show, bounded sends, nobody hangs |
| IndexedDB, OPFS, paint cache, session, profile, updater | files | save, load, rotate | file system | crash between file operations | old or new contents, never neither |
| JavaScript engine, DOM, CSS, layout, painting, codecs, cryptography, desktop integration | large sequential state | - | - | algorithms, not order | out of reach or left aside, see section 7 |

## 2. Modules

| Module | Models | Notes |
|---|---|---|
| `RendererHost` | renderer table | the table is a value, each method a function on it |
| `SiteRouter` | window, router, spawn workers, renderer processes, readers | composes `RendererHost` (EXTENDS) |
| `JobQueue` | what the compute pool promises | abstract: no lock, no condition variable |
| `WorkPool` | `cv_sched` | implements `JobQueue` (`JQ == INSTANCE JobQueue WITH closed <- dpc = "dropped"`) |
| `Atomics` | shared memory, RMW lock, waiter list | memory is written and read byte by byte |
| `EventLoop` | timer scheduler and the drains of pages and workers | bags of tasks; the clock is a counter of milliseconds |
| `WebWorker` | a dedicated worker, its `Worker` object, the ticker's pump | one worker: workers share nothing here |
| `Http1Pool` | keep-alive pool, retries and reads of the HTTP/1.1 client | the server is any server |
| `Http2Pool` | shared HTTP/2 connections | frames come down to how a request ended |
| `MC*` | instances for TLC | model values, the sets of operations scripts use |
| `*Proofs` | theorems | one per component module, and `FrameProofs` for the queues of `SiteRouter` |

Definitions named `X_fault` and marked "Seeded fault" are not part of any
specification: each is a plausible mistake in `X`, used to show that a property
notices it.

### SiteRouter and the code

* `inbox` is the merged channel of `run_site_router`; the shim thread only
  forwards in order, so the window's channel and the merged one are one queue.
  One action handles one message completely: routing, the release of the previous
  site, the kill of its process and the frame sent on an error are in the action.
* `renderers` is keyed by child id, which is the process id of the first process
  of the site (`insert_ready_renderer`). `host` is `RendererHost`.
* A navigation is a command with an absolute URL (`"nav"`, with a site); commands
  the renderer resolves itself are `"local"`, content input is `"input"`. This is
  what `classify_command` distinguishes.
* A document is named by the epoch of the navigation that built it. A frame has
  that name and the epoch it is labelled with; the two differ after a resize.
* A spawn worker owns the process it connected (`pid` of a job, `WorkerPids`) until its
  result is sent (`Report`), or until the send is refused by a router that is gone, which
  drops the connection and kills the process (`ReportTooLate`).
* The router's writes block. A renderer starts the thread that reads its pipe after its
  first build (`main.rs` 2868-2932); until then a pipe holds `PipeRoom` messages (64 KiB in
  the code), and a message of the router that writes to a full one has no step
  (`Writable`). A message that takes several writes is one step, taken when the last of
  them goes through. From then on the reader drains the pipe whatever the page does.
* `Reap` is the kill of a process whose job object is closed. Frames it had
  written stay in its pipe and its reader still delivers them.
* `prev` in a spawn job is `previous_site`, captured when the navigation is routed.
* The page itself, the encoding of messages and the handshake are abstracted. A
  script's own navigation is built in the same process and under the same epoch
  (`ChildTick`).
* `Navigate` sends at any time. The URL bar sends nothing while a load is in flight
  (`nav_in_flight`), but a link does, so the guard would exclude no sequence of messages.
* A process id is reused only when its process, every handle to it and its pipe
  are gone (`Fresh`).

### WorkPool and the code

What a thread does under the mutex is one step; `notify_one` and `notify_all` come
after the unlock and are steps of their own. Threads on the condition variable may
wake for no reason. A job is a closure, so it is submitted once. The release build
aborts on panic, so a job that panics ends the browser and is not a step.

### Atomics and the code

`load_bytes` reads a word twice, a byte per step, and starts again at a difference;
`store_bytes` writes a byte per step and takes no lock; `rmw_bytes` and the wide
`cas_bytes` hold `RMW_LOCKS`; `wait` and `wait_async` hold the waiter list from the
comparison to the registration. The waiter list is the set of entries with their
tokens; `notify` marks the first `count` unmarked entries, synchronous ones first.
Which operations a script uses on which element is the constant `Uses`. `owed` and
`dirty`, and the `expected` field of an entry, are history variables: no guard reads
them. What an RMW computes is left open (any word).

### EventLoop and the code

The scheduler's `Vec` is a bag, since `drain_due_split` sorts what it pops and equal
tasks are interchangeable. `frozen` tells the realm: `drain_scheduler` (workers)
uses one snapshot of the clock for everything and stops at the first empty batch;
`drain_due_deadline` (pages) rereads the clock for timers, uses the snapshot for
animation frames, and with a deadline puts the rest of a batch back. Scripts are
what they may do to the scheduler while one runs (`JsRuns`). The other event sources
of a turn are one step, which may run a script, may keep the loop going or may find
nothing. Ids are not reused: the code wraps at 2^32.

### WebWorker and the code

A message is its kind. The page's scripts post, terminate and set handlers at any
time; the worker's scripts send, close, throw or block while one runs. `connected`
says whether a sender of the worker-to-page channel is alive: the worker's realm
holds one in a cycle of reference-counted objects (`self` refers to the global
object that holds `postMessage`), so it outlives the thread. Only the constructor that
failed to start a thread drops the last one. The other channel cannot disconnect under
the loop (`worker.rs` 326): the registry entry holds a sender and stays until the thread has
ended; the end of the page's own thread, with its registry, is not modelled.

### Http1Pool and the code

One origin. A socket has the requests and responses under way on it; a response is
the request it answers and what the client makes of it (`keep`, `close`, `garbled`,
`brotli`, `interim`). `acts` counts how often the server carried a request out. When
a socket ends, the server may or may not carry out what was on it. Reads end by
timeout at any moment (`ConnError`), which stands for the leash of a reused
connection, the deadline, EOF and reset.

### Http2Pool and the code

The inner mutex is held by the request in `io`; a look at a connection's flags waits
until nobody is. The outer mutex is `outer`; `h2_evict_stale` and `h2_checkout` hold
it while they wait for an inner one. `Fails` is the retry policy of
`h2_send_via_pool`, by kind of error (`Errors`). Nobody reads from a connection that no
request drives: a GOAWAY sent on an idle one is `unread` until the next request, which
`h2_drive_locked` lets write since it looks at the flags only, meets it. `behind` is a
history variable: another request broke the connection while this one waited for it.

## 3. Runs

| Run | Instance | Distinct states | What it shows |
|---|---|---|---|
| `router` | 2 sites, 3 processes, 2 navigations, Stop at any time, pipes of one message | 88,236 | `RouterCoherent`, `NoOrphanProcess`, `SwapReleasesWhatItReplaces`, `StopBeatsSwap`, `StopTakesEffect`, `SwapResolves`, `CloseReapsAll` |
| `frames` | 2 sites, 3 processes, 2 epochs, every command, frames | 721,688 | `NavigationStaysInItsSite`, `ShownNeverRegresses` |
| `latest_wins`, `failed_load` | as small as the behaviour allows | - | comments of the code that do not hold, section 6 |
| `pool` | 3 workers, 2 submitters, 3 jobs, 3 bands | 10,594 | `WakeupsCoverQueue`, refinement of `JobQueue`, `DropReturns` |
| `atomics` | page, 2 workers, one two-byte flag, 2 waiters | 57,544 | `NoLostWakeup`, `CountsMatchWakeups`, `NotifiedWaiterReturns` |
| `atomics_rmw` | 3 agents, one two-byte counter | 64,560 | `RmwIsolated` |
| `torn_load` | one writer, two readers | - | section 6 |
| `timers` | 3 timers, delays 0 and 1, clock to 2 ms, slice of 1 ms, 2 turns a drain, both realms | 734,676 | `Conserved`, `ClearIsFinal`, `FiresInDeadlineOrder`, `DrainIsBounded`, `NothingOvertakesDue` |
| `workers` | one worker, 3 posts, 3 messages back | 24,681 | `EndIsPrompt`, `CloseLosesNothing`, `TerminateEndsThread`, `ClosedIsUnregistered` |
| `http1` | 2 requests, 2 sockets, every kind of response | 697,799 | `Exclusive`, `OwnResponse`, `BoundedResend`, `RequestEnds` |
| `http2` | 3 requests, 2 origins, 3 connections | 725,701 | `ThreeSends`, `StaleIsHidden`, `RequestEnds` |

Bounds. Two navigations are enough for a swap to be superseded, cancelled or
overtaken, and three processes for an active one, a pending one and a superseded
one; a second site is what a swap needs. In `router` a pipe towards a renderer that
builds is full with one message (`PipeRoom = 1`), so that the router gets blocked with
Stops behind it; a renderer can finish its build (`MaxWire = 1`), but its frames stay in
its pipe (`MaxFrames = 0`), since the properties of this run do not mention them. `frames`
forwards them. Queue bounds restrict only when the window sends and when a process
or reader puts a frame in a full pipe; no message already sent is lost by a bound.
In `pool`, three workers with two submitters let one worker sleep while one looks
at the queue and one runs. In `atomics` two bytes are the smallest word that can be
torn, and two tokens let two waiters compete for a count of one. In `timers`, three
ids let a callback clear or arm next to a running interval, a slice of one millisecond
ends in the middle of a batch, and an interval of one millisecond is due twice before
the clock stops, and a late one could catch up in front of another timer; a third turn of a drain adds nothing that a second does not. In
`workers`, three messages put one in the loop's hands, one in the queue and one behind
terminate. In `http1`, two requests suffice for a connection to be returned, reused,
closed under its user and answered late. In `http2`, two requests share a connection
and the third, to another origin, shares only the outer mutex. Symmetry is used
only in runs without liveness, for the two spare processes, which no definition names.

Deadlock is checked in every run of the router, the pool, Atomics, timers and workers
(`Terminated` and `Dropped` are states in which everything has ended; a page can always
start another drain or set a handler). `http1` and
`http2` stop when every request has ended, so deadlock is not checked there;
`RequestEnds` says that they do not stop before.

## 4. Fairness

* Router: weak fairness of the router's loop and of the spawn workers (accept and
  handshake have timeouts, `main.rs` 1602-1628, so a worker always answers). No fairness
  for the window, the user, or renderer processes. The router blocks in `recv` and in its
  writes; blocked in a write it has no step, so fairness says nothing of it, and nothing in
  the code bounds a build. `StopTakesEffect`, `SwapResolves` and `CloseReapsAll` therefore
  have a premise, `[]<>~Stalled`: the router does not stay blocked in one write for ever.
  Without it they fail, since a Stop can be queued behind such a write. With it
  they ask nothing more of a renderer: none need paint or answer. `FairSpec`, used to
  refute `FailedLoadEndsLoading`, adds fairness of renderers, readers and the window's
  message loop, so the counterexample is not a thread that stopped.
* Pool: weak fairness for a worker about to take the mutex, for `notify_one` after a
  push, and for the steps of `Drop`. No job is assumed to return; `DropReturns`
  states that as its premise.
* Atomics: weak fairness of memory steps and of `notify_all`, strong fairness of
  steps that need the waiter list (the mutex is free infinitely often and is not
  withheld for ever). `NotifiedWaiterReturns` has as a premise that writes pause,
  because the re-read loop of `load_bytes` has no bound.
* Event loop: none. That a due timer runs at all depends on whether a drain gets to a task
  before its slice has passed, which no code guarantees; `NothingOvertakesDue` is the part
  that the code answers for, and it is a safety property: the number of tasks in front of
  a due one never grows, and only they run before it.
* Workers: weak fairness of the pump and of page microtasks (ticker) and of the
  worker's loop, whose scripts return unless they block in `Atomics.wait`; that they
  unblock is not assumed, which is why `TerminateEndsThread` excepts a blocked one.
* HTTP: weak fairness of each request's thread. Every read has a timeout and every
  retry loop a bound; nothing is assumed of the server.

## 5. Proofs

All theorems are for arbitrary constants under the named assumptions (`None` is not a
site, a process or an agent; the first site and process exist; bounds are naturals;
the sets of workers and submitters are finite and there is a worker; an element has
more than one byte; only agents that may block use `wait`). Each has the shape
`Init => IInv`, one lemma per action for `IInv /\ Next => IInv'`, and PTL for the rest.

* `SiteRouterProofs`. `IInv` is `TypeOK`, `RouterCoherent`, `NoOrphanProcess`,
  `SwapReleasesWhatItReplaces` and three auxiliary parts: `SwapIdsBelow` (spawn jobs and
  results have ids that were handed out, each once), `ReadyIsFresh` (a process in
  the channel is in no table and in one message) and `WorkerIsFresh` (a worker's process is
  in no table, in no message and is no other worker's). Coherence needs the never-stale
  `prev`: activation releases `prev`, and unless that is the active site two records
  would remain. Never-stale needs the ids: whatever changes the active renderer also
  ends or cancels the pending swap, and an older result cannot have its id.
  Theorems: `TypeCorrect`, `Coherence`, `NoOrphans`, `ReleaseIsNeverStale`, and the
  action property `StopWins`.
* `FrameProofs` goes on from that `IInv` to what is in the queues. `SiteIsolation` says
  that a navigation waiting in a renderer's pipe is for that renderer's site: the router
  writes one only to a process it holds for the site, and a process that leaves the map
  takes its pipe along. `ScreenNeverRegresses` needs a bound on what is still under way:
  `Labels` collects the epoch of every command, job, document and frame in any queue or
  process, and `LabelsBelow` says that none exceeds the window's `nav_gen`. What is
  shown is then at most `nav_gen`, and the drain applies nothing below it.
* `WorkPoolProofs`. `IInv` is `TypeOK`, `Coherent` (control points agree with the
  job held, the flag and the drop) and `WakeupsCoverQueue`. The last one counts: a push
  adds a job and a notifying submitter; a notification moves one waiting worker to the
  lock or finds nobody waiting; a worker that takes a job removes one of each; a worker
  goes to sleep only when nothing is queued. Theorems: `PoolTypeCorrect`,
  `NoLostWakeup`, `PoolImplementsQueue` (safety of the refinement).
* `AtomicsProofs`. `IInv` is `Types`, `Coherent` (lock holders and calls), `WaitReads`
  and `RmwReads` (what a call has read so far is still in memory, as long as nobody is
  dirty for the element, or the element is only used by RMWs), `NoLostWakeup` and
  `RmwIsolated`. The half-done store is why the dirty set, and not the end of a store,
  is what the argument rests on. Theorems: `NoWakeupIsLost`, `RmwIsAtomic`.
  A second part adds `Plain` (lock holders and calls), `Room` (a wait that compares
  still has a token, since it holds the list) and `Books`: the list is finite, tokens
  tell its entries apart, and the marked ones are counted in `owed`. Distinct tokens are
  needed because marking an entry could otherwise merge it with one that is marked
  already, and the count would be wrong. Theorems: `NotifyCountsTheWoken`, `TypesAreKept`.
* `EventLoopProofs`. `IInv` is `LoopInv` (types, also of the batch's tasks, and cleared
  ids were armed), `ClearIsFinal` and `OrderInv`: what ran last is no later than anything
  held, the batch no later than the queue, and in a realm that uses the snapshot both
  are bounded by it, so that a next occurrence (snapshot plus period) comes after them.
  Only the members of the bags matter here, not their multiplicities. Theorems:
  `LoopTypeCorrect`, `ClearingIsFinal`, `TimersRunInOrder`.
  `TimersAreConserved` adds `Accounts`: a one-shot timer is one task, held once, in the
  queue or in the batch, and no other task has its id. An interval may be held several
  times under one id; for it the queue alone is enough, because its next occurrence is
  queued when it is popped. `DrainsAreBounded` adds `Snapshot`: frames armed since the
  drain began are due after its snapshot, and in a worker's realm, where no slice puts a
  batch back, queue and batch hold each timer once and what was popped is queued again
  for after the snapshot. A page's drain has no such bound for intervals: it rereads the
  clock. `NoStarvation` adds `FramesFirst` (the batch's frames come before what is queued,
  and queued frames are due after the snapshot) and `Counted` (the bags are finite, so that
  copies can be compared). The step that matters is `drain_due_split`: the next occurrence
  of an interval is due one period after the cutoff, and not after its last deadline,
  hence behind everything that is due.
* `WebWorkerProofs`. `IInv` is `Types`, `Threads` (flags agree with the thread's
  position), `Prompt` (a message is late only when the loop had passed the flag before it
  was set) and `Accounts` (`sent` is what was collected plus what is in the channel, and
  nothing follows Closed). Theorems: `WorkerTypeCorrect`, `WorkerEndsPromptly`,
  `NothingIsLostAtClose`.
* `Http1PoolProofs`. `IInv` is `TypeOK`, `Exclusive` and `Tidy`: on a connection that was
  not pooled after an interim response, nothing is under way while it is pooled, free or
  about to be used, and at most one exchange of its owner while in use. Theorems:
  `ClientTypeCorrect`, `ConnectionsAreExclusive`, `ResponsesAreOwn`.
  `RetriesAreBounded` adds `Outstanding` (a request the server has not finished with is
  on one connection, once, and was written more often than carried out) and `Budget`
  (writes made and dials left add up to what the loop of `send_once` allows).
* `Http2PoolProofs`. For `H2TypeCorrect` and `AtMostThreeSends`, `IInv` has `TypeOK` and
  `SendsLeft` (by position and attempt, how often a request can have been written).
  `StaleNeverShows` adds `Sharing`: one request at a time does I/O on a connection
  (`IoAlone`), a connection that is dialed is nobody else's until it is inserted
  (`DialedIsPrivate`), and a request that waits for a connection waits for one that is not
  poisoned, or was there when another request broke it (`IntactOrWaited`).

With this, every invariant and every action property of the passing runs is proved.
Only model-checked: the liveness properties, because TLAPS does not prove fairness
arguments (`StopTakesEffect`, `SwapResolves`, `CloseReapsAll`, `QueueProgress`,
`DropReturns`, `NotifiedWaiterReturns`, `TerminateEndsThread`,
`ClosedIsUnregistered` and `RequestEnds` of both pools). Of the refinement of `JobQueue`,
the safety part is proved and its progress is checked.

A consequence of `RouterCoherent`: only the active site ever has a record, so the
synchronous path of a swap (`reuse_existing_renderer`) is never taken by a window
with a single tab.

## 6. Disagreements between comments and code

1. `LatestNavigationWins` (run `latest_wins`): a same-site navigation during a pending
   swap does not supersede it; the older navigation then replaces the renderer of the
   newer one.
2. `FailedLoadEndsLoading` (run `failed_load`): the failure frame of a swapped-in
   renderer has epoch 0 and is dropped; the window keeps loading.
3. `LoadsAreAtomic` (run `torn_load`): a load can answer half of a store.

Met in the models, without a run of their own:

* Router: "completion bound is enforced upstream by killing the child" (`named_pipe.rs`
  391-392) is not so for the router's own writes: the thread that would kill the child
  is the one that waits. A Stop, a swap or the close of the window queued behind a write to
  a renderer that builds waits for the build (`Stalled`).
* Window: coalescing drops the current frame when a stale one follows it in the same
  drain (`cv_ui/src/lib.rs` 4731); frames of a killed renderer are applied after Stop,
  since Stop does not bump the epoch (`main.rs` 2352, `cv_ui/src/lib.rs` 3097).
* Workers: the comment at the end of `worker_main` (`worker.rs` 344-346) says that
  `from_worker_tx` drops and the drain sees `Disconnected`. The realm's cycle keeps a
  sender, so after a throw in the first script, or terminate, the entry stays
  (`ClosedIsUnregistered` states the endings for which it goes). "Never deliver after
  terminate" (733) holds for messages not yet collected; handlers already enqueued run.
* Timers: an interval that is cleared while a popped batch holds it, and is put back when the
  slice ends, is queued again as if it had not been cleared: it runs and re-queues itself for
  ever, and the script believes it is gone (`ClearIsFinal` excepts ids of a batch).
* HTTP/1.1: a 1xx head is taken for the response and its connection is pooled as if
  at a "clean message boundary" (1741-1744, 1043), so the final response meets the next
  request (`OwnResponse` excepts these connections). "The request never reached a server
  that acted on it" (1421) is not so for a timeout or a reset after the server acted:
  any method, a POST too, is sent again and carried out again (`acts` in `BoundedResend`).
* HTTP/2: the outer mutex is "RELEASED before any socket I/O so other origins never
  block" (445-451), but `h2_evict_stale` and `h2_checkout` wait for an inner mutex, held
  during I/O, while they hold it. A request queued behind one that poisons the connection
  gets an error that is not retriable and fails unsent, although the policy (1113-1119)
  is to dial; `StaleIsHidden` excepts it (`behind`). The concurrency guard's error
  (1220-1223) is not retriable either, and leaves the connection in the pool. `h2_evict` removes whatever is in the pool, also another thread's new
  connection. "The outer send_once retry budget already covers a second send attempt"
  (1190), but `send_once` returns the error at once (791). An https origin
  without h2 dials anew for every request (`NotH2`), and that path has no retry; its pooled
  connections are looked at only when that dial fails (`Fallthrough`, 835). The bound of
  three writes is per call of `h2_send_via_pool`: after a `Fallthrough` the HTTP/1.1 path
  writes the request again, and the retry without brotli makes a second call. Seen outside the model: a stream reset skips its header block, which leaves
  the HPACK table behind the server's; a body larger than the connection's window is cut
  (`http2.rs` 815-819).

Also seen, without a run of their own: a resize while a swap is pending makes the old
renderer commit the old document at the new epoch, which ends the loading state
(`cv_ui/src/lib.rs` 4739); a renderer that died stays active and same-site navigations
to it are lost (`main.rs` 2870); a plain store between an RMW's read and write is lost
(hence the condition in `RmwIsolated`); a navigation started by a script is built in
the same process whatever its site, because it never passes the router (`main.rs`
3062-3078), so `NavigationStaysInItsSite` is about the window's navigations; a one-byte `compareExchange` takes no lock
while a one-byte RMW relies on it (`sab.rs` 125-157).

## 7. Not modelled

The JavaScript engine, DOM, CSS, layout, painting, codecs and cryptography are large
sequential transformations of data: their state is out of TLC's reach and their
hazards are not of order. Win32 calls, encodings and logging are left out. Of the
modelled parts: message sizes (a pipe towards a renderer holds a number of messages),
the handshake, one-byte elements and the end of a thread in `Atomics`, the tab strip,
structured clone and `importScripts` of workers, redirects, cookies and the HTTP cache,
frames and header compression of HTTP/2. Service workers, IndexedDB, OPFS, session and
profile files are within reach of a model and are what the plan has left.

## 8. Plan

1. Done: router and window, compute pool with its abstract specification, Atomics,
   event loop, web workers, HTTP/1.1 and HTTP/2 connection pools, with proofs for each.
2. Persistence with crashes: session rotation, profile files, IndexedDB, OPFS; B-tree
   against a map.
3. Service workers: lifecycle and interception. `WebWorker` composed with `Atomics` for
   the end of a thread that waits; one-byte elements.
4. The HTTP cache; HTTP/2 flow control, WebSocket closing.
5. Proofs: every safety property a run checks has its theorem. Left are the safety
   facts behind the liveness properties (who can move when somebody waits), which need
   no fairness.
