----------------------------- MODULE SiteRouter -----------------------------
(***************************************************************************)
(* Site isolation of top-level navigations: the window (UI thread), the    *)
(* router thread that owns one renderer process per site, the spawn        *)
(* workers, the renderer processes and the reader threads that carry their *)
(* frames back.                                                            *)
(*                                                                         *)
(*   window --inbox--> router --to_child[p]--> renderer process p          *)
(*   window <--from_page-- reader thread of p <--wire[p]-- process p       *)
(*                                                                         *)
(* Every command and every frame carries a navigation epoch.  The window   *)
(* bumps nav_gen for each navigation and drops frames of an older epoch.   *)
(*                                                                         *)
(* A document is identified by the epoch of the navigation that built it,  *)
(* so a frame [epoch, doc] is the document of navigation doc labelled with *)
(* epoch.  The two differ when a renderer redraws an old document under a  *)
(* new epoch.                                                              *)
(*                                                                         *)
(* The shim thread between the window's channel and the router's merged    *)
(* channel only forwards, in order; the two channels are one queue here.   *)
(***************************************************************************)
EXTENDS RendererHost, Sequences, FiniteSets

CONSTANTS Home,        \* site of the first navigation (spawn_site_router's target)
          First,       \* pid of the first renderer
          WindowCmds,  \* bound: the kinds of command the window issues
          MaxNav,      \* bound: navigations and tab commands the window issues
          MaxInbox,    \* bound: messages waiting at the router when the window sends
          MaxQueue,    \* bound: commands waiting at a renderer when the window sends
          MaxWire,     \* bound: frames in one renderer's pipe (a full pipe blocks it)
          PipeRoom,    \* commands the pipe to a renderer takes before it is read
          MaxFrames    \* bound: frames waiting for the window when a reader sends

ASSUME HomeAssumption == Home \in Sites /\ First \in Pids
ASSUME BoundAssumption == {MaxNav, MaxInbox, MaxQueue, MaxWire, MaxFrames} \subseteq Nat
ASSUME PipeAssumption == PipeRoom \in Nat \ {0}

VARIABLES
  open, nav_gen, nav_in_flight, shown,      \* the window
  inbox, from_page,                         \* channels to the router, to the window
  running, host, renderers, active,         \* the router
  pending, next_swap_id,
  workers,                                  \* spawn jobs in flight
  alive, child, to_child, wire              \* renderer processes and their pipes

windowVars == <<open, nav_gen, nav_in_flight, shown>>
routerVars == <<running, host, renderers, active, pending, next_swap_id>>
childVars  == <<alive, child, to_child, wire>>
vars == <<open, nav_gen, nav_in_flight, shown, inbox, from_page, running, host,
          renderers, active, pending, next_swap_id, workers, alive, child,
          to_child, wire>>

-----------------------------------------------------------------------------
(* What travels between the threads. *)

\* A command whose destination is an absolute URL is a "nav" to a site; one the
\* renderer resolves itself (history, reload, relative link, non-http URL) is
\* "local"; content input and javascript: are "input".
CmdTypes == {"nav", "local", "input"}
NavMsg == [type : {"nav"}, site : Sites, epoch : Nat]
ChildMsg == NavMsg \cup [type : {"local", "input", "resize", "host"},
                         site : {None}, epoch : Nat]
WindowMsg == ChildMsg \cup [type : {"stop", "shutdown"}, site : {None}, epoch : Nat]
ReadyMsg == [type : {"ready"}, swap_id : Nat, site : Sites, epoch : Nat,
             prev : Sites \cup {None}, pid : Pids \cup {None}]
Frame == [epoch : Nat, doc : Nat]
\* A spawn worker and the connected renderer it holds, if it has one yet.
SpawnJob == [swap_id : Nat, site : Sites, epoch : Nat, prev : Sites \cup {None},
             pid : Pids \cup {None}]

\* RouterRenderer: the process and the site it is dedicated to, by child id.
NoRenderer == [site |-> None, pid |-> None]
RouterRenderer == [site : Sites \cup {None}, pid : Pids \cup {None}]

\* Option<PendingSwap>; swap ids start at 1.
NoPending == [swap_id |-> 0, cancelled |-> FALSE]
PendingSwap == [swap_id : Nat, cancelled : BOOLEAN]

\* A renderer process: not handshaked or gone, building its initial
\* navigation, serving commands, or exited after a failed build.
NoChild == [st |-> "none", epoch |-> 0, doc |-> 0]
Child == [st : {"none", "building", "serving", "failed"}, epoch : Nat, doc : Nat]

ReadyPids == {inbox[i].pid : i \in {j \in DOMAIN inbox : inbox[j].type = "ready"}}
OwnedPids == {renderers[c].pid : c \in Pids}
WorkerPids == {j.pid : j \in workers}

-----------------------------------------------------------------------------
\* spawn_site_router: the first renderer is connected, recorded and active
\* before the router thread starts.
Init ==
  /\ open = TRUE /\ nav_gen = 0 /\ nav_in_flight = FALSE
  /\ shown = [epoch |-> 0, doc |-> 0]
  /\ inbox = <<>> /\ from_page = <<>>
  /\ running = TRUE
  /\ host = lookup_or_spawn(EmptyHost, Home, First)
  /\ renderers = [c \in Pids |-> IF c = First THEN [site |-> Home, pid |-> First]
                                              ELSE NoRenderer]
  /\ active = First
  /\ pending = NoPending /\ next_swap_id = 0
  /\ workers = {}
  /\ alive = {First}
  /\ child = [p \in Pids |-> IF p = First THEN [NoChild EXCEPT !.st = "building"]
                                          ELSE NoChild]
  /\ to_child = [p \in Pids |-> <<>>]
  /\ wire = [p \in Pids |-> <<>>]

-----------------------------------------------------------------------------
(* The window. *)

\* A send on the command channel; it fails silently once the router is gone.
SendToPage(type, site, epoch) ==
  inbox' = IF running
           THEN Append(inbox, [type |-> type, site |-> site, epoch |-> epoch])
           ELSE inbox

CanSend(type) == /\ open /\ type \in WindowCmds
                 /\ Len(inbox) < MaxInbox
                 /\ \A p \in Pids : Len(to_child[p]) < MaxQueue

\* pump_navigation_command and the URL bar: a link click is not held back by a
\* navigation in flight, so a second navigation may start while one is pending.
pump_navigation_command(type, site) ==
  /\ CanSend(type) /\ nav_gen < MaxNav
  /\ nav_gen' = nav_gen + 1
  /\ nav_in_flight' = TRUE
  /\ SendToPage(type, site, nav_gen + 1)
  /\ UNCHANGED <<open, shown, from_page, routerVars, workers, childVars>>

Navigate == \E s \in Sites : pump_navigation_command("nav", s)
NavigateLocal == pump_navigation_command("local", None)

\* Content input keeps the epoch and is dropped while a navigation is in flight.
pump_input_command ==
  /\ CanSend("input") /\ ~nav_in_flight
  /\ SendToPage("input", None, nav_gen)
  /\ UNCHANGED <<windowVars, from_page, routerVars, workers, childVars>>

\* WM_SIZE: the current epoch, whether or not a navigation is in flight.
Resize ==
  /\ CanSend("resize")
  /\ SendToPage("resize", None, nav_gen)
  /\ UNCHANGED <<windowVars, from_page, routerVars, workers, childVars>>

\* A tab command bumps the epoch and leaves nav_in_flight alone.
pump_host_command ==
  /\ CanSend("host") /\ nav_gen < MaxNav
  /\ nav_gen' = nav_gen + 1
  /\ SendToPage("host", None, nav_gen + 1)
  /\ UNCHANGED <<open, nav_in_flight, shown, from_page, routerVars, workers, childVars>>

\* The Stop button: the current epoch, and nav_gen is not bumped.
trigger_stop ==
  /\ CanSend("stop") /\ nav_in_flight
  /\ nav_in_flight' = FALSE
  /\ SendToPage("stop", None, nav_gen)
  /\ UNCHANGED <<open, nav_gen, shown, from_page, routerVars, workers, childVars>>

\* Seeded fault: the window goes away and the shim sends no Shutdown for it.
CloseWindow_silent ==
  /\ open
  /\ open' = FALSE
  /\ from_page' = <<>>
  /\ UNCHANGED <<inbox, nav_gen, nav_in_flight, shown, routerVars, workers, childVars>>

\* The window is destroyed: Shutdown is sent, or synthesised by the shim when
\* the channel closes; frames nobody will read are dropped.
CloseWindow ==
  /\ open
  /\ open' = FALSE
  /\ SendToPage("shutdown", None, nav_gen)
  /\ from_page' = <<>>
  /\ UNCHANGED <<nav_gen, nav_in_flight, shown, routerVars, workers, childVars>>

\* Seeded fault: no stale-frame drop.
should_apply_always(commit_epoch, gen) == TRUE

should_apply_commit(commit_epoch, gen) == commit_epoch >= gen

\* WM_APP_FROMPAGE: drain the channel, keep the newest frame, apply it unless a
\* newer navigation superseded its epoch.
DrainFromPage ==
  /\ open /\ from_page # <<>>
  /\ from_page' = <<>>
  /\ LET latest == from_page[Len(from_page)]
         apply == should_apply_commit(latest.epoch, nav_gen)
     IN /\ shown' = IF apply THEN latest ELSE shown
        /\ nav_in_flight' = (nav_in_flight /\ ~apply)
  /\ UNCHANGED <<open, nav_gen, inbox, routerVars, workers, childVars>>

-----------------------------------------------------------------------------
(* The router thread: one message of the merged channel per step. *)

active_site == IF active = None THEN None ELSE renderers[active].site

\* RouterRenderer::send to the renderer with child id c of map r; the error of
\* a broken pipe (the process is gone) is ignored by every caller.
sent(q, r, c, m) ==
  IF c # None /\ r[c].pid \in alive THEN [q EXCEPT ![r[c].pid] = Append(@, m)] ELSE q

\* RouterRenderer::send blocks the router while the pipe is full.  A renderer
\* starts the thread that reads its pipe only after its first build; from then on
\* the pipe is drained, whatever the page does.  A step of the router that
\* writes is taken when its last write goes through.
Writable(S) ==
  \A p \in S \cap alive : child[p].st = "building" => Len(to_child[p]) < PipeRoom

\* Processes S are killed (a dropped JobObject); q are the pipes to the others.
Reap(S, q) ==
  /\ alive' = alive \ S
  /\ child' = [p \in Pids |-> IF p \in S THEN NoChild ELSE child[p]]
  /\ to_child' = [p \in Pids |-> IF p \in S THEN <<>> ELSE q[p]]

\* emit_error_frame, unless the window is gone.
error_frame(epoch) ==
  IF open THEN Append(from_page, [epoch |-> epoch, doc |-> epoch]) ELSE from_page

Received(types) ==
  /\ running /\ inbox # <<>>
  /\ Head(inbox).type \in types
  /\ inbox' = Tail(inbox)

\* Seeded fault: Stop is forwarded like any command.
RouteToActive_stop ==
  /\ Received(CmdTypes \cup {"resize", "host", "stop"})
  /\ LET m == Head(inbox)
     IN /\ m.type = "nav" => m.site = active_site
        /\ active # None => Writable({renderers[active].pid})
        /\ to_child' = sent(to_child, renderers, active, m)
  /\ UNCHANGED <<windowVars, from_page, routerVars, workers, alive, child, wire>>

\* Seeded fault: the destination site is not compared with the active one.
RouteToActive_anysite ==
  /\ Received(CmdTypes \cup {"resize", "host"})
  /\ active # None => Writable({renderers[active].pid})
  /\ to_child' = sent(to_child, renderers, active, Head(inbox))
  /\ UNCHANGED <<windowVars, from_page, routerVars, workers, alive, child, wire>>

\* Resize and Host go to the active renderer, and so do SendToActive and
\* SameSite commands.
RouteToActive ==
  /\ Received(CmdTypes \cup {"resize", "host"})
  /\ LET m == Head(inbox)
     IN /\ m.type = "nav" => m.site = active_site
        /\ active # None => Writable({renderers[active].pid})
        /\ to_child' = sent(to_child, renderers, active, m)
  /\ UNCHANGED <<windowVars, from_page, routerVars, workers, alive, child, wire>>

\* Both ends of a swap: command the renderer c, make it active and release the
\* site it replaces (a Shutdown, then the kill).  h and r are host and renderers with c in them; lost are
\* processes whose handle the insertion overwrote.
SwapTo(c, h, r, lost, site, epoch, prev) ==
  LET releases == prev # None /\ active # c
      freed == IF releases THEN released_id(h, prev) ELSE None
      replaced == IF freed = None THEN {} ELSE {r[freed].pid}
      cmd == [type |-> "nav", site |-> site, epoch |-> epoch]
  IN /\ Writable({r[c].pid} \cup replaced)
     /\ active' = c
     /\ host' = IF releases THEN release(h, prev) ELSE h
     /\ renderers' = IF freed = None THEN r ELSE [r EXCEPT ![freed] = NoRenderer]
     /\ Reap(lost \cup replaced, sent(to_child, r, c, cmd))

\* register_pending_swap and the worker thread; when the thread cannot be
\* created the swap is forgotten and the window gets an error frame.
start_spawn_worker(m) ==
  /\ next_swap_id' = next_swap_id + 1
  /\ \/ /\ pending' = [swap_id |-> next_swap_id + 1, cancelled |-> FALSE]
        /\ workers' = workers \cup {[swap_id |-> next_swap_id + 1, site |-> m.site,
                                     epoch |-> m.epoch, prev |-> active_site,
                                     pid |-> None]}
        /\ UNCHANGED from_page
     \/ /\ pending' = NoPending
        /\ from_page' = error_frame(m.epoch)
        /\ UNCHANGED workers
  /\ UNCHANGED <<host, renderers, active, childVars>>

\* reuse_existing_renderer: the synchronous path of a swap.
reuse_existing_renderer(m) ==
  LET c == host[m.site].child_id
  IN /\ SwapTo(c, lookup_or_spawn(host, m.site, c), renderers, {}, m.site, m.epoch,
               active_site)
     /\ UNCHANGED <<pending, next_swap_id, workers, from_page, wire>>

RouteCrossSite ==
  /\ Received({"nav"})
  /\ LET m == Head(inbox)
     IN /\ m.site # active_site
        /\ IF has_record(host, m.site) THEN reuse_existing_renderer(m)
                                       ELSE start_spawn_worker(m)
  /\ UNCHANGED <<windowVars, running>>

\* Seeded fault: the host record of the killed renderer survives.
handle_stop_load_norelease ==
  /\ Received({"stop"})
  /\ pending' = IF pending.swap_id = 0 THEN pending
                                       ELSE [pending EXCEPT !.cancelled = TRUE]
  /\ active' = None
  /\ IF active_site = None
     THEN UNCHANGED <<renderers, alive, child, to_child>>
     ELSE /\ renderers' = [renderers EXCEPT ![active] = NoRenderer]
          /\ Reap({renderers[active].pid}, to_child)
  /\ UNCHANGED <<host, windowVars, from_page, running, next_swap_id, workers, wire>>

\* Seeded fault: the pending swap is not cancelled.
handle_stop_load_nocancel ==
  /\ Received({"stop"})
  /\ active' = None
  /\ IF active_site = None
     THEN UNCHANGED <<host, renderers, alive, child, to_child>>
     ELSE /\ renderers' = [renderers EXCEPT ![active] = NoRenderer]
          /\ host' = release_all(host, active_site)
          /\ Reap({renderers[active].pid}, to_child)
  /\ UNCHANGED <<pending, windowVars, from_page, running, next_swap_id, workers, wire>>

\* Seeded fault: Stop returns once it has cancelled a pending swap.
handle_stop_load_early ==
  /\ Received({"stop"})
  /\ IF pending.swap_id # 0
     THEN /\ pending' = [pending EXCEPT !.cancelled = TRUE]
          /\ UNCHANGED <<host, renderers, active, alive, child, to_child>>
     ELSE /\ active' = None
          /\ IF active_site = None
             THEN UNCHANGED <<host, renderers, alive, child, to_child>>
             ELSE /\ renderers' = [renderers EXCEPT ![active] = NoRenderer]
                  /\ host' = release_all(host, active_site)
                  /\ Reap({renderers[active].pid}, to_child)
          /\ UNCHANGED pending
  /\ UNCHANGED <<windowVars, from_page, running, next_swap_id, workers, wire>>

\* handle_stop_load: cancel the pending swap, then hard_kill_active.
handle_stop_load ==
  /\ Received({"stop"})
  /\ pending' = IF pending.swap_id = 0 THEN pending
                                       ELSE [pending EXCEPT !.cancelled = TRUE]
  /\ active' = None
  /\ IF active_site = None
     THEN UNCHANGED <<host, renderers, alive, child, to_child>>
     ELSE /\ renderers' = [renderers EXCEPT ![active] = NoRenderer]
          /\ host' = release_all(host, active_site)
          /\ Reap({renderers[active].pid}, to_child)
  /\ UNCHANGED <<windowVars, from_page, running, next_swap_id, workers, wire>>

\* Shutdown, sent to every renderer, and the end of run_site_router: the renderers
\* and the connections still in the channel are dropped with the router, and the
\* readers' pipes break.  What a worker holds is not the router's.
RouteShutdown ==
  /\ running /\ inbox # <<>> /\ Head(inbox).type = "shutdown"
  /\ Writable(OwnedPids)
  /\ running' = FALSE
  /\ inbox' = <<>>
  /\ host' = EmptyHost /\ active' = None /\ pending' = NoPending
  /\ renderers' = [c \in Pids |-> NoRenderer]
  /\ Reap(OwnedPids \cup ReadyPids, to_child)
  /\ wire' = [p \in Pids |-> IF p \in WorkerPids THEN wire[p] ELSE <<>>]
  /\ UNCHANGED <<windowVars, from_page, next_swap_id, workers>>

\* handle_renderer_ready for a swap that was superseded or cancelled: the
\* connection is dropped, which kills the child.
DiscardReady ==
  /\ Received({"ready"})
  /\ LET m == Head(inbox)
         is_current == pending.swap_id = m.swap_id
     IN /\ ~is_current \/ pending.cancelled
        /\ pending' = IF is_current THEN NoPending ELSE pending
        /\ Reap({m.pid}, to_child)
        /\ wire' = [p \in Pids |-> IF p = m.pid THEN <<>> ELSE wire[p]]
  /\ UNCHANGED <<windowVars, from_page, running, host, renderers, active,
                 next_swap_id, workers>>

\* handle_renderer_ready for the live swap, spawn error.
SpawnFailed ==
  /\ Received({"ready"})
  /\ LET m == Head(inbox)
     IN /\ pending.swap_id = m.swap_id /\ ~pending.cancelled
        /\ m.pid = None
        /\ from_page' = error_frame(m.epoch)
  /\ pending' = NoPending
  /\ UNCHANGED <<windowVars, running, host, renderers, active, next_swap_id,
                 workers, childVars>>

\* Seeded fault: a cancelled swap is activated all the same.
ActivateReady_cancelled ==
  /\ Received({"ready"})
  /\ LET m == Head(inbox)
         c == spawned_id(host, m.site, m.pid)
     IN /\ pending.swap_id = m.swap_id
        /\ m.pid # None
        /\ SwapTo(c, lookup_or_spawn(host, m.site, m.pid),
                  [renderers EXCEPT ![c] = [site |-> m.site, pid |-> m.pid]],
                  {renderers[c].pid} \ {m.pid}, m.site, m.epoch, m.prev)
  /\ pending' = NoPending
  /\ UNCHANGED <<windowVars, from_page, running, next_swap_id, workers, wire>>

\* handle_renderer_ready for the live swap: insert_ready_renderer, drive the
\* new renderer to the URL, activate it and release the site it replaces.
ActivateReady ==
  /\ Received({"ready"})
  /\ LET m == Head(inbox)
         c == spawned_id(host, m.site, m.pid)
     IN /\ pending.swap_id = m.swap_id /\ ~pending.cancelled
        /\ m.pid # None
        /\ SwapTo(c, lookup_or_spawn(host, m.site, m.pid),
                  [renderers EXCEPT ![c] = [site |-> m.site, pid |-> m.pid]],
                  {renderers[c].pid} \ {m.pid}, m.site, m.epoch, m.prev)
  /\ pending' = NoPending
  /\ UNCHANGED <<windowVars, from_page, running, next_swap_id, workers, wire>>

RouterStep == RouteToActive \/ RouteCrossSite \/ handle_stop_load \/ RouteShutdown
              \/ DiscardReady \/ SpawnFailed \/ ActivateReady

-----------------------------------------------------------------------------
(* Spawn workers: connect_persistent_renderer off the router thread.  Its pipe  *)
(* accept and its handshake wait are bounded by timeouts, so it always returns. *)

Fresh(p) == p \notin alive \cup ReadyPids \cup OwnedPids \cup WorkerPids /\ wire[p] = <<>>

Ready(j) == [type |-> "ready", swap_id |-> j.swap_id, site |-> j.site,
             epoch |-> j.epoch, prev |-> j.prev, pid |-> j.pid]

\* connect_persistent_renderer: spawned and handshaked, the child builds the page
\* of its --initial-nav.  The connection is the worker's.
Connect(j) ==
  /\ j.pid = None
  /\ \E p \in Pids :
       /\ Fresh(p)
       /\ workers' = (workers \ {j}) \cup {[j EXCEPT !.pid = p]}
       /\ alive' = alive \cup {p}
       /\ child' = [child EXCEPT ![p] = [st |-> "building", epoch |-> 0, doc |-> j.epoch]]
       /\ to_child' = [to_child EXCEPT ![p] = <<>>]
  /\ UNCHANGED <<windowVars, inbox, from_page, routerVars, wire>>

\* Seeded fault: a failed spawn is not reported to the router.
Report_silent(j) ==
  /\ running
  /\ inbox' = IF j.pid = None THEN inbox ELSE Append(inbox, Ready(j))
  /\ workers' = workers \ {j}
  /\ UNCHANGED <<windowVars, from_page, routerVars, childVars>>

\* The worker sends its result and ends: the connection, or the error (no
\* process, no connection in time, no compatible handshake in time).
Report(j) ==
  /\ running
  /\ inbox' = Append(inbox, Ready(j))
  /\ workers' = workers \ {j}
  /\ UNCHANGED <<windowVars, from_page, routerVars, childVars>>

\* Seeded fault: the child of a connection nobody takes is not killed.
ReportTooLate_leak(j) ==
  /\ ~running
  /\ workers' = workers \ {j}
  /\ UNCHANGED <<windowVars, inbox, from_page, routerVars, childVars>>

\* The router is gone: the send fails and gives the connection back, and dropping
\* it kills the child.
ReportTooLate(j) ==
  /\ ~running
  /\ workers' = workers \ {j}
  /\ Reap({j.pid}, to_child)
  /\ wire' = [p \in Pids |-> IF p = j.pid THEN <<>> ELSE wire[p]]
  /\ UNCHANGED <<windowVars, inbox, from_page, routerVars>>

WorkerStep(j) == Connect(j) \/ Report(j) \/ ReportTooLate(j)
SpawnWorker == \E j \in workers : WorkerStep(j)

-----------------------------------------------------------------------------
(* A renderer process (renderer_persistent_loop) and its reader thread. *)

Commit(p, epoch, doc) ==
  /\ Len(wire[p]) < MaxWire
  /\ wire' = [wire EXCEPT ![p] = Append(@, [epoch |-> epoch, doc |-> doc])]

\* build_browser_session succeeded: the first paint is committed at epoch 0.
ChildFirstPaint(p) ==
  /\ p \in alive /\ child[p].st = "building"
  /\ Commit(p, 0, child[p].doc)
  /\ child' = [child EXCEPT ![p].st = "serving"]
  /\ UNCHANGED <<windowVars, inbox, from_page, routerVars, workers, alive, to_child>>

\* It failed: a "Failed to load" frame at epoch 0, then the process exits.
ChildBuildFails(p) ==
  /\ p \in alive /\ child[p].st = "building"
  /\ Commit(p, 0, child[p].doc)
  /\ child' = [child EXCEPT ![p].st = "failed"]
  /\ alive' = alive \ {p}
  /\ to_child' = [to_child EXCEPT ![p] = <<>>]
  /\ UNCHANGED <<windowVars, inbox, from_page, routerVars, workers>>

\* One command.  Each sets the renderer's epoch.  A navigation always commits
\* (the page or an error page); input, a resize and a tab command commit if
\* their handler returned a frame.  A resize redraws the document it has.
ChildServes(p) ==
  /\ p \in alive /\ child[p].st = "serving" /\ to_child[p] # <<>>
  /\ LET m == Head(to_child[p])
     IN \/ LET doc == IF m.type \in {"nav", "local", "host"} THEN m.epoch ELSE child[p].doc
           IN /\ Commit(p, m.epoch, doc)
              /\ child' = [child EXCEPT ![p].epoch = m.epoch, ![p].doc = doc]
        \/ /\ m.type \notin {"nav", "local"}
           /\ child' = [child EXCEPT ![p].epoch = m.epoch]
           /\ UNCHANGED wire
  /\ to_child' = [to_child EXCEPT ![p] = Tail(@)]
  /\ UNCHANGED <<windowVars, inbox, from_page, routerVars, workers, alive>>

\* A frame tick found something to redraw (timers, animations), or a script set
\* location: the page it leads to is built in this process under the epoch the
\* renderer has, and counts as the document of that navigation.
ChildTick(p) ==
  /\ p \in alive /\ child[p].st = "serving"
  /\ Commit(p, child[p].epoch, child[p].doc)
  /\ UNCHANGED <<windowVars, inbox, from_page, routerVars, workers, alive, child, to_child>>

\* The process dies by itself.  The reader thread notes it in the broker, which
\* the router never consults.
ChildCrash(p) ==
  /\ p \in alive
  /\ Reap({p}, to_child)
  /\ UNCHANGED <<windowVars, inbox, from_page, routerVars, workers, wire>>

\* spawn_reader's loop: it starts when the renderer is inserted (before that
\* the frames wait in the pipe) and drains the pipe even after a kill.
ReaderForwards(p) ==
  /\ wire[p] # <<>> /\ p \notin ReadyPids \cup WorkerPids
  /\ wire' = [wire EXCEPT ![p] = Tail(@)]
  /\ \/ /\ open /\ Len(from_page) < MaxFrames
        /\ from_page' = Append(from_page, Head(wire[p]))
     \/ /\ ~open
        /\ UNCHANGED from_page
  /\ UNCHANGED <<windowVars, inbox, routerVars, workers, alive, child, to_child>>

ChildRuns(p) == ChildFirstPaint(p) \/ ChildServes(p)
ChildStep == \E p \in Pids : ChildRuns(p) \/ ChildBuildFails(p) \/ ChildTick(p)
                             \/ ChildCrash(p) \/ ReaderForwards(p)

-----------------------------------------------------------------------------
WindowStep == Navigate \/ NavigateLocal \/ pump_input_command \/ Resize
              \/ pump_host_command \/ trigger_stop \/ CloseWindow \/ DrainFromPage

\* Everything has ended.
Terminated == ~running /\ workers = {} /\ ~open /\ UNCHANGED vars

Next == WindowStep \/ RouterStep \/ SpawnWorker \/ ChildStep \/ Terminated

\* The router's blocking recv loop and the workers' bounded connects.  A router
\* blocked in a write has no step to take, and nothing bounds a renderer's build.
Fairness == /\ WF_vars(RouterStep)
            /\ WF_vars(SpawnWorker)

Spec == Init /\ [][Next]_vars /\ Fairness

\* Renderers, readers and the window's message loop too.
FullFairness == /\ Fairness
                /\ WF_vars(DrainFromPage)
                /\ \A p \in Pids : WF_vars(ChildRuns(p)) /\ WF_vars(ReaderForwards(p))
FairSpec == Init /\ [][Next]_vars /\ FullFairness

-----------------------------------------------------------------------------
(* Properties. *)

\* The type of every variable.
TypeOK ==
  /\ open \in BOOLEAN /\ nav_gen \in Nat /\ nav_in_flight \in BOOLEAN
  /\ shown \in Frame
  /\ inbox \in Seq(WindowMsg \cup ReadyMsg) /\ from_page \in Seq(Frame)
  /\ running \in BOOLEAN
  /\ host \in HostTable
  /\ renderers \in [Pids -> RouterRenderer]
  /\ active \in Pids \cup {None}
  /\ pending \in PendingSwap /\ next_swap_id \in Nat
  /\ workers \in SUBSET SpawnJob
  /\ alive \in SUBSET Pids
  /\ child \in [Pids -> Child]
  /\ to_child \in [Pids -> Seq(ChildMsg)]
  /\ wire \in [Pids -> Seq(Frame)]

\* The router's three views of its renderers agree: the host table records the
\* active renderer, with one reference, and nothing else, and the map of
\* processes holds that renderer and nothing else (SiteRouter.host, renderers
\* and active, updated by five different paths).
RouterCoherent ==
  /\ \A c \in Pids : renderers[c] # NoRenderer =>
       c = active /\ renderers[c].pid = c /\ renderers[c].site # None
  /\ active # None => renderers[active] # NoRenderer
  /\ \A s \in Sites :
       host[s] = IF active # None /\ renderers[active].site = s
                 THEN [child_id |-> active, refcount |-> 1] ELSE NoRecord

\* No renderer process outlives its owner: every live child belongs to the
\* router's map, to a connection waiting in its channel or to a spawn worker,
\* through supersession, Stop, failed activation, shutdown and a result that
\* comes after it (the JobObject-on-drop scheme).
NoOrphanProcess == alive \subseteq OwnedPids \cup ReadyPids \cup WorkerPids

\* previous_site is captured when the navigation is routed and used when the
\* spawn worker answers; for the swap that can still be activated it is never
\* stale: it is the site active now, so the swap releases what it replaces.
SwapReleasesWhatItReplaces ==
  (pending.swap_id # 0 /\ ~pending.cancelled) =>
    /\ \A j \in workers : j.swap_id = pending.swap_id =>
         j.prev = active_site /\ j.site # active_site
    /\ \A i \in DOMAIN inbox :
         (inbox[i].type = "ready" /\ inbox[i].swap_id = pending.swap_id) =>
           inbox[i].prev = active_site /\ inbox[i].site # active_site

\* Stop during a pending spawn wins: with no renderer active and no live swap,
\* nothing becomes active except through a navigation routed later, whatever
\* spawn results are still in flight (handle_stop_load).
StopBeatsSwap ==
  [][(active = None /\ (pending.swap_id = 0 \/ pending.cancelled)) => active' = None]_vars

\* A URL navigation is only ever given to a renderer process dedicated to the
\* URL's site (the point of site isolation), although the decision is taken
\* against the active site and the command is delivered through a swap.
NavigationStaysInItsSite ==
  \A p \in Pids : \A i \in DOMAIN to_child[p] :
    to_child[p][i].type = "nav" =>
      \E c \in Pids : renderers[c] = [site |-> to_child[p][i].site, pid |-> p]

\* The screen never goes back to a frame labelled with an older navigation,
\* whatever order the readers of several renderers deliver in
\* (should_apply_commit).
ShownNeverRegresses == [][shown'.epoch >= shown.epoch]_vars

\* The router is blocked in a write to a renderer that is not reading yet.
Stalled == running /\ inbox # <<>> /\ ~ENABLED RouterStep

\* A Stop is carried out, however long spawns take and whatever renderers that
\* read their pipe do: the active renderer is gone (or the router is) once the
\* router gets to the message.  Only a router that stays blocked in a write to a
\* renderer never gets there (RouterRenderer::send has no timeout).
StopTakesEffect ==
  []<>~Stalled =>
    ((\E i \in DOMAIN inbox : inbox[i].type = "stop") ~> (active = None \/ ~running))

\* Every spawn is answered: unless the router stays blocked in a write, a live
\* pending swap is activated, failed, cancelled or superseded, never left pending
\* for ever.
SwapResolves ==
  []<>~Stalled => \A k \in 1..MaxNav : (pending.swap_id = k) ~> (pending.swap_id # k)

\* Closing the window ends the router and every renderer process, those that are
\* still being connected too, unless the router stays blocked in a write.
CloseReapsAll == []<>~Stalled => (~open ~> [](~running /\ alive = {}))

-----------------------------------------------------------------------------
(* Statements of the code's comments that the code does not keep. *)

\* "The latest navigation always wins" (register_pending_swap): a swap that
\* replaces the active renderer belongs to a navigation at least as recent as
\* any the replaced renderer was given.
LatestNavigationWins ==
  [][(active # None /\ active' \notin {None, active}) =>
       LET p == renderers[active].pid
       IN \A e \in {child[p].epoch} \cup {to_child[p][i].epoch : i \in DOMAIN to_child[p]} :
            e <= Head(inbox).epoch]_vars

\* "commit a 'Failed to load' frame so the browser's window doesn't sit on
\* 'Loading...' forever" (renderer_persistent_loop): when the active renderer
\* exited because it could not build the page of the current navigation, the
\* loading state of the window ends.
FailedLoadEndsLoading ==
  \A p \in Pids :
    (child[p].st = "failed" /\ child[p].doc = nav_gen
     /\ active # None /\ renderers[active].pid = p)
      ~> (~nav_in_flight \/ ~open)
=============================================================================
