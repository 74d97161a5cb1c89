-------------------------- MODULE SiteRouterProofs --------------------------
(***************************************************************************)
(* Proofs about SiteRouter, for every set of sites and processes and every *)
(* value of the bounds.                                                    *)
(***************************************************************************)
EXTENDS SiteRouter, TLAPS

-----------------------------------------------------------------------------
(* Queues. *)

\* The first element and the rest of a non-empty queue.
LEMMA HeadTail ==
  ASSUME NEW S, NEW q \in Seq(S), q # <<>>
  PROVE  /\ Head(q) \in S /\ Head(q) = q[1] /\ 1 \in DOMAIN q
         /\ Tail(q) \in Seq(S)
         /\ \A i \in DOMAIN Tail(q) : i + 1 \in DOMAIN q /\ Tail(q)[i] = q[i + 1]
  OBVIOUS

\* The elements of a queue after a send.
LEMMA AppendElements ==
  ASSUME NEW S, NEW q \in Seq(S), NEW e \in S
  PROVE  /\ Append(q, e) \in Seq(S)
         /\ \A i \in DOMAIN Append(q, e) :
              (i \in DOMAIN q /\ Append(q, e)[i] = q[i])
              \/ (i = Len(q) + 1 /\ i \notin DOMAIN q /\ Append(q, e)[i] = e)
         /\ \A i \in DOMAIN q : i \in DOMAIN Append(q, e) /\ Append(q, e)[i] = q[i]
         /\ Len(q) + 1 \in DOMAIN Append(q, e) /\ Append(q, e)[Len(q) + 1] = e
  OBVIOUS

-----------------------------------------------------------------------------
(* The host table. *)

\* The operations of RendererHost keep its type.
LEMMA HostTypes ==
  ASSUME NEW h \in HostTable, NEW s \in Sites, NEW p \in Pids \cup {None}
  PROVE  /\ lookup_or_spawn(h, s, p) \in HostTable
         /\ release(h, s) \in HostTable
         /\ release_all(h, s) \in HostTable
         /\ spawned_id(h, s, p) \in Pids \cup {None}
         /\ released_id(h, s) \in Pids \cup {None}
<1>1. h[s] \in RendererRecord /\ h[s].refcount \in Nat /\ h[s].child_id \in Pids \cup {None}
  BY DEF HostTable, RendererRecord
<1>2. NoRecord \in RendererRecord
  BY DEF NoRecord, RendererRecord
<1>3. lookup_or_spawn(h, s, p) \in HostTable
  <2>1. [child_id |-> h[s].child_id, refcount |-> h[s].refcount + 1] \in RendererRecord
    BY <1>1 DEF RendererRecord
  <2>2. [child_id |-> p, refcount |-> 1] \in RendererRecord
    BY DEF RendererRecord
  <2> QED BY <2>1, <2>2 DEF lookup_or_spawn, HostTable
<1>4. release(h, s) \in HostTable
  <2>1. CASE h[s].refcount > 1
    <3>1. h[s].refcount - 1 \in Nat BY <1>1, <2>1
    <3>2. [child_id |-> h[s].child_id, refcount |-> h[s].refcount - 1] \in RendererRecord
      BY <1>1, <3>1 DEF RendererRecord
    <3> QED BY <2>1, <3>2 DEF release, HostTable
  <2>2. CASE ~(h[s].refcount > 1)
    BY <1>2, <2>2 DEF release, HostTable
  <2> QED BY <2>1, <2>2
<1>5. release_all(h, s) \in HostTable
  BY <1>2 DEF release_all, HostTable
<1>6. spawned_id(h, s, p) \in Pids \cup {None} /\ released_id(h, s) \in Pids \cup {None}
  BY <1>1 DEF spawned_id, released_id
<1> QED BY <1>3, <1>4, <1>5, <1>6

-----------------------------------------------------------------------------
(* Type correctness. *)

\* spawn_site_router leaves a well-typed state.
LEMMA InitTypeOK == Init => TypeOK
<1> SUFFICES ASSUME Init PROVE TypeOK
  OBVIOUS
<1> USE HomeAssumption DEF Init
<1>1. EmptyHost \in HostTable
  BY DEF EmptyHost, HostTable, NoRecord, RendererRecord
<1>2. host \in HostTable
  BY <1>1, HostTypes
<1>3. renderers \in [Pids -> RouterRenderer]
  BY DEF RouterRenderer, NoRenderer
<1>4. child \in [Pids -> Child]
  BY DEF Child, NoChild
<1>5. pending \in PendingSwap /\ shown \in Frame
  BY DEF PendingSwap, NoPending, Frame
<1>6. to_child \in [Pids -> Seq(ChildMsg)] /\ wire \in [Pids -> Seq(Frame)]
  OBVIOUS
<1>7. open \in BOOLEAN /\ nav_in_flight \in BOOLEAN /\ running \in BOOLEAN
  BY Zenon
<1>8. /\ nav_gen \in Nat /\ next_swap_id \in Nat /\ active \in Pids \cup {None}
      /\ inbox \in Seq(WindowMsg \cup ReadyMsg) /\ from_page \in Seq(Frame)
  OBVIOUS
<1>9. workers \in SUBSET SpawnJob /\ alive \in SUBSET Pids
  OBVIOUS
<1> HIDE DEF Init
<1> QED BY <1>2, <1>3, <1>4, <1>5, <1>6, <1>7, <1>8, <1>9 DEF TypeOK

\* A window command keeps the type of the router's queue.
LEMMA SendType ==
  ASSUME TypeOK, NEW t, NEW s, NEW e \in Nat, SendToPage(t, s, e),
         \/ t = "nav" /\ s \in Sites
         \/ t \in {"local", "input", "resize", "host", "stop", "shutdown"} /\ s = None
  PROVE  inbox' \in Seq(WindowMsg \cup ReadyMsg)
<1>1. [type |-> t, site |-> s, epoch |-> e] \in WindowMsg
  BY DEF WindowMsg, ChildMsg, NavMsg
<1> QED BY <1>1, AppendElements DEF SendToPage, TypeOK

\* A command sent to a renderer keeps the type of the pipes.
LEMMA SentType ==
  ASSUME TypeOK, NEW r \in [Pids -> RouterRenderer], NEW c \in Pids \cup {None},
         NEW m \in ChildMsg
  PROVE  sent(to_child, r, c, m) \in [Pids -> Seq(ChildMsg)]
<1>1. CASE c # None /\ r[c].pid \in alive
  <2>1. r[c].pid \in Pids /\ to_child[r[c].pid] \in Seq(ChildMsg)
    BY <1>1 DEF TypeOK
  <2>2. Append(to_child[r[c].pid], m) \in Seq(ChildMsg)
    BY <2>1, AppendElements
  <2> QED BY <1>1, <2>1, <2>2 DEF sent, TypeOK
<1>2. CASE ~(c # None /\ r[c].pid \in alive)
  BY <1>2 DEF sent, TypeOK
<1> QED BY <1>1, <1>2

\* Killing processes keeps the types of the processes and of their pipes.
LEMMA ReapType ==
  ASSUME TypeOK, NEW S, NEW q \in [Pids -> Seq(ChildMsg)], Reap(S, q)
  PROVE  /\ alive' \in SUBSET Pids /\ child' \in [Pids -> Child]
         /\ to_child' \in [Pids -> Seq(ChildMsg)]
<1>1. NoChild \in Child
  BY DEF NoChild, Child
<1>2. <<>> \in Seq(ChildMsg)
  OBVIOUS
<1>3. alive' \in SUBSET Pids
  BY DEF Reap, TypeOK
<1>4. child' \in [Pids -> Child]
  BY <1>1 DEF Reap, TypeOK
<1>5. to_child' \in [Pids -> Seq(ChildMsg)]
  BY <1>2 DEF Reap, TypeOK
<1> QED BY <1>3, <1>4, <1>5

\* A swap keeps the router's types.
LEMMA SwapType ==
  ASSUME TypeOK, NEW c \in Pids \cup {None}, NEW h \in HostTable,
         NEW r \in [Pids -> RouterRenderer], NEW lost,
         NEW s \in Sites, NEW e \in Nat, NEW prev \in Sites \cup {None},
         SwapTo(c, h, r, lost, s, e, prev)
  PROVE  /\ active' \in Pids \cup {None} /\ host' \in HostTable
         /\ renderers' \in [Pids -> RouterRenderer]
         /\ alive' \in SUBSET Pids /\ child' \in [Pids -> Child]
         /\ to_child' \in [Pids -> Seq(ChildMsg)]
<1> DEFINE releases == prev # None /\ active # c
           freed == IF releases THEN released_id(h, prev) ELSE None
           gone == lost \cup (IF freed = None THEN {} ELSE {r[freed].pid})
           cmd == [type |-> "nav", site |-> s, epoch |-> e]
<1>1. active' \in Pids \cup {None}
  BY DEF SwapTo
<1>2. host' \in HostTable
  <2>1. prev # None => release(h, prev) \in HostTable
    BY HostTypes
  <2> QED BY <2>1 DEF SwapTo
<1>3. freed \in Pids \cup {None}
  BY HostTypes
<1>4. renderers' \in [Pids -> RouterRenderer]
  <2>1. renderers' = IF freed = None THEN r ELSE [r EXCEPT ![freed] = NoRenderer]
    BY DEF SwapTo
  <2>2. NoRenderer \in RouterRenderer
    BY DEF NoRenderer, RouterRenderer
  <2> HIDE DEF freed
  <2> QED BY <2>1, <2>2, <1>3
<1>5. cmd \in ChildMsg
  BY DEF ChildMsg, NavMsg
<1>6. Reap(gone, sent(to_child, r, c, cmd))
  BY DEF SwapTo
<1>7. sent(to_child, r, c, cmd) \in [Pids -> Seq(ChildMsg)]
  BY <1>5, SentType
<1> HIDE DEF gone, cmd, freed
<1> QED BY <1>1, <1>2, <1>4, <1>6, <1>7, ReapType

\* The window's steps.
LEMMA WindowTypeOK == TypeOK /\ WindowStep => TypeOK'
<1> SUFFICES ASSUME TypeOK, WindowStep PROVE TypeOK'
  OBVIOUS
<1> USE DEF windowVars, routerVars, childVars
<1>1. ASSUME NEW t, NEW s, pump_navigation_command(t, s),
             (t = "nav" /\ s \in Sites) \/ (t = "local" /\ s = None)
      PROVE  TypeOK'
  <2>0. nav_gen + 1 \in Nat /\ SendToPage(t, s, nav_gen + 1)
    BY <1>1 DEF pump_navigation_command, TypeOK
  <2>1. inbox' \in Seq(WindowMsg \cup ReadyMsg)
    BY <1>1, <2>0, SendType
  <2>2. nav_gen' \in Nat /\ nav_in_flight' \in BOOLEAN
    BY <1>1 DEF pump_navigation_command, TypeOK
  <2> QED BY <1>1, <2>1, <2>2 DEF pump_navigation_command, TypeOK
<1>2. CASE pump_input_command
  <2>1. inbox' \in Seq(WindowMsg \cup ReadyMsg)
    BY <1>2, SendType DEF pump_input_command, TypeOK
  <2> QED BY <1>2, <2>1 DEF pump_input_command, TypeOK
<1>3. CASE Resize
  <2>1. inbox' \in Seq(WindowMsg \cup ReadyMsg)
    BY <1>3, SendType DEF Resize, TypeOK
  <2> QED BY <1>3, <2>1 DEF Resize, TypeOK
<1>4. CASE pump_host_command
  <2>0. nav_gen + 1 \in Nat /\ SendToPage("host", None, nav_gen + 1)
    BY <1>4 DEF pump_host_command, TypeOK
  <2>1. inbox' \in Seq(WindowMsg \cup ReadyMsg) /\ nav_gen' \in Nat
    BY <1>4, <2>0, SendType DEF pump_host_command
  <2> QED BY <1>4, <2>1 DEF pump_host_command, TypeOK
<1>5. CASE trigger_stop
  <2>1. inbox' \in Seq(WindowMsg \cup ReadyMsg)
    BY <1>5, SendType DEF trigger_stop, TypeOK
  <2>2. nav_in_flight' \in BOOLEAN
    BY <1>5 DEF trigger_stop
  <2> QED BY <1>5, <2>1, <2>2 DEF trigger_stop, TypeOK
<1>6. CASE CloseWindow
  <2>1. inbox' \in Seq(WindowMsg \cup ReadyMsg)
    BY <1>6, SendType DEF CloseWindow, TypeOK
  <2>2. open' \in BOOLEAN
    BY <1>6, Zenon DEF CloseWindow
  <2>3. from_page' \in Seq(Frame)
    BY <1>6 DEF CloseWindow
  <2> QED BY <1>6, <2>1, <2>2, <2>3 DEF CloseWindow, TypeOK
<1>7. CASE DrainFromPage
  <2>1. from_page[Len(from_page)] \in Frame
    BY <1>7 DEF DrainFromPage, TypeOK
  <2>2. shown' \in Frame
    BY <1>7, <2>1 DEF DrainFromPage, TypeOK
  <2>3. nav_in_flight' \in BOOLEAN /\ from_page' \in Seq(Frame)
    BY <1>7 DEF DrainFromPage
  <2> QED BY <1>7, <2>2, <2>3 DEF DrainFromPage, TypeOK
<1> QED BY <1>1, <1>2, <1>3, <1>4, <1>5, <1>6, <1>7
        DEF WindowStep, Navigate, NavigateLocal

\* What the router finds at the head of its queue.
LEMMA ReceivedType ==
  ASSUME TypeOK, NEW types, Received(types)
  PROVE  /\ inbox' \in Seq(WindowMsg \cup ReadyMsg)
         /\ Head(inbox).type # "ready" => Head(inbox) \in WindowMsg
         /\ Head(inbox).type = "ready" => Head(inbox) \in ReadyMsg
<1>1. inbox # <<>> /\ inbox \in Seq(WindowMsg \cup ReadyMsg) /\ inbox' = Tail(inbox)
  BY DEF Received, TypeOK
<1>2. Head(inbox) \in WindowMsg \cup ReadyMsg /\ Tail(inbox) \in Seq(WindowMsg \cup ReadyMsg)
  BY <1>1, HeadTail
<1>3. \A m \in WindowMsg : m.type # "ready"
  BY DEF WindowMsg, ChildMsg, NavMsg
<1>4. \A m \in ReadyMsg : m.type = "ready"
  BY DEF ReadyMsg
<1> QED BY <1>1, <1>2, <1>3, <1>4

\* An error frame keeps the type of the window's queue.
LEMMA ErrorFrameType ==
  ASSUME TypeOK, NEW e \in Nat
  PROVE  error_frame(e) \in Seq(Frame)
<1>1. [epoch |-> e, doc |-> e] \in Frame
  BY DEF Frame
<1> QED BY <1>1, AppendElements DEF error_frame, TypeOK

\* The site of the active renderer.
LEMMA ActiveSiteType ==
  ASSUME TypeOK
  PROVE  active_site \in Sites \cup {None}
  BY DEF active_site, TypeOK, RouterRenderer

\* The router's steps.
LEMMA RouterTypeOK == TypeOK /\ RouterStep => TypeOK'
<1> SUFFICES ASSUME TypeOK, RouterStep PROVE TypeOK'
  OBVIOUS
<1> USE DEF windowVars, routerVars, childVars
<1>0. NoPending \in PendingSwap
  BY DEF NoPending, PendingSwap
<1>1. CASE RouteToActive
  <2>1. inbox' \in Seq(WindowMsg \cup ReadyMsg) /\ Head(inbox) \in ChildMsg
    BY <1>1, ReceivedType DEF RouteToActive, Received, CmdTypes, WindowMsg
  <2>2. to_child' \in [Pids -> Seq(ChildMsg)]
    BY <1>1, <2>1, SentType DEF RouteToActive, TypeOK
  <2> QED BY <1>1, <2>1, <2>2 DEF RouteToActive, TypeOK
<1>2. CASE RouteCrossSite
  <2> DEFINE m == Head(inbox)
  <2>1. /\ inbox' \in Seq(WindowMsg \cup ReadyMsg)
        /\ m.site \in Sites /\ m.epoch \in Nat /\ m.site # active_site
    BY <1>2, ReceivedType DEF RouteCrossSite, Received, WindowMsg, ChildMsg, NavMsg
  <2>2. active_site \in Sites \cup {None}
    BY ActiveSiteType
  <2>3. CASE has_record(host, m.site)
    <3> DEFINE c == host[m.site].child_id
               h == lookup_or_spawn(host, m.site, c)
    <3>1. reuse_existing_renderer(m)
      BY <1>2, <2>3 DEF RouteCrossSite
    <3>2. c \in Pids \cup {None}
      BY <2>1 DEF TypeOK, HostTable, RendererRecord
    <3>3. h \in HostTable
      BY <2>1, <3>2, HostTypes DEF TypeOK
    <3>4. SwapTo(c, h, renderers, {}, m.site, m.epoch, active_site)
      BY <3>1 DEF reuse_existing_renderer
    <3>5. renderers \in [Pids -> RouterRenderer]
      BY DEF TypeOK
    <3>6. /\ active' \in Pids \cup {None} /\ host' \in HostTable
          /\ renderers' \in [Pids -> RouterRenderer]
          /\ alive' \in SUBSET Pids /\ child' \in [Pids -> Child]
          /\ to_child' \in [Pids -> Seq(ChildMsg)]
      <4> HIDE DEF c, h, m
      <4> QED BY <2>1, <2>2, <3>2, <3>3, <3>4, <3>5, SwapType
    <3>7. UNCHANGED <<pending, next_swap_id, workers, from_page, wire>>
      BY <3>1 DEF reuse_existing_renderer
    <3>8. UNCHANGED <<open, nav_gen, nav_in_flight, shown, running>>
      BY <1>2 DEF RouteCrossSite
    <3> QED BY <2>1, <3>6, <3>7, <3>8 DEF TypeOK
  <2>4. CASE ~has_record(host, m.site)
    <3>1. start_spawn_worker(m)
      BY <1>2, <2>4 DEF RouteCrossSite
    <3>2. next_swap_id' \in Nat
      BY <3>1 DEF start_spawn_worker, TypeOK
    <3>3. pending' \in PendingSwap
      <4>1. [swap_id |-> next_swap_id + 1, cancelled |-> FALSE] \in PendingSwap
        BY DEF PendingSwap, TypeOK
      <4> QED BY <1>0, <3>1, <4>1 DEF start_spawn_worker
    <3>4. [swap_id |-> next_swap_id + 1, site |-> m.site, epoch |-> m.epoch,
           prev |-> active_site, pid |-> None] \in SpawnJob
      BY <2>1, <2>2 DEF SpawnJob, TypeOK
    <3>5. workers' \in SUBSET SpawnJob
      BY <3>1, <3>4 DEF start_spawn_worker, TypeOK
    <3>6. from_page' \in Seq(Frame)
      BY <2>1, <3>1, ErrorFrameType DEF start_spawn_worker, TypeOK
    <3>7. UNCHANGED <<host, renderers, active, alive, child, to_child, wire>>
      BY <3>1 DEF start_spawn_worker
    <3>8. UNCHANGED <<open, nav_gen, nav_in_flight, shown, running>>
      BY <1>2 DEF RouteCrossSite
    <3> QED BY <2>1, <3>2, <3>3, <3>5, <3>6, <3>7, <3>8 DEF TypeOK
  <2> QED BY <2>3, <2>4
<1>3. CASE handle_stop_load
  <2>1. inbox' \in Seq(WindowMsg \cup ReadyMsg)
    BY <1>3, ReceivedType DEF handle_stop_load
  <2>2. pending' \in PendingSwap
    BY <1>3 DEF handle_stop_load, TypeOK, PendingSwap
  <2>3. /\ active' \in Pids \cup {None} /\ host' \in HostTable
        /\ renderers' \in [Pids -> RouterRenderer]
        /\ alive' \in SUBSET Pids /\ child' \in [Pids -> Child]
        /\ to_child' \in [Pids -> Seq(ChildMsg)]
    <3>1. CASE active_site = None
      BY <1>3, <3>1 DEF handle_stop_load, TypeOK
    <3>2. CASE active_site # None
      <4>1. active_site \in Sites /\ active \in Pids
        BY <3>2, ActiveSiteType DEF active_site, TypeOK
      <4>2. host' \in HostTable
        BY <1>3, <3>2, <4>1, HostTypes DEF handle_stop_load, TypeOK
      <4>3. renderers' \in [Pids -> RouterRenderer]
        <5>1. NoRenderer \in RouterRenderer
          BY DEF RouterRenderer, NoRenderer
        <5>2. renderers' = [renderers EXCEPT ![active] = NoRenderer]
          BY <1>3, <3>2 DEF handle_stop_load
        <5> QED BY <4>1, <5>1, <5>2 DEF TypeOK
      <4>4. Reap({renderers[active].pid}, to_child) /\ to_child \in [Pids -> Seq(ChildMsg)]
        BY <1>3, <3>2 DEF handle_stop_load, TypeOK
      <4>5. active' = None
        BY <1>3 DEF handle_stop_load
      <4> QED BY <4>2, <4>3, <4>4, <4>5, ReapType
    <3> QED BY <3>1, <3>2
  <2> QED BY <1>3, <2>1, <2>2, <2>3 DEF handle_stop_load, TypeOK
<1>4. CASE RouteShutdown
  <2>1. host' \in HostTable
    BY <1>4 DEF RouteShutdown, EmptyHost, HostTable, NoRecord, RendererRecord
  <2>2. renderers' \in [Pids -> RouterRenderer]
    BY <1>4 DEF RouteShutdown, RouterRenderer, NoRenderer
  <2>3. /\ alive' \in SUBSET Pids /\ child' \in [Pids -> Child]
        /\ to_child' \in [Pids -> Seq(ChildMsg)]
    <3>1. /\ Reap(OwnedPids \cup ReadyPids, to_child)
          /\ to_child \in [Pids -> Seq(ChildMsg)]
      BY <1>4 DEF RouteShutdown, TypeOK
    <3> QED BY <3>1, ReapType
  <2>4. wire' \in [Pids -> Seq(Frame)] /\ inbox' \in Seq(WindowMsg \cup ReadyMsg)
    BY <1>4 DEF RouteShutdown, TypeOK
  <2>5. running' \in BOOLEAN
    BY <1>4, Zenon DEF RouteShutdown
  <2>6. active' \in Pids \cup {None} /\ pending' \in PendingSwap
    BY <1>4, <1>0 DEF RouteShutdown
  <2> QED BY <1>4, <2>1, <2>2, <2>3, <2>4, <2>5, <2>6 DEF RouteShutdown, TypeOK
<1>5. CASE DiscardReady
  <2>1. inbox' \in Seq(WindowMsg \cup ReadyMsg)
    BY <1>5, ReceivedType DEF DiscardReady
  <2>2. pending' \in PendingSwap
    BY <1>0, <1>5 DEF DiscardReady, TypeOK
  <2>3. /\ alive' \in SUBSET Pids /\ child' \in [Pids -> Child]
        /\ to_child' \in [Pids -> Seq(ChildMsg)]
    <3>1. Reap({Head(inbox).pid}, to_child) /\ to_child \in [Pids -> Seq(ChildMsg)]
      BY <1>5 DEF DiscardReady, TypeOK
    <3> QED BY <3>1, ReapType
  <2>4. wire' \in [Pids -> Seq(Frame)]
    BY <1>5 DEF DiscardReady, TypeOK
  <2> QED BY <1>5, <2>1, <2>2, <2>3, <2>4 DEF DiscardReady, TypeOK
<1>6. CASE SpawnFailed
  <2>1. inbox' \in Seq(WindowMsg \cup ReadyMsg) /\ Head(inbox).epoch \in Nat
    BY <1>6, ReceivedType DEF SpawnFailed, Received, ReadyMsg
  <2>2. from_page' \in Seq(Frame) /\ pending' \in PendingSwap
    BY <1>0, <1>6, <2>1, ErrorFrameType DEF SpawnFailed
  <2> QED BY <1>6, <2>1, <2>2 DEF SpawnFailed, TypeOK
<1>7. CASE ActivateReady
  <2> DEFINE m == Head(inbox)
             c == spawned_id(host, m.site, m.pid)
             r == [renderers EXCEPT ![c] = [site |-> m.site, pid |-> m.pid]]
             h == lookup_or_spawn(host, m.site, m.pid)
  <2>1. /\ inbox' \in Seq(WindowMsg \cup ReadyMsg)
        /\ m.site \in Sites /\ m.epoch \in Nat /\ m.prev \in Sites \cup {None}
        /\ m.pid \in Pids \cup {None}
    BY <1>7, ReceivedType DEF ActivateReady, Received, ReadyMsg
  <2>2. c \in Pids \cup {None} /\ h \in HostTable
    BY <2>1, HostTypes DEF TypeOK
  <2>3. r \in [Pids -> RouterRenderer]
    BY <2>1 DEF TypeOK, RouterRenderer
  <2>4. SwapTo(c, h, r, {renderers[c].pid} \ {m.pid}, m.site, m.epoch, m.prev)
    BY <1>7 DEF ActivateReady
  <2> HIDE DEF m, c, r, h
  <2>5. /\ active' \in Pids \cup {None} /\ host' \in HostTable
        /\ renderers' \in [Pids -> RouterRenderer]
        /\ alive' \in SUBSET Pids /\ child' \in [Pids -> Child]
        /\ to_child' \in [Pids -> Seq(ChildMsg)]
    BY <2>1, <2>2, <2>3, <2>4, SwapType
  <2> QED BY <1>0, <1>7, <2>1, <2>5 DEF ActivateReady, TypeOK
<1> QED BY <1>1, <1>2, <1>3, <1>4, <1>5, <1>6, <1>7 DEF RouterStep

\* The spawn workers' steps.
LEMMA WorkerTypeOK == TypeOK /\ SpawnWorker => TypeOK'
<1> SUFFICES ASSUME TypeOK, NEW j \in workers, WorkerStep(j) PROVE TypeOK'
  BY DEF SpawnWorker
<1> USE DEF windowVars, routerVars, childVars
<1>1. Ready(j) \in WindowMsg \cup ReadyMsg
  BY DEF TypeOK, SpawnJob, Ready, ReadyMsg
<1>2. inbox \in Seq(WindowMsg \cup ReadyMsg) /\ workers \in SUBSET SpawnJob
  BY DEF TypeOK
<1>3. CASE Connect(j)
  <2>1. PICK p \in Pids :
          /\ workers' = (workers \ {j}) \cup {[j EXCEPT !.pid = p]}
          /\ alive' = alive \cup {p}
          /\ child' = [child EXCEPT ![p] = [st |-> "building", epoch |-> 0, doc |-> j.epoch]]
          /\ to_child' = [to_child EXCEPT ![p] = <<>>]
    BY <1>3 DEF Connect
  <2>2. [j EXCEPT !.pid = p] \in SpawnJob
    BY <1>2 DEF SpawnJob
  <2>3. [st |-> "building", epoch |-> 0, doc |-> j.epoch] \in Child
    BY <1>2 DEF Child, SpawnJob
  <2>4. child' \in [Pids -> Child]
    BY <2>1, <2>3 DEF TypeOK
  <2>5. to_child' \in [Pids -> Seq(ChildMsg)]
    <3>1. <<>> \in Seq(ChildMsg) OBVIOUS
    <3> QED BY <2>1, <3>1 DEF TypeOK
  <2>6. alive' \in SUBSET Pids
    BY <2>1 DEF TypeOK
  <2>7. workers' \in SUBSET SpawnJob
    BY <1>2, <2>1, <2>2
  <2> QED BY <1>3, <2>4, <2>5, <2>6, <2>7 DEF Connect, TypeOK
<1>4. CASE Report(j)
  <2>1. inbox' \in Seq(WindowMsg \cup ReadyMsg)
    BY <1>1, <1>2, <1>4, AppendElements DEF Report
  <2> QED BY <1>2, <1>4, <2>1 DEF Report, TypeOK
<1>5. CASE ReportTooLate(j)
  <2>1. /\ alive' \in SUBSET Pids /\ child' \in [Pids -> Child]
        /\ to_child' \in [Pids -> Seq(ChildMsg)]
    <3>1. Reap({j.pid}, to_child) /\ to_child \in [Pids -> Seq(ChildMsg)]
      BY <1>5 DEF ReportTooLate, TypeOK
    <3> QED BY <3>1, ReapType
  <2>2. wire' \in [Pids -> Seq(Frame)]
    BY <1>5 DEF ReportTooLate, TypeOK
  <2> QED BY <1>2, <1>5, <2>1, <2>2 DEF ReportTooLate, TypeOK
<1> QED BY <1>3, <1>4, <1>5 DEF WorkerStep

\* A committed frame keeps the type of the pipe.
LEMMA CommitType ==
  ASSUME TypeOK, NEW p \in Pids, NEW e \in Nat, NEW d \in Nat, Commit(p, e, d)
  PROVE  wire' \in [Pids -> Seq(Frame)]
<1>1. [epoch |-> e, doc |-> d] \in Frame
  BY DEF Frame
<1>2. Append(wire[p], [epoch |-> e, doc |-> d]) \in Seq(Frame)
  BY <1>1, AppendElements DEF TypeOK
<1> QED BY <1>2 DEF Commit, TypeOK

\* The renderers' and the readers' steps.
LEMMA ChildTypeOK == TypeOK /\ ChildStep => TypeOK'
<1> SUFFICES ASSUME TypeOK, NEW p \in Pids,
                    ChildRuns(p) \/ ChildBuildFails(p) \/ ChildTick(p)
                    \/ ChildCrash(p) \/ ReaderForwards(p)
             PROVE  TypeOK'
  BY DEF ChildStep
<1> USE DEF windowVars, routerVars, childVars
<1>0. /\ child[p] \in Child /\ child[p].epoch \in Nat /\ child[p].doc \in Nat
      /\ child \in [Pids -> Child] /\ to_child \in [Pids -> Seq(ChildMsg)]
  BY DEF TypeOK, Child
<1>1. CASE ChildFirstPaint(p)
  <2>1. wire' \in [Pids -> Seq(Frame)]
    BY <1>0, <1>1, CommitType DEF ChildFirstPaint
  <2>2. child' \in [Pids -> Child]
    BY <1>0, <1>1 DEF ChildFirstPaint, Child
  <2> QED BY <1>1, <2>1, <2>2 DEF ChildFirstPaint, TypeOK
<1>2. CASE ChildBuildFails(p)
  <2>1. wire' \in [Pids -> Seq(Frame)]
    BY <1>0, <1>2, CommitType DEF ChildBuildFails
  <2>2. child' \in [Pids -> Child]
    BY <1>0, <1>2 DEF ChildBuildFails, Child
  <2>3. to_child' \in [Pids -> Seq(ChildMsg)]
    <3>1. <<>> \in Seq(ChildMsg) OBVIOUS
    <3> QED BY <1>0, <1>2, <3>1 DEF ChildBuildFails
  <2>4. alive' \in SUBSET Pids
    BY <1>2 DEF ChildBuildFails, TypeOK
  <2> QED BY <1>2, <2>1, <2>2, <2>3, <2>4 DEF ChildBuildFails, TypeOK
<1>3. CASE ChildServes(p)
  <2> DEFINE m == Head(to_child[p])
  <2>1. m \in ChildMsg /\ Tail(to_child[p]) \in Seq(ChildMsg)
    BY <1>0, <1>3, HeadTail DEF ChildServes
  <2>2. m.epoch \in Nat
    BY <2>1 DEF ChildMsg, NavMsg
  <2>3. to_child' \in [Pids -> Seq(ChildMsg)]
    BY <1>0, <1>3, <2>1 DEF ChildServes
  <2>4. wire' \in [Pids -> Seq(Frame)] /\ child' \in [Pids -> Child]
    <3> DEFINE doc == IF m.type \in {"nav", "local", "host"} THEN m.epoch ELSE child[p].doc
    <3>0. doc \in Nat
      BY <1>0, <2>2
    <3>1. CASE /\ Commit(p, m.epoch, doc)
               /\ child' = [child EXCEPT ![p].epoch = m.epoch, ![p].doc = doc]
      <4> HIDE DEF doc, m
      <4>1. wire' \in [Pids -> Seq(Frame)]
        BY <2>2, <3>0, <3>1, CommitType
      <4>2. child' \in [Pids -> Child]
        BY <1>0, <2>2, <3>0, <3>1 DEF Child
      <4> QED BY <4>1, <4>2
    <3>2. CASE /\ child' = [child EXCEPT ![p].epoch = m.epoch]
               /\ UNCHANGED wire
      <4> HIDE DEF doc, m
      <4>1. wire' \in [Pids -> Seq(Frame)]
        BY <3>2 DEF TypeOK
      <4>2. child' \in [Pids -> Child]
        BY <1>0, <2>2, <3>2 DEF Child
      <4> QED BY <4>1, <4>2
    <3> QED BY <1>3, <3>1, <3>2 DEF ChildServes
  <2> QED BY <1>3, <2>3, <2>4 DEF ChildServes, TypeOK
<1>4. CASE ChildTick(p)
  <2>1. wire' \in [Pids -> Seq(Frame)]
    BY <1>0, <1>4, CommitType DEF ChildTick
  <2> QED BY <1>4, <2>1 DEF ChildTick, TypeOK
<1>5. CASE ChildCrash(p)
  <2>1. Reap({p}, to_child)
    BY <1>5 DEF ChildCrash
  <2>2. /\ alive' \in SUBSET Pids /\ child' \in [Pids -> Child]
        /\ to_child' \in [Pids -> Seq(ChildMsg)]
    BY <1>0, <2>1, ReapType
  <2> QED BY <1>5, <2>2 DEF ChildCrash, TypeOK
<1>6. CASE ReaderForwards(p)
  <2>1. Head(wire[p]) \in Frame /\ Tail(wire[p]) \in Seq(Frame)
    BY <1>6, HeadTail DEF ReaderForwards, TypeOK
  <2>2. wire' \in [Pids -> Seq(Frame)]
    BY <1>6, <2>1 DEF ReaderForwards, TypeOK
  <2>3. from_page' \in Seq(Frame)
    <3>1. from_page \in Seq(Frame) /\ Append(from_page, Head(wire[p])) \in Seq(Frame)
      BY <2>1, AppendElements DEF TypeOK
    <3> QED BY <1>6, <3>1 DEF ReaderForwards
  <2> QED BY <1>6, <2>2, <2>3 DEF ReaderForwards, TypeOK
<1> QED BY <1>1, <1>2, <1>3, <1>4, <1>5, <1>6 DEF ChildRuns

\* Type correctness of the whole system: window, router, workers, renderer
\* processes, readers and the queues between them.
THEOREM TypeCorrect == Spec => []TypeOK
<1>1. TypeOK /\ [Next]_vars => TypeOK'
  <2> SUFFICES ASSUME TypeOK, [Next]_vars PROVE TypeOK'
    OBVIOUS
  <2>1. CASE UNCHANGED vars
    BY <2>1 DEF vars, TypeOK
  <2> QED BY <2>1, WindowTypeOK, RouterTypeOK, WorkerTypeOK, ChildTypeOK
          DEF Next, Terminated
<1> QED BY <1>1, InitTypeOK, PTL DEF Spec

-----------------------------------------------------------------------------
(* Coherence of the router's state, and the ownership of processes.            *)
(*                                                                             *)
(* RouterCoherent is not inductive: a renderer is inserted when its spawn      *)
(* result arrives, and that keeps the three views in agreement only if the     *)
(* captured previous site is the one active now (SwapReleasesWhatItReplaces),  *)
(* which in turn needs the swap ids of older jobs to be below the counter, and *)
(* only if the new process is not one the router already holds.                *)

IsReady(i) == inbox[i].type = "ready"

\* Swap ids are handed out in increasing order.
SwapIdsBelow ==
  /\ \A j \in workers : 0 < j.swap_id /\ j.swap_id <= next_swap_id
  /\ \A i \in DOMAIN inbox : IsReady(i) => 0 < inbox[i].swap_id
                                           /\ inbox[i].swap_id <= next_swap_id

\* The process of a waiting connection is held by nobody else.
ReadyIsFresh ==
  \A i \in DOMAIN inbox : (IsReady(i) /\ inbox[i].pid # None) =>
    /\ \A c \in Pids : renderers[c].pid # inbox[i].pid
    /\ \A k \in DOMAIN inbox : (IsReady(k) /\ k # i) => inbox[k].pid # inbox[i].pid

\* So is the process that a spawn worker holds.
WorkerIsFresh ==
  \A j \in workers : j.pid # None =>
    /\ \A c \in Pids : renderers[c].pid # j.pid
    /\ j.pid \notin ReadyPids
    /\ \A k \in workers : k # j => k.pid # j.pid

\* The inductive invariant.
IInv == /\ TypeOK /\ RouterCoherent /\ NoOrphanProcess
        /\ SwapReleasesWhatItReplaces /\ SwapIdsBelow /\ ReadyIsFresh
        /\ WorkerIsFresh

\* spawn_site_router establishes the invariant: one renderer, nothing pending.
LEMMA InitIInv == Init => IInv
<1> SUFFICES ASSUME Init PROVE IInv
  OBVIOUS
<1> USE HomeAssumption, NoneAssumption
<1>1. TypeOK
  BY InitTypeOK
<1>2. inbox = <<>> /\ workers = {} /\ pending.swap_id = 0 /\ active = First /\ alive = {First}
  BY DEF Init, NoPending
<1>3. /\ renderers[First] = [site |-> Home, pid |-> First]
      /\ \A c \in Pids : c # First => renderers[c] = NoRenderer
  BY DEF Init
<1>4. \A s \in Sites : host[s] = IF s = Home THEN [child_id |-> First, refcount |-> 1]
                                 ELSE NoRecord
  BY DEF Init, EmptyHost, lookup_or_spawn, has_record, NoRecord
<1>5. RouterCoherent
  BY <1>2, <1>3, <1>4 DEF RouterCoherent, NoRenderer
<1>6. NoOrphanProcess
  BY <1>2, <1>3 DEF NoOrphanProcess, OwnedPids
<1>7. SwapReleasesWhatItReplaces
  BY <1>2 DEF SwapReleasesWhatItReplaces
<1>8. SwapIdsBelow /\ ReadyIsFresh /\ WorkerIsFresh
  BY <1>2 DEF SwapIdsBelow, ReadyIsFresh, WorkerIsFresh
<1> QED BY <1>1, <1>5, <1>6, <1>7, <1>8 DEF IInv

\* The spawn results in the queue after the step were in it before, d places
\* further back (d = 1 when the router took a message).
Shift(d) ==
  \A i \in DOMAIN inbox' : inbox'[i].type = "ready" =>
    i + d \in DOMAIN inbox /\ inbox'[i] = inbox[i + d]

\* A window command moves no spawn result in the queue.
LEMMA SendShift ==
  ASSUME TypeOK, NEW t, NEW s, NEW e, t # "ready", SendToPage(t, s, e)
  PROVE  Shift(0) /\ ReadyPids \subseteq ReadyPids'
<1> DEFINE m == [type |-> t, site |-> s, epoch |-> e]
<1>1. inbox \in Seq(WindowMsg \cup ReadyMsg)
  BY DEF TypeOK
<1>2. CASE inbox' = inbox
  BY <1>1, <1>2 DEF Shift, ReadyPids
<1>3. CASE inbox' = Append(inbox, m)
  <2>1. m.type # "ready"
    OBVIOUS
  <2> HIDE DEF m
  <2>2. \A i \in DOMAIN inbox : i \in DOMAIN inbox' /\ inbox'[i] = inbox[i]
    BY <1>1, <1>3
  <2>3. \A i \in DOMAIN inbox' : (i \in DOMAIN inbox /\ inbox'[i] = inbox[i]) \/ inbox'[i] = m
    BY <1>1, <1>3
  <2>4. \A i \in DOMAIN inbox' : i \in Nat
    BY <1>1, <1>3
  <2>5. Shift(0)
    BY <2>1, <2>3, <2>4 DEF Shift
  <2>6. ReadyPids \subseteq ReadyPids'
    BY <2>2 DEF ReadyPids
  <2> QED BY <2>5, <2>6
<1> QED BY <1>2, <1>3 DEF SendToPage

\* Taking the head moves every other spawn result one place forward.
LEMMA TakeShift ==
  ASSUME TypeOK, inbox # <<>>, inbox' = Tail(inbox)
  PROVE  /\ Shift(1)
         /\ 1 \in DOMAIN inbox /\ Head(inbox) = inbox[1]
         /\ \A i \in DOMAIN inbox' : i + 1 \in DOMAIN inbox /\ i + 1 # 1
         /\ ReadyPids \subseteq ReadyPids' \cup
              (IF Head(inbox).type = "ready" THEN {Head(inbox).pid} ELSE {})
<1>1. inbox \in Seq(WindowMsg \cup ReadyMsg)
  BY DEF TypeOK
<1>2. /\ 1 \in DOMAIN inbox /\ Head(inbox) = inbox[1]
      /\ \A i \in DOMAIN inbox' : i + 1 \in DOMAIN inbox /\ i + 1 # 1 /\ inbox'[i] = inbox[i + 1]
  BY <1>1
<1>3. \A i \in DOMAIN inbox : i = 1 \/ (i - 1 \in DOMAIN inbox' /\ inbox'[i - 1] = inbox[i])
  BY <1>1
<1>4. Shift(1)
  BY <1>2 DEF Shift
<1>5. ReadyPids \subseteq ReadyPids' \cup
              (IF Head(inbox).type = "ready" THEN {Head(inbox).pid} ELSE {})
  BY <1>2, <1>3 DEF ReadyPids
<1> QED BY <1>2, <1>4, <1>5

\* Swap ids stay below the counter when no spawn result or job is added.
LEMMA IdsKept ==
  ASSUME IInv, NEW d \in {0, 1}, Shift(d), workers' \subseteq workers,
         next_swap_id' \in Nat, next_swap_id <= next_swap_id', TypeOK'
  PROVE  SwapIdsBelow'
<1>1. \A j \in workers' : 0 < j.swap_id /\ j.swap_id <= next_swap_id'
  BY DEF IInv, SwapIdsBelow, TypeOK, SpawnJob
<1>2. ASSUME NEW i \in DOMAIN inbox', inbox'[i].type = "ready"
      PROVE  0 < inbox'[i].swap_id /\ inbox'[i].swap_id <= next_swap_id'
  <2>1. i + d \in DOMAIN inbox /\ inbox'[i] = inbox[i + d]
    BY <1>2 DEF Shift
  <2>2. 0 < inbox[i + d].swap_id /\ inbox[i + d].swap_id <= next_swap_id
    BY <1>2, <2>1 DEF IInv, SwapIdsBelow, IsReady
  <2>3. inbox[i + d].swap_id \in Nat /\ next_swap_id \in Nat
    <3>1. inbox'[i] \in WindowMsg \cup ReadyMsg
      BY <1>2 DEF TypeOK
    <3>2. inbox'[i] \in ReadyMsg
      BY <1>2, <3>1 DEF WindowMsg, ChildMsg, NavMsg
    <3> QED BY <2>1, <3>2 DEF ReadyMsg, IInv, TypeOK
  <2> QED BY <2>1, <2>2, <2>3
<1> QED BY <1>1, <1>2 DEF SwapIdsBelow, IsReady

\* Waiting processes stay unshared when no renderer is added.
LEMMA FreshKept ==
  ASSUME IInv, NEW d \in {0, 1}, Shift(d), TypeOK',
         \A c \in Pids : renderers'[c].pid \in {renderers[c].pid, None}
  PROVE  ReadyIsFresh'
<1> SUFFICES ASSUME NEW i \in DOMAIN inbox', inbox'[i].type = "ready", inbox'[i].pid # None
             PROVE  /\ \A c \in Pids : renderers'[c].pid # inbox'[i].pid
                    /\ \A k \in DOMAIN inbox' : (inbox'[k].type = "ready" /\ k # i)
                                                  => inbox'[k].pid # inbox'[i].pid
  BY DEF ReadyIsFresh, IsReady
<1>1. i + d \in DOMAIN inbox /\ inbox'[i] = inbox[i + d]
  BY DEF Shift
<1>2. /\ \A c \in Pids : renderers[c].pid # inbox[i + d].pid
      /\ \A k \in DOMAIN inbox : (inbox[k].type = "ready" /\ k # i + d)
                                   => inbox[k].pid # inbox[i + d].pid
  BY <1>1 DEF IInv, ReadyIsFresh, IsReady
<1>3. ASSUME NEW k \in DOMAIN inbox', inbox'[k].type = "ready", k # i
      PROVE  inbox'[k].pid # inbox'[i].pid
  <2>1. k + d \in DOMAIN inbox /\ inbox'[k] = inbox[k + d]
    BY <1>3 DEF Shift
  <2>2. k \in Nat /\ i \in Nat
    BY DEF TypeOK
  <2>3. k + d # i + d
    BY <1>3, <2>2
  <2> QED BY <1>1, <1>2, <1>3, <2>1, <2>3
<1> QED BY <1>1, <1>2, <1>3

\* What workers hold stays unshared when no renderer, spawn result or connection
\* is added.
LEMMA HeldKept ==
  ASSUME IInv, NEW d \in {0, 1}, Shift(d),
         \A j \in workers' : j.pid # None => j \in workers,
         \A c \in Pids : renderers'[c].pid \in {renderers[c].pid, None}
  PROVE  WorkerIsFresh'
<1>1. ReadyPids' \subseteq ReadyPids
  BY DEF ReadyPids, Shift
<1> SUFFICES ASSUME NEW j \in workers', j.pid # None
             PROVE  /\ \A c \in Pids : renderers'[c].pid # j.pid
                    /\ j.pid \notin ReadyPids'
                    /\ \A k \in workers' : k # j => k.pid # j.pid
  BY DEF WorkerIsFresh
<1>2. /\ \A c \in Pids : renderers[c].pid # j.pid
      /\ j.pid \notin ReadyPids
      /\ \A k \in workers : k # j => k.pid # j.pid
  BY DEF IInv, WorkerIsFresh
<1> QED BY <1>1, <1>2

\* The live swap's previous site stays current while the active site does.
LEMMA SwapKept ==
  ASSUME IInv, NEW d \in {0, 1}, Shift(d), workers' \subseteq workers,
         (pending'.swap_id # 0 /\ ~pending'.cancelled)
            => pending' = pending /\ active_site' = active_site
  PROVE  SwapReleasesWhatItReplaces'
<1> SUFFICES ASSUME pending'.swap_id # 0, ~pending'.cancelled
             PROVE  /\ \A j \in workers' : j.swap_id = pending'.swap_id =>
                         j.prev = active_site' /\ j.site # active_site'
                    /\ \A i \in DOMAIN inbox' :
                         (inbox'[i].type = "ready" /\ inbox'[i].swap_id = pending'.swap_id) =>
                           inbox'[i].prev = active_site' /\ inbox'[i].site # active_site'
  BY DEF SwapReleasesWhatItReplaces
<1>1. pending' = pending /\ active_site' = active_site
  OBVIOUS
<1>2. /\ \A j \in workers : j.swap_id = pending.swap_id =>
           j.prev = active_site /\ j.site # active_site
      /\ \A i \in DOMAIN inbox :
           (inbox[i].type = "ready" /\ inbox[i].swap_id = pending.swap_id) =>
             inbox[i].prev = active_site /\ inbox[i].site # active_site
  BY <1>1 DEF IInv, SwapReleasesWhatItReplaces
<1> HIDE DEF active_site
<1>3. ASSUME NEW i \in DOMAIN inbox', inbox'[i].type = "ready",
             inbox'[i].swap_id = pending'.swap_id
      PROVE  inbox'[i].prev = active_site' /\ inbox'[i].site # active_site'
  BY <1>1, <1>2, <1>3 DEF Shift
<1> QED BY <1>1, <1>2, <1>3

\* A step that leaves the router's own state alone.
LEMMA QuietStep ==
  ASSUME IInv, TypeOK', NEW d \in {0, 1}, Shift(d), ReadyPids \subseteq ReadyPids',
         UNCHANGED <<host, renderers, active, pending, next_swap_id, workers>>,
         alive' \subseteq alive
  PROVE  IInv'
<1>1. RouterCoherent'
  BY DEF IInv, RouterCoherent
<1>2. NoOrphanProcess'
  <2>1. OwnedPids' = OwnedPids /\ WorkerPids' = WorkerPids
    BY DEF OwnedPids, WorkerPids
  <2> QED BY <2>1 DEF IInv, NoOrphanProcess
<1>3. next_swap_id' \in Nat /\ next_swap_id <= next_swap_id'
  BY DEF TypeOK
<1>4. SwapIdsBelow'
  BY <1>3, IdsKept
<1>5. ReadyIsFresh' /\ WorkerIsFresh'
  BY FreshKept, HeldKept
<1>6. SwapReleasesWhatItReplaces'
  BY SwapKept DEF active_site
<1> QED BY <1>1, <1>2, <1>4, <1>5, <1>6 DEF IInv

\* The window's steps keep the invariant.
LEMMA WindowIInv == IInv /\ WindowStep => IInv'
<1> SUFFICES ASSUME IInv, WindowStep PROVE IInv'
  OBVIOUS
<1>1. TypeOK /\ TypeOK'
  BY WindowTypeOK DEF IInv
<1>2. UNCHANGED <<host, renderers, active, pending, next_swap_id, workers, alive>>
  BY DEF WindowStep, Navigate, NavigateLocal, pump_navigation_command,
         pump_input_command, Resize, pump_host_command, trigger_stop, CloseWindow,
         DrainFromPage, routerVars, childVars
<1>3. Shift(0) /\ ReadyPids \subseteq ReadyPids'
  <2>1. CASE DrainFromPage
    <3>1. inbox' = inbox
      BY <2>1 DEF DrainFromPage
    <3>2. ReadyPids' = ReadyPids
      BY <3>1 DEF ReadyPids
    <3>3. \A i \in DOMAIN inbox : i + 0 = i
      BY <1>1 DEF TypeOK
    <3>4. Shift(0)
      BY <3>1, <3>3 DEF Shift
    <3> QED BY <3>2, <3>4
  <2>2. CASE \E t, st, e : t # "ready" /\ SendToPage(t, st, e)
    BY <1>1, <2>2, SendShift
  <2>3. ASSUME NEW t, NEW st, pump_navigation_command(t, st), t \in {"nav", "local"}
        PROVE  \E tt, ss, e : tt # "ready" /\ SendToPage(tt, ss, e)
    BY <2>3 DEF pump_navigation_command
  <2> QED BY <2>1, <2>2, <2>3
          DEF WindowStep, Navigate, NavigateLocal, pump_input_command, Resize,
              pump_host_command, trigger_stop, CloseWindow
<1> QED BY <1>1, <1>2, <1>3, QuietStep

\* The renderers' and readers' steps keep the invariant.
LEMMA ChildIInv == IInv /\ ChildStep => IInv'
<1> SUFFICES ASSUME IInv, ChildStep PROVE IInv'
  OBVIOUS
<1>1. TypeOK /\ TypeOK'
  BY ChildTypeOK DEF IInv
<1>2. UNCHANGED <<inbox, host, renderers, active, pending, next_swap_id, workers>>
  BY DEF ChildStep, ChildRuns, ChildFirstPaint, ChildBuildFails, ChildServes,
         ChildTick, ChildCrash, ReaderForwards, routerVars
<1>3. alive' \subseteq alive
  BY DEF ChildStep, ChildRuns, ChildFirstPaint, ChildBuildFails, ChildServes,
         ChildTick, ChildCrash, ReaderForwards, Reap
<1>4. Shift(0) /\ ReadyPids \subseteq ReadyPids'
  BY <1>1, <1>2 DEF Shift, ReadyPids, TypeOK
<1> QED BY <1>1, <1>2, <1>3, <1>4, QuietStep

\* A spawn worker's steps keep the invariant.
LEMMA WorkerIInv == IInv /\ SpawnWorker => IInv'
<1> SUFFICES ASSUME IInv, NEW j \in workers, WorkerStep(j) PROVE IInv'
  BY DEF SpawnWorker
<1> USE NoneAssumption
<1>1. TypeOK /\ TypeOK'
  BY WorkerTypeOK DEF IInv, SpawnWorker
<1>2. inbox \in Seq(WindowMsg \cup ReadyMsg) /\ workers \in SUBSET SpawnJob
  BY <1>1 DEF TypeOK
<1>3. /\ UNCHANGED <<host, renderers, active, pending, next_swap_id>>
      /\ OwnedPids' = OwnedPids /\ active_site' = active_site
  BY DEF WorkerStep, Connect, Report, ReportTooLate, routerVars, OwnedPids, active_site
<1>4. RouterCoherent'
  BY <1>3 DEF IInv, RouterCoherent
<1>5. next_swap_id' \in Nat /\ next_swap_id <= next_swap_id'
  BY <1>1, <1>3 DEF TypeOK
<1>6. ASSUME inbox' = inbox
      PROVE  Shift(0) /\ ReadyPids' = ReadyPids
  <2>1. \A i \in DOMAIN inbox : i + 0 = i
    BY <1>1 DEF TypeOK
  <2>2. Shift(0)
    BY <1>6, <2>1 DEF Shift
  <2> QED BY <1>6, <2>2 DEF ReadyPids
<1>7. CASE Connect(j)
  <2>1. PICK p \in Pids : /\ Fresh(p) /\ alive' = alive \cup {p}
                          /\ workers' = (workers \ {j}) \cup {[j EXCEPT !.pid = p]}
    BY <1>7 DEF Connect
  <2> DEFINE k == [j EXCEPT !.pid = p]
  <2>2. /\ k.swap_id = j.swap_id /\ k.site = j.site /\ k.prev = j.prev /\ k.pid = p
        /\ j.pid = None /\ inbox' = inbox
    BY <1>2, <1>7 DEF SpawnJob, Connect
  <2>3. workers' = (workers \ {j}) \cup {k}
    BY <2>1
  <2>4. /\ p \notin ReadyPids /\ p \notin OwnedPids /\ p \notin WorkerPids /\ p # None
    BY <2>1 DEF Fresh
  <2> HIDE DEF k
  <2>5. NoOrphanProcess'
    <3>1. (WorkerPids \ {None}) \cup {p} \subseteq WorkerPids'
      BY <2>2, <2>3 DEF WorkerPids
    <3>2. alive \subseteq Pids
      BY <1>1 DEF TypeOK
    <3> QED BY <1>3, <1>6, <2>1, <2>2, <3>1, <3>2 DEF IInv, NoOrphanProcess
  <2>6. SwapIdsBelow'
    BY <1>3, <2>2, <2>3 DEF IInv, SwapIdsBelow, IsReady
  <2>7. SwapReleasesWhatItReplaces'
    <3> HIDE DEF active_site
    <3> QED BY <1>3, <2>2, <2>3 DEF IInv, SwapReleasesWhatItReplaces
  <2>8. ReadyIsFresh'
    BY <1>1, <1>3, <1>6, <2>2, FreshKept
  <2>9. WorkerIsFresh'
    <3>1. /\ \A c \in Pids : renderers'[c].pid # p
          /\ p \notin ReadyPids' /\ \A i \in workers : i.pid # p
      BY <1>3, <1>6, <2>2, <2>4 DEF OwnedPids, WorkerPids
    <3>2. ASSUME NEW i \in workers \ {j}, i.pid # None
          PROVE  /\ \A c \in Pids : renderers'[c].pid # i.pid
                 /\ i.pid \notin ReadyPids'
                 /\ \A l \in workers : l # i => l.pid # i.pid
      BY <1>3, <1>6, <2>2, <3>2 DEF IInv, WorkerIsFresh
    <3> QED BY <2>2, <2>3, <3>1, <3>2 DEF WorkerIsFresh
  <2> QED BY <1>1, <1>4, <2>5, <2>6, <2>7, <2>8, <2>9 DEF IInv
<1>8. CASE Report(j)
  <2> DEFINE m == Ready(j)
             n == Len(inbox) + 1
  <2>1. /\ m.type = "ready" /\ m.pid = j.pid /\ m.swap_id = j.swap_id
        /\ m.prev = j.prev /\ m.site = j.site
    BY DEF Ready
  <2>2. inbox' = Append(inbox, m) /\ workers' = workers \ {j} /\ alive' = alive
    BY <1>8 DEF Report, childVars
  <2>3. /\ \A c \in Pids : j.pid # None => renderers[c].pid # j.pid
        /\ j.pid # None => j.pid \notin ReadyPids
        /\ \A k \in workers : k # j /\ k.pid # None => k.pid # j.pid
    BY DEF IInv, WorkerIsFresh
  <2> HIDE DEF m
  <2>4. /\ \A i \in DOMAIN inbox' : (i \in DOMAIN inbox /\ inbox'[i] = inbox[i])
                                    \/ (i = n /\ inbox'[i] = m)
        /\ \A i \in DOMAIN inbox : i \in DOMAIN inbox' /\ inbox'[i] = inbox[i]
        /\ n \in DOMAIN inbox' /\ inbox'[n] = m
    BY <1>2, <2>2 DEF m
  <2> HIDE DEF n
  <2>5. ReadyPids' = ReadyPids \cup {j.pid}
    BY <2>1, <2>4 DEF ReadyPids
  <2>6. NoOrphanProcess'
    <3>1. WorkerPids \subseteq WorkerPids' \cup {j.pid}
      BY <2>2 DEF WorkerPids
    <3> QED BY <1>3, <2>2, <2>5, <3>1 DEF IInv, NoOrphanProcess
  <2>7. SwapIdsBelow'
    BY <1>3, <2>1, <2>2, <2>4 DEF IInv, SwapIdsBelow, IsReady
  <2>8. SwapReleasesWhatItReplaces'
    <3> HIDE DEF active_site
    <3> QED BY <1>3, <2>1, <2>2, <2>4 DEF IInv, SwapReleasesWhatItReplaces
  <2>9. ReadyIsFresh'
    <3>1. \A i \in DOMAIN inbox : inbox[i].type = "ready" => inbox[i].pid \in ReadyPids
      BY DEF ReadyPids
    <3> QED BY <1>3, <2>1, <2>3, <2>4, <3>1 DEF IInv, ReadyIsFresh, IsReady
  <2>10. WorkerIsFresh'
    BY <1>3, <2>2, <2>3, <2>5 DEF IInv, WorkerIsFresh
  <2> QED BY <1>1, <1>4, <2>6, <2>7, <2>8, <2>9, <2>10 DEF IInv
<1>9. CASE ReportTooLate(j)
  <2>1. inbox' = inbox /\ workers' = workers \ {j} /\ alive' = alive \ {j.pid}
    BY <1>9 DEF ReportTooLate, Reap
  <2>2. NoOrphanProcess'
    <3>1. WorkerPids \subseteq WorkerPids' \cup {j.pid}
      BY <2>1 DEF WorkerPids
    <3> QED BY <1>3, <1>6, <2>1, <3>1 DEF IInv, NoOrphanProcess
  <2>3. SwapIdsBelow' /\ ReadyIsFresh' /\ WorkerIsFresh'
    BY <1>1, <1>3, <1>5, <1>6, <2>1, IdsKept, FreshKept, HeldKept
  <2>4. SwapReleasesWhatItReplaces'
    <3> HIDE DEF active_site
    <3> QED BY <1>3, <1>6, <2>1, SwapKept
  <2> QED BY <1>1, <1>4, <2>2, <2>3, <2>4 DEF IInv
<1> QED BY <1>7, <1>8, <1>9 DEF WorkerStep

\* What coherence says of the host table and of the active renderer.
LEMMA CoherentFacts ==
  ASSUME IInv
  PROVE  /\ \A s \in Sites : has_record(host, s) => s = active_site
         /\ \A s \in Sites : s # active_site => host[s] = NoRecord
         /\ active # None => /\ active_site \in Sites
                             /\ renderers[active] = [site |-> active_site, pid |-> active]
                             /\ host[active_site] = [child_id |-> active, refcount |-> 1]
         /\ active = None => active_site = None
         /\ \A c \in Pids : c # active => renderers[c] = NoRenderer
<1> USE NoneAssumption DEF IInv, RouterCoherent, active_site
<1>1. active = None => active_site = None
  OBVIOUS
<1>2. ASSUME active # None
      PROVE  /\ active \in Pids /\ active_site \in Sites
             /\ renderers[active] = [site |-> active_site, pid |-> active]
             /\ host[active_site] = [child_id |-> active, refcount |-> 1]
  <2>1. active \in Pids /\ renderers[active] \in RouterRenderer
    BY <1>2 DEF TypeOK
  <2>2. renderers[active].pid = active /\ renderers[active].site \in Sites
    BY <1>2, <2>1 DEF RouterRenderer
  <2>3. renderers[active] = [site |-> active_site, pid |-> active]
    BY <1>2, <2>1, <2>2 DEF RouterRenderer
  <2> QED BY <1>2, <2>1, <2>2, <2>3
<1>3. \A s \in Sites : s # active_site => host[s] = NoRecord
  OBVIOUS
<1>4. \A s \in Sites : has_record(host, s) => s = active_site
  BY <1>3 DEF has_record, NoRecord
<1>5. \A c \in Pids : c # active => renderers[c] = NoRenderer
  OBVIOUS
<1> QED BY <1>1, <1>2, <1>3, <1>4, <1>5

\* What the activation of a finished spawn does to the router: the new process
\* becomes the only renderer, it is given the navigation, and the process that
\* was active, if any, is killed.
LEMMA Activated ==
  ASSUME IInv, ActivateReady, NEW m, m = Head(inbox)
  PROVE  /\ m.site \in Sites /\ m.pid \in Pids /\ m.epoch \in Nat
         /\ m.pid # active /\ active' = m.pid /\ alive' = alive \ {active}
         /\ renderers' = [d \in Pids |-> IF d = m.pid THEN [site |-> m.site, pid |-> m.pid]
                                                      ELSE NoRenderer]
         /\ \A s \in Sites : host'[s] = IF s = m.site
                                        THEN [child_id |-> m.pid, refcount |-> 1] ELSE NoRecord
         /\ \A p \in Pids : to_child'[p] =
              IF p = active THEN <<>>
              ELSE IF p = m.pid /\ p \in alive
                   THEN Append(to_child[p], [type |-> "nav", site |-> m.site, epoch |-> m.epoch])
                   ELSE to_child[p]
<1> USE NoneAssumption
<1> DEFINE c == spawned_id(host, m.site, m.pid)
           r == [renderers EXCEPT ![c] = [site |-> m.site, pid |-> m.pid]]
           h == lookup_or_spawn(host, m.site, m.pid)
           freed == IF m.prev # None /\ active # c THEN released_id(h, m.prev) ELSE None
           gone == ({renderers[c].pid} \ {m.pid})
                   \cup (IF freed = None THEN {} ELSE {r[freed].pid})
           cmd == [type |-> "nav", site |-> m.site, epoch |-> m.epoch]
<1>1. TypeOK /\ alive \subseteq Pids /\ None \notin alive
  BY DEF IInv, TypeOK
<1>2. /\ inbox # <<>> /\ inbox' = Tail(inbox) /\ m.type = "ready"
      /\ m.site \in Sites /\ m.pid \in Pids /\ m.epoch \in Nat
      /\ pending.swap_id = m.swap_id /\ ~pending.cancelled /\ m.swap_id \in Nat
  BY <1>1, ReceivedType DEF ActivateReady, Received, ReadyMsg
<1>3. m.prev = active_site /\ m.site # active_site
  <2>1. 1 \in DOMAIN inbox /\ m = inbox[1]
    BY <1>1, <1>2, TakeShift
  <2>2. 0 < m.swap_id
    BY <1>2, <2>1 DEF IInv, SwapIdsBelow, IsReady
  <2> QED BY <1>2, <2>1, <2>2 DEF IInv, SwapReleasesWhatItReplaces
<1>4. \A d \in Pids : renderers[d].pid # m.pid
  <2>1. 1 \in DOMAIN inbox /\ m = inbox[1]
    BY <1>1, <1>2, TakeShift
  <2> QED BY <1>2, <2>1 DEF IInv, ReadyIsFresh, IsReady
<1>5. host[m.site] = NoRecord
  BY <1>2, <1>3, CoherentFacts
<1>6. c = m.pid
  BY <1>2, <1>5 DEF spawned_id, has_record, NoRecord
<1>7. m.pid # active /\ renderers[m.pid] = NoRenderer
  BY <1>2, <1>4, CoherentFacts
<1>8. h = [host EXCEPT ![m.site] = [child_id |-> m.pid, refcount |-> 1]]
  <2>1. ~has_record(host, m.site)
    BY <1>5 DEF has_record, NoRecord
  <2> QED BY ONLY <2>1, Zenon DEF lookup_or_spawn
<1>9. /\ active' = c
      /\ host' = IF m.prev # None /\ active # c THEN release(h, m.prev) ELSE h
      /\ renderers' = IF freed = None THEN r ELSE [r EXCEPT ![freed] = NoRenderer]
      /\ Reap(gone, sent(to_child, r, c, cmd))
  BY Zenon DEF ActivateReady, SwapTo
<1> HIDE DEF h
<1>10. /\ renderers \in [Pids -> RouterRenderer] /\ host \in HostTable
       /\ \A d \in Pids : d # active => renderers[d] = NoRenderer
       /\ \A s \in Sites : s # active_site => host[s] = NoRecord
  BY <1>1, CoherentFacts DEF TypeOK
<1>11. r[c] = [site |-> m.site, pid |-> m.pid]
  BY <1>2, <1>6, <1>10
<1>12. /\ renderers' = [d \in Pids |-> IF d = m.pid THEN [site |-> m.site, pid |-> m.pid]
                                                    ELSE NoRenderer]
       /\ \A s \in Sites : host'[s] = IF s = m.site THEN [child_id |-> m.pid, refcount |-> 1]
                                                    ELSE NoRecord
       /\ gone \ {None} = {active} \ {None}
  <2>1. CASE active = None
    <3>1. m.prev = None /\ freed = None /\ active_site = None
      BY <1>3, <2>1, CoherentFacts
    <3>2. renderers' = r /\ host' = h
      BY <1>9, <3>1
    <3>3. gone \ {None} = {}
      BY <1>6, <1>7, <3>1 DEF NoRenderer
    <3> HIDE DEF c, gone
    <3>4. renderers' = [d \in Pids |-> IF d = m.pid THEN [site |-> m.site, pid |-> m.pid]
                                                    ELSE NoRenderer]
      BY <1>2, <1>6, <1>10, <2>1, <3>2
    <3>5. \A s \in Sites : host'[s] = IF s = m.site THEN [child_id |-> m.pid, refcount |-> 1]
                                                    ELSE NoRecord
      BY <1>2, <1>8, <1>10, <3>1, <3>2 DEF HostTable
    <3> QED BY <2>1, <3>3, <3>4, <3>5
  <2>2. CASE active # None
    <3>1. /\ active \in Pids /\ active_site \in Sites /\ m.prev = active_site
          /\ renderers[active].pid = active
          /\ host[active_site] = [child_id |-> active, refcount |-> 1]
      BY <1>1, <1>3, <2>2, CoherentFacts DEF TypeOK
    <3>2. h[active_site] = [child_id |-> active, refcount |-> 1] /\ h \in HostTable
      BY <1>2, <1>3, <1>8, <1>10, <3>1, HostTypes DEF HostTable, RendererRecord
    <3>3. freed = active
      BY <1>6, <1>7, <3>1, <3>2 DEF released_id
    <3>4. release(h, m.prev) = [h EXCEPT ![active_site] = NoRecord]
      <4>1. h[m.prev].refcount = 1
        BY <3>1, <3>2
      <4>2. ~(h[m.prev].refcount > 1)
        BY <4>1
      <4> QED BY <3>1, <4>2 DEF release
    <3>5. /\ renderers' = [r EXCEPT ![active] = NoRenderer]
          /\ host' = [h EXCEPT ![active_site] = NoRecord]
      BY <1>6, <1>7, <1>9, <2>2, <3>1, <3>3, <3>4
    <3>6. r[active].pid = active
      BY <1>6, <1>7, <1>10, <3>1
    <3>7. gone \ {None} = {active} \ {None}
      BY <1>6, <1>7, <2>2, <3>3, <3>6 DEF NoRenderer
    <3> HIDE DEF c, freed, gone
    <3>8. renderers' = [d \in Pids |-> IF d = m.pid THEN [site |-> m.site, pid |-> m.pid]
                                                    ELSE NoRenderer]
      BY <1>2, <1>6, <1>7, <1>10, <3>1, <3>5
    <3>9. \A s \in Sites : host'[s] = IF s = m.site THEN [child_id |-> m.pid, refcount |-> 1]
                                                    ELSE NoRecord
      BY <1>2, <1>3, <1>8, <1>10, <3>1, <3>5 DEF HostTable
    <3> QED BY <3>7, <3>8, <3>9
  <2> QED BY <2>1, <2>2
<1>13. sent(to_child, r, c, cmd) = IF m.pid \in alive
                                   THEN [to_child EXCEPT ![m.pid] = Append(@, cmd)] ELSE to_child
  <2>1. m.pid # None /\ r[m.pid].pid = m.pid
    BY <1>2, <1>6, <1>11
  <2> HIDE DEF c, r, cmd
  <2> QED BY <1>6, <2>1 DEF sent
<1> HIDE DEF c, r, freed, gone, cmd
<1>14. alive' = alive \ {active}
  BY <1>1, <1>9, <1>12 DEF Reap
<1>15. ASSUME NEW p \in Pids
       PROVE  to_child'[p] = IF p = active THEN <<>>
                             ELSE IF p = m.pid /\ p \in alive THEN Append(to_child[p], cmd)
                                  ELSE to_child[p]
  <2>1. p \in gone <=> p = active
    BY <1>12
  <2>2. to_child'[p] = IF p \in gone THEN <<>> ELSE sent(to_child, r, c, cmd)[p]
    BY <1>9 DEF Reap
  <2>3. to_child \in [Pids -> Seq(ChildMsg)]
    BY <1>1 DEF TypeOK
  <2> QED BY <1>13, <2>1, <2>2, <2>3
<1> QED BY <1>2, <1>6, <1>7, <1>9, <1>12, <1>14, <1>15 DEF cmd

\* The router's handlers keep the invariant.
LEMMA RouterIInv == IInv /\ RouterStep => IInv'
<1> SUFFICES ASSUME IInv, RouterStep PROVE IInv'
  OBVIOUS
<1> USE NoneAssumption
<1>1. TypeOK /\ TypeOK'
  BY RouterTypeOK DEF IInv
<1>0. next_swap_id \in Nat /\ next_swap_id' \in Nat /\ alive \subseteq Pids /\ None \notin alive
  BY <1>1 DEF TypeOK
<1>2. CASE RouteToActive
  <2>1. /\ inbox # <<>> /\ inbox' = Tail(inbox) /\ Head(inbox).type # "ready"
        /\ UNCHANGED <<host, renderers, active, pending, next_swap_id, workers, alive>>
    BY <1>2 DEF RouteToActive, Received, CmdTypes, routerVars
  <2>2. Shift(1) /\ ReadyPids \subseteq ReadyPids'
    BY <1>1, <2>1, TakeShift
  <2> QED BY <1>1, <2>1, <2>2, QuietStep
<1>3. CASE RouteCrossSite
  <2> DEFINE m == Head(inbox)
  <2>1. /\ inbox # <<>> /\ inbox' = Tail(inbox) /\ m.type = "nav" /\ m.site # active_site
        /\ m.site \in Sites
    BY <1>1, <1>3, ReceivedType DEF RouteCrossSite, Received, WindowMsg, ChildMsg, NavMsg
  <2>2. Shift(1) /\ ReadyPids \subseteq ReadyPids'
    BY <1>1, <2>1, TakeShift
  <2>3. start_spawn_worker(m)
    <3>1. ~has_record(host, m.site)
      BY <2>1, CoherentFacts
    <3> QED BY <1>3, <3>1 DEF RouteCrossSite
  <2>4. UNCHANGED <<host, renderers, active, alive>> /\ next_swap_id' = next_swap_id + 1
    BY <2>3 DEF start_spawn_worker, childVars
  <2>5. CASE workers' = workers /\ pending' = NoPending
    <3>1. SwapIdsBelow' /\ ReadyIsFresh' /\ WorkerIsFresh'
      BY <1>0, <1>1, <2>2, <2>4, <2>5, IdsKept, FreshKept, HeldKept
    <3>2. SwapReleasesWhatItReplaces'
      BY <2>5 DEF SwapReleasesWhatItReplaces, NoPending
    <3>3. RouterCoherent'
      BY <2>4 DEF IInv, RouterCoherent
    <3>4. NoOrphanProcess'
      <4>1. OwnedPids' = OwnedPids /\ WorkerPids' = WorkerPids
        BY <2>4, <2>5 DEF OwnedPids, WorkerPids
      <4> QED BY <2>2, <2>4, <4>1 DEF IInv, NoOrphanProcess
    <3> QED BY <1>1, <3>1, <3>2, <3>3, <3>4 DEF IInv
  <2>6. CASE /\ pending' = [swap_id |-> next_swap_id + 1, cancelled |-> FALSE]
             /\ workers' = workers \cup {[swap_id |-> next_swap_id + 1, site |-> m.site,
                                          epoch |-> m.epoch, prev |-> active_site,
                                          pid |-> None]}
    <3> DEFINE job == [swap_id |-> next_swap_id + 1, site |-> m.site,
                       epoch |-> m.epoch, prev |-> active_site, pid |-> None]
    <3>1. /\ job.swap_id = next_swap_id + 1 /\ job.site = m.site /\ job.prev = active_site
          /\ job.pid = None
      OBVIOUS
    <3>2. workers' = workers \cup {job} /\ pending'.swap_id = next_swap_id + 1
      BY <2>6
    <3> HIDE DEF job, m
    <3>3. \A j \in workers : 0 < j.swap_id /\ j.swap_id <= next_swap_id /\ j.swap_id \in Nat
      BY <1>1 DEF IInv, SwapIdsBelow, TypeOK, SpawnJob
    <3>4. ASSUME NEW i \in DOMAIN inbox', inbox'[i].type = "ready"
          PROVE  /\ 0 < inbox'[i].swap_id /\ inbox'[i].swap_id <= next_swap_id
                 /\ inbox'[i].swap_id \in Nat
      <4>1. i + 1 \in DOMAIN inbox /\ inbox'[i] = inbox[i + 1]
        BY <2>2, <3>4 DEF Shift
      <4>2. inbox'[i] \in ReadyMsg
        <5>1. inbox'[i] \in WindowMsg \cup ReadyMsg
          BY <1>1 DEF TypeOK
        <5> QED BY <3>4, <5>1 DEF WindowMsg, ChildMsg, NavMsg
      <4> QED BY <3>4, <4>1, <4>2 DEF IInv, SwapIdsBelow, IsReady, ReadyMsg
    <3>5. SwapIdsBelow'
      <4>1. \A j \in workers' : 0 < j.swap_id /\ j.swap_id <= next_swap_id'
        BY <1>0, <2>4, <3>1, <3>2, <3>3
      <4>2. \A i \in DOMAIN inbox' : inbox'[i].type = "ready" =>
              0 < inbox'[i].swap_id /\ inbox'[i].swap_id <= next_swap_id'
        BY <1>0, <2>4, <3>4
      <4> QED BY <4>1, <4>2 DEF SwapIdsBelow, IsReady
    <3>6. SwapReleasesWhatItReplaces'
      <4>1. active_site' = active_site
        BY <2>4 DEF active_site
      <4> HIDE DEF active_site
      <4>2. \A j \in workers' : j.swap_id = next_swap_id + 1 => j = job
        BY <1>0, <3>2, <3>3
      <4>3. \A i \in DOMAIN inbox' : inbox'[i].type = "ready" =>
                                       inbox'[i].swap_id # next_swap_id + 1
        BY <1>0, <3>4
      <4> QED BY <2>1, <3>1, <3>2, <4>1, <4>2, <4>3 DEF SwapReleasesWhatItReplaces
    <3>7. ReadyIsFresh' /\ WorkerIsFresh'
      BY <1>1, <2>2, <2>4, <3>1, <3>2, FreshKept, HeldKept
    <3>8. RouterCoherent'
      BY <2>4 DEF IInv, RouterCoherent
    <3>9. NoOrphanProcess'
      <4>1. OwnedPids' = OwnedPids /\ WorkerPids \subseteq WorkerPids'
        BY <2>4, <3>2 DEF OwnedPids, WorkerPids
      <4> QED BY <2>2, <2>4, <4>1 DEF IInv, NoOrphanProcess
    <3> QED BY <1>1, <3>5, <3>6, <3>7, <3>8, <3>9 DEF IInv
  <2> QED BY <2>3, <2>5, <2>6 DEF start_spawn_worker
<1>4. CASE handle_stop_load
  <2>1. /\ inbox # <<>> /\ inbox' = Tail(inbox) /\ Head(inbox).type # "ready"
        /\ active' = None /\ UNCHANGED <<next_swap_id, workers>>
        /\ pending' = IF pending.swap_id = 0 THEN pending
                                             ELSE [pending EXCEPT !.cancelled = TRUE]
    BY <1>4 DEF handle_stop_load, Received
  <2>2. Shift(1) /\ ReadyPids \subseteq ReadyPids'
    BY <1>1, <2>1, TakeShift
  <2>3. /\ \A c \in Pids : renderers'[c] = NoRenderer
        /\ \A s \in Sites : host'[s] = NoRecord
        /\ alive' \subseteq alive \ {active}
    <3>1. CASE active = None
      <4>1. active_site = None /\ UNCHANGED <<host, renderers, alive>>
        BY <1>4, <3>1 DEF handle_stop_load, active_site
      <4> QED BY <1>0, <3>1, <4>1, CoherentFacts
    <3>2. CASE active # None
      <4>1. /\ active_site # None /\ active_site \in Sites /\ active \in Pids
            /\ renderers[active].pid = active
        BY <1>1, <3>2, CoherentFacts DEF TypeOK
      <4>2. /\ renderers' = [renderers EXCEPT ![active] = NoRenderer]
            /\ host' = release_all(host, active_site)
            /\ alive' = alive \ {active}
        BY <1>4, <4>1 DEF handle_stop_load, Reap
      <4>3. \A c \in Pids : renderers'[c] = NoRenderer
        BY <1>1, <4>1, <4>2, CoherentFacts DEF TypeOK
      <4>4. \A s \in Sites : host'[s] = NoRecord
        BY <1>1, <4>1, <4>2, CoherentFacts DEF TypeOK, HostTable, release_all
      <4> QED BY <4>2, <4>3, <4>4
    <3> QED BY <3>1, <3>2
  <2>4. RouterCoherent'
    BY <2>1, <2>3 DEF RouterCoherent
  <2>5. NoOrphanProcess'
    <3>1. OwnedPids \subseteq {active, None}
      BY CoherentFacts DEF OwnedPids, NoRenderer
    <3>2. WorkerPids' = WorkerPids
      BY <2>1 DEF WorkerPids
    <3> QED BY <1>0, <2>2, <2>3, <3>1, <3>2 DEF IInv, NoOrphanProcess
  <2>6. SwapIdsBelow'
    BY <1>0, <1>1, <2>1, <2>2, IdsKept
  <2>7. ReadyIsFresh' /\ WorkerIsFresh'
    BY <1>1, <2>1, <2>2, <2>3, FreshKept, HeldKept DEF NoRenderer
  <2>8. SwapReleasesWhatItReplaces'
    <3>1. pending'.swap_id = 0 \/ pending'.cancelled
      BY <1>1, <2>1 DEF TypeOK, PendingSwap
    <3> QED BY <3>1 DEF SwapReleasesWhatItReplaces
  <2> QED BY <1>1, <2>4, <2>5, <2>6, <2>7, <2>8 DEF IInv
<1>5. CASE RouteShutdown
  <2>1. /\ inbox' = <<>> /\ active' = None /\ pending' = NoPending
        /\ UNCHANGED <<next_swap_id, workers>>
        /\ host' = EmptyHost /\ renderers' = [c \in Pids |-> NoRenderer]
        /\ alive' = alive \ (OwnedPids \cup ReadyPids)
    BY <1>5 DEF RouteShutdown, Reap
  <2>2. RouterCoherent'
    BY <2>1 DEF RouterCoherent, EmptyHost
  <2>3. NoOrphanProcess'
    BY <2>1 DEF IInv, NoOrphanProcess, WorkerPids
  <2>4. SwapReleasesWhatItReplaces'
    BY <2>1 DEF SwapReleasesWhatItReplaces, NoPending
  <2>5. SwapIdsBelow' /\ ReadyIsFresh'
    BY <2>1 DEF IInv, SwapIdsBelow, ReadyIsFresh
  <2>6. WorkerIsFresh'
    BY <2>1, HeldKept DEF Shift, NoRenderer
  <2> QED BY <1>1, <2>2, <2>3, <2>4, <2>5, <2>6 DEF IInv
<1>6. CASE DiscardReady
  <2>1. /\ inbox # <<>> /\ inbox' = Tail(inbox) /\ Head(inbox).type = "ready"
        /\ UNCHANGED <<host, renderers, active, next_swap_id, workers>>
        /\ pending' = NoPending \/ pending' = pending
        /\ alive' = alive \ {Head(inbox).pid}
    BY <1>6 DEF DiscardReady, Received, Reap
  <2>2. Shift(1) /\ ReadyPids \subseteq ReadyPids' \cup {Head(inbox).pid}
    BY <1>1, <2>1, TakeShift
  <2>3. RouterCoherent'
    BY <2>1 DEF IInv, RouterCoherent
  <2>4. NoOrphanProcess'
    <3>1. OwnedPids' = OwnedPids /\ WorkerPids' = WorkerPids
      BY <2>1 DEF OwnedPids, WorkerPids
    <3> QED BY <2>1, <2>2, <3>1 DEF IInv, NoOrphanProcess
  <2>5. SwapIdsBelow' /\ ReadyIsFresh' /\ WorkerIsFresh'
    BY <1>0, <1>1, <2>1, <2>2, IdsKept, FreshKept, HeldKept
  <2>6. SwapReleasesWhatItReplaces'
    <3>1. active_site' = active_site BY <2>1 DEF active_site
    <3>2. pending'.swap_id # 0 => pending' = pending BY <2>1 DEF NoPending
    <3> QED BY <2>1, <2>2, <3>1, <3>2, SwapKept
  <2> QED BY <1>1, <2>3, <2>4, <2>5, <2>6 DEF IInv
<1>7. CASE SpawnFailed
  <2>1. /\ inbox # <<>> /\ inbox' = Tail(inbox) /\ Head(inbox).type = "ready"
        /\ Head(inbox).pid = None /\ pending' = NoPending
        /\ UNCHANGED <<host, renderers, active, next_swap_id, workers, alive>>
    BY <1>7 DEF SpawnFailed, Received, childVars
  <2>2. Shift(1) /\ ReadyPids \subseteq ReadyPids' \cup {None}
    BY <1>1, <2>1, TakeShift
  <2>3. RouterCoherent'
    BY <2>1 DEF IInv, RouterCoherent
  <2>4. NoOrphanProcess'
    <3>1. OwnedPids' = OwnedPids /\ WorkerPids' = WorkerPids
      BY <2>1 DEF OwnedPids, WorkerPids
    <3> QED BY <1>0, <2>1, <2>2, <3>1 DEF IInv, NoOrphanProcess
  <2>5. SwapIdsBelow' /\ ReadyIsFresh' /\ WorkerIsFresh'
    BY <1>0, <1>1, <2>1, <2>2, IdsKept, FreshKept, HeldKept
  <2>6. SwapReleasesWhatItReplaces'
    BY <2>1 DEF SwapReleasesWhatItReplaces, NoPending
  <2> QED BY <1>1, <2>3, <2>4, <2>5, <2>6 DEF IInv
<1>8. CASE ActivateReady
  <2> DEFINE m == Head(inbox)
             c == m.pid
  <2>1. /\ inbox # <<>> /\ inbox' = Tail(inbox) /\ m.type = "ready"
        /\ pending' = NoPending /\ UNCHANGED <<next_swap_id, workers>>
    BY <1>8 DEF ActivateReady, Received
  <2>2. /\ Shift(1) /\ ReadyPids \subseteq ReadyPids' \cup {m.pid}
        /\ 1 \in DOMAIN inbox /\ m = inbox[1]
        /\ \A i \in DOMAIN inbox' : i + 1 \in DOMAIN inbox /\ i + 1 # 1
    BY <1>1, <2>1, TakeShift
  <2> HIDE DEF m
  <2>11. /\ m.site \in Sites /\ c \in Pids /\ active' = c /\ alive' = alive \ {active}
         /\ renderers' = [d \in Pids |-> IF d = c THEN [site |-> m.site, pid |-> c]
                                                  ELSE NoRenderer]
         /\ \A s \in Sites : host'[s] = IF s = m.site THEN [child_id |-> c, refcount |-> 1]
                                                      ELSE NoRecord
    BY <1>8, Activated DEF m
  <2> HIDE DEF c
  <2>13. RouterCoherent'
    <3>1. \A d \in Pids : renderers'[d] # NoRenderer => d = c
      BY <2>11
    <3>2. renderers'[c] = [site |-> m.site, pid |-> c] /\ c # None
      BY <2>11
    <3>3. renderers'[c] # NoRenderer
      BY <2>1, <3>2 DEF NoRenderer
    <3> QED BY <2>11, <3>1, <3>2, <3>3 DEF RouterCoherent
  <2>14. NoOrphanProcess'
    <3>1. OwnedPids \subseteq {active, None}
      BY CoherentFacts DEF OwnedPids, NoRenderer
    <3>2. c \in OwnedPids'
      BY <2>11 DEF OwnedPids
    <3>3. WorkerPids' = WorkerPids
      BY <2>1 DEF WorkerPids
    <3> QED BY <1>0, <2>2, <2>11, <3>1, <3>2, <3>3 DEF IInv, NoOrphanProcess, c
  <2>15. SwapIdsBelow'
    BY <1>0, <1>1, <2>1, <2>2, IdsKept
  <2>16. SwapReleasesWhatItReplaces'
    BY <2>1 DEF SwapReleasesWhatItReplaces, NoPending
  <2>17. ReadyIsFresh'
    <3> SUFFICES ASSUME NEW i \in DOMAIN inbox', inbox'[i].type = "ready",
                        inbox'[i].pid # None
                 PROVE  /\ \A d \in Pids : renderers'[d].pid # inbox'[i].pid
                        /\ \A k \in DOMAIN inbox' : (inbox'[k].type = "ready" /\ k # i)
                                                     => inbox'[k].pid # inbox'[i].pid
      BY DEF ReadyIsFresh, IsReady
    <3>1. i + 1 \in DOMAIN inbox /\ i + 1 # 1 /\ inbox'[i] = inbox[i + 1]
      BY <2>2 DEF Shift
    <3>2. \A k \in DOMAIN inbox : (inbox[k].type = "ready" /\ k # i + 1)
                                    => inbox[k].pid # inbox[i + 1].pid
      BY <3>1 DEF IInv, ReadyIsFresh, IsReady
    <3>3. inbox'[i].pid # c
      BY <2>1, <2>2, <3>1, <3>2 DEF c
    <3>4. \A d \in Pids : renderers'[d].pid \in {c, None}
      BY <2>11 DEF NoRenderer
    <3>5. ASSUME NEW k \in DOMAIN inbox', inbox'[k].type = "ready", k # i
          PROVE  inbox'[k].pid # inbox'[i].pid
      <4>0. k \in Nat /\ i \in Nat
        <5>1. inbox' \in Seq(WindowMsg \cup ReadyMsg)
          BY <1>1 DEF TypeOK
        <5> QED BY <5>1
      <4>1. k + 1 \in DOMAIN inbox /\ inbox'[k] = inbox[k + 1]
        BY <2>2, <3>5 DEF Shift
      <4>2. k + 1 # i + 1
        BY <3>5, <4>0
      <4> QED BY <3>1, <3>2, <3>5, <4>1, <4>2
    <3> QED BY <3>3, <3>4, <3>5
  <2>18. WorkerIsFresh'
    <3>1. ReadyPids' \subseteq ReadyPids /\ c \in ReadyPids
      BY <2>1, <2>2 DEF ReadyPids, Shift, c
    <3>2. \A d \in Pids : renderers'[d].pid \in {c, None}
      BY <2>11 DEF NoRenderer
    <3> QED BY <2>1, <3>1, <3>2 DEF IInv, WorkerIsFresh
  <2> QED BY <1>1, <2>13, <2>14, <2>15, <2>16, <2>17, <2>18 DEF IInv
<1> QED BY <1>2, <1>3, <1>4, <1>5, <1>6, <1>7, <1>8 DEF RouterStep

\* The invariant holds throughout.
LEMMA Inductive == Spec => []IInv
<1>1. IInv /\ [Next]_vars => IInv'
  <2> SUFFICES ASSUME IInv, [Next]_vars PROVE IInv'
    OBVIOUS
  <2>1. CASE UNCHANGED vars
    <3>1. TypeOK /\ TypeOK'
      BY <2>1 DEF vars, IInv, TypeOK
    <3>2. /\ UNCHANGED <<host, renderers, active, pending, next_swap_id, workers>>
          /\ alive' \subseteq alive
      BY <2>1 DEF vars
    <3>3. Shift(0) /\ ReadyPids \subseteq ReadyPids'
      BY <2>1, <3>1 DEF vars, Shift, ReadyPids, TypeOK
    <3> QED BY <3>1, <3>2, <3>3, QuietStep
  <2> QED BY <2>1, WindowIInv, RouterIInv, WorkerIInv, ChildIInv DEF Next, Terminated
<1> QED BY <1>1, InitIInv, PTL DEF Spec

\* The router's host table, process map and active renderer always agree: one
\* renderer with one reference, or none.
THEOREM Coherence == Spec => []RouterCoherent
<1>1. IInv => RouterCoherent
  BY DEF IInv
<1> QED BY <1>1, Inductive, PTL

\* No renderer process outlives the router's record of it, the connection that is
\* on its way to the router and the worker that connected it.
THEOREM NoOrphans == Spec => []NoOrphanProcess
<1>1. IInv => NoOrphanProcess
  BY DEF IInv
<1> QED BY <1>1, Inductive, PTL

\* The previous site a live swap will release is the site active now.
THEOREM ReleaseIsNeverStale == Spec => []SwapReleasesWhatItReplaces
<1>1. IInv => SwapReleasesWhatItReplaces
  BY DEF IInv
<1> QED BY <1>1, Inductive, PTL

\* A Stop beats every spawn in flight: with nothing active and no live swap,
\* no step activates a renderer (handle_stop_load, handle_renderer_ready).
THEOREM StopWins == Spec => StopBeatsSwap
<1> DEFINE Quiet == active = None /\ (pending.swap_id = 0 \/ pending.cancelled)
<1>1. IInv /\ [Next]_vars => [Quiet => active' = None]_vars
  <2> SUFFICES ASSUME IInv, Next, Quiet PROVE active' = None
    BY DEF vars
  <2>1. CASE WindowStep \/ SpawnWorker \/ ChildStep \/ Terminated
    BY <2>1 DEF WindowStep, Navigate, NavigateLocal, pump_navigation_command,
         pump_input_command, Resize, pump_host_command, trigger_stop, CloseWindow,
         DrainFromPage, SpawnWorker, WorkerStep, Connect, Report, ReportTooLate,
         ChildStep, ChildRuns, ChildFirstPaint, ChildBuildFails, ChildServes, ChildTick,
         ChildCrash, ReaderForwards, Terminated, vars, routerVars
  <2>2. CASE RouteCrossSite
    <3>1. Head(inbox).site \in Sites /\ Head(inbox).site # active_site
      BY <2>2, ReceivedType DEF RouteCrossSite, Received, IInv, WindowMsg, ChildMsg, NavMsg
    <3>2. ~has_record(host, Head(inbox).site)
      BY <3>1, CoherentFacts
    <3> QED BY <2>2, <3>2 DEF RouteCrossSite, start_spawn_worker
  <2>3. CASE ActivateReady
    <3>1. /\ inbox # <<>> /\ inbox' = Tail(inbox) /\ Head(inbox).type = "ready"
          /\ pending.swap_id = Head(inbox).swap_id /\ ~pending.cancelled
      BY <2>3 DEF ActivateReady, Received
    <3>2. 1 \in DOMAIN inbox /\ Head(inbox) = inbox[1]
      BY <3>1, TakeShift DEF IInv
    <3>3. 0 < pending.swap_id
      BY <3>1, <3>2 DEF IInv, SwapIdsBelow, IsReady
    <3> QED BY <3>1, <3>3
  <2>4. CASE RouteToActive \/ handle_stop_load \/ RouteShutdown \/ DiscardReady \/ SpawnFailed
    BY <2>4 DEF RouteToActive, handle_stop_load, RouteShutdown, DiscardReady, SpawnFailed,
                routerVars
  <2> QED BY <2>1, <2>2, <2>3, <2>4 DEF Next, RouterStep
<1> QED BY <1>1, Inductive, PTL DEF Spec, StopBeatsSwap
=============================================================================
