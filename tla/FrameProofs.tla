---------------------------- MODULE FrameProofs ----------------------------
(***************************************************************************)
(* Proofs about what travels through SiteRouter's queues: a navigation     *)
(* command stays in the process of its site, and epoch labels never run    *)
(* ahead of the window's counter, so that the screen never goes back.      *)
(***************************************************************************)
EXTENDS SiteRouterProofs

-----------------------------------------------------------------------------
(* Commands stay in their site. *)

\* The messages in a queue.
Elems(q) == {q[i] : i \in DOMAIN q}

\* What sending, taking and looking at the ends does to the messages of a queue.
LEMMA QueueElems ==
  ASSUME NEW S, NEW q \in Seq(S)
  PROVE  /\ Elems(q) \subseteq S
         /\ \A e \in S : Elems(Append(q, e)) = Elems(q) \cup {e}
         /\ q # <<>> => /\ Head(q) \in Elems(q) /\ Elems(Tail(q)) \subseteq Elems(q)
                        /\ q[Len(q)] \in Elems(q)
         /\ Elems(<<>>) = {}
<1>1. Elems(q) \subseteq S
  BY DEF Elems
<1>2. ASSUME NEW e \in S PROVE Elems(Append(q, e)) = Elems(q) \cup {e}
  <2>1. /\ \A i \in DOMAIN Append(q, e) :
             (i \in DOMAIN q /\ Append(q, e)[i] = q[i]) \/ Append(q, e)[i] = e
        /\ \A i \in DOMAIN q : i \in DOMAIN Append(q, e) /\ Append(q, e)[i] = q[i]
        /\ Len(q) + 1 \in DOMAIN Append(q, e) /\ Append(q, e)[Len(q) + 1] = e
    BY AppendElements
  <2> QED BY <2>1 DEF Elems
<1>3. ASSUME q # <<>>
      PROVE  /\ Head(q) \in Elems(q) /\ Elems(Tail(q)) \subseteq Elems(q)
             /\ q[Len(q)] \in Elems(q)
  <2>1. /\ Head(q) = q[1] /\ 1 \in DOMAIN q
        /\ \A i \in DOMAIN Tail(q) : i + 1 \in DOMAIN q /\ Tail(q)[i] = q[i + 1]
    BY <1>3, HeadTail
  <2>2. Len(q) \in DOMAIN q
    BY <1>3
  <2> QED BY <2>1, <2>2 DEF Elems
<1>4. Elems(<<>>) = {}
  BY DEF Elems
<1> QED BY <1>1, <1>2, <1>3, <1>4

\* The router's map holds process p as the renderer of site s.
Dedicated(p, s) == \E c \in Pids : renderers[c] = [site |-> s, pid |-> p]

\* NavigationStaysInItsSite, said of the messages of a queue.
LEMMA StaysElems ==
  NavigationStaysInItsSite <=>
    \A p \in Pids : \A m \in Elems(to_child[p]) : m.type = "nav" => Dedicated(p, m.site)
  BY DEF NavigationStaysInItsSite, Elems, Dedicated

\* Commands stay in their site when queues only shrink and the map of a process
\* that has commands waiting is left alone.
LEMMA StaysKept ==
  ASSUME NavigationStaysInItsSite,
         \A p \in Pids : Elems(to_child'[p]) \subseteq Elems(to_child[p]),
         \A p \in Pids : Elems(to_child'[p]) # {} =>
            \A c \in Pids : renderers[c].pid = p => renderers'[c] = renderers[c]
  PROVE  NavigationStaysInItsSite'
<1> SUFFICES ASSUME NEW p \in Pids, NEW m \in Elems(to_child'[p]), m.type = "nav"
             PROVE  \E c \in Pids : renderers'[c] = [site |-> m.site, pid |-> p]
  BY DEF NavigationStaysInItsSite, Elems
<1>1. PICK c \in Pids : renderers[c] = [site |-> m.site, pid |-> p]
  BY StaysElems DEF Dedicated
<1> QED BY <1>1

LEMMA StaysInit == Init => NavigationStaysInItsSite
  BY DEF Init, NavigationStaysInItsSite

\* Steps of the window, the workers and the renderers.
LEMMA StaysOutside ==
  ASSUME IInv, NavigationStaysInItsSite,
         WindowStep \/ SpawnWorker \/ ChildStep \/ Terminated \/ UNCHANGED vars
  PROVE  NavigationStaysInItsSite'
<1>1. to_child \in [Pids -> Seq(ChildMsg)]
  BY DEF IInv, TypeOK
<1>2. renderers' = renderers
  BY DEF WindowStep, Navigate, NavigateLocal, pump_navigation_command,
         pump_input_command, Resize, pump_host_command, trigger_stop, CloseWindow,
         DrainFromPage, SpawnWorker, WorkerStep, Connect, Report, ReportTooLate,
         ChildStep, ChildRuns, ChildFirstPaint, ChildBuildFails, ChildServes, ChildTick,
         ChildCrash, ReaderForwards, Terminated, vars, routerVars
<1>3. \/ to_child' = to_child
      \/ \E p \in Pids : to_child' = [to_child EXCEPT ![p] = <<>>]
      \/ \E p \in Pids : to_child[p] # <<>> /\ to_child' = [to_child EXCEPT ![p] = Tail(@)]
      \/ \E p : to_child' = [q \in Pids |-> IF q \in {p} THEN <<>> ELSE to_child[q]]
  BY DEF WindowStep, Navigate, NavigateLocal, pump_navigation_command,
         pump_input_command, Resize, pump_host_command, trigger_stop, CloseWindow,
         DrainFromPage, SpawnWorker, WorkerStep, Connect, Report, ReportTooLate,
         ChildStep, ChildRuns, ChildFirstPaint, ChildBuildFails, ChildServes, ChildTick,
         ChildCrash, ReaderForwards, Reap, Terminated, vars, childVars
<1>4. ASSUME NEW p \in Pids
      PROVE  to_child'[p] \in {to_child[p], <<>>}
             \/ (to_child[p] # <<>> /\ to_child'[p] = Tail(to_child[p]))
  BY <1>1, <1>3
<1>5. \A p \in Pids : Elems(to_child'[p]) \subseteq Elems(to_child[p])
  BY <1>1, <1>4, QueueElems
<1> QED BY <1>2, <1>5, StaysKept

\* Steps of the router.
LEMMA StaysRouter ==
  ASSUME IInv, NavigationStaysInItsSite, RouterStep
  PROVE  NavigationStaysInItsSite'
<1> USE NoneAssumption
<1>0. /\ to_child \in [Pids -> Seq(ChildMsg)] /\ alive \subseteq Pids /\ None \notin alive
      /\ TypeOK
  BY DEF IInv, TypeOK
<1>1. CASE RouteToActive
  <2> DEFINE m == Head(inbox)
  <2>1. /\ to_child' = sent(to_child, renderers, active, m) /\ renderers' = renderers
        /\ m.type = "nav" => m.site = active_site
    BY <1>1 DEF RouteToActive, routerVars
  <2>2. m \in ChildMsg
    BY <1>0, <1>1, ReceivedType DEF RouteToActive, Received, CmdTypes, WindowMsg
  <2>3. CASE active # None /\ renderers[active].pid \in alive
    <3>1. renderers[active] = [site |-> active_site, pid |-> active] /\ active \in Pids
      BY <1>0, <2>3, CoherentFacts DEF TypeOK
    <3> HIDE DEF m
    <3>2. to_child' = [to_child EXCEPT ![active] = Append(@, m)]
      BY <2>1, <2>3, <3>1 DEF sent
    <3>3. Elems(to_child'[active]) = Elems(to_child[active]) \cup {m}
      BY <1>0, <2>2, <3>1, <3>2, QueueElems
    <3>4. \A p \in Pids \ {active} : to_child'[p] = to_child[p]
      BY <1>0, <3>2
    <3>5. m.type = "nav" => Dedicated(active, m.site)
      BY <2>1, <3>1 DEF Dedicated
    <3>6. \A p \in Pids : \A n \in Elems(to_child'[p]) : n.type = "nav" => Dedicated(p, n.site)
      BY <3>3, <3>4, <3>5, StaysElems
    <3> QED BY <2>1, <3>6 DEF NavigationStaysInItsSite, Elems, Dedicated
  <2>4. CASE ~(active # None /\ renderers[active].pid \in alive)
    <3>1. to_child' = to_child
      BY <2>1, <2>4 DEF sent
    <3> QED BY <2>1, <3>1, StaysKept
  <2> QED BY <2>3, <2>4
<1>2. CASE RouteCrossSite
  <2>1. Head(inbox).site \in Sites /\ Head(inbox).site # active_site
    BY <1>2, ReceivedType DEF RouteCrossSite, Received, IInv, WindowMsg, ChildMsg, NavMsg
  <2>2. ~has_record(host, Head(inbox).site)
    BY <2>1, CoherentFacts
  <2>3. UNCHANGED <<renderers, to_child>>
    BY <1>2, <2>2 DEF RouteCrossSite, start_spawn_worker, childVars
  <2> QED BY <2>3, StaysKept
<1>3. CASE handle_stop_load
  <2>1. CASE active_site = None
    <3>1. UNCHANGED <<renderers, to_child>>
      BY <1>3, <2>1 DEF handle_stop_load
    <3> QED BY <3>1, StaysKept
  <2>2. CASE active_site # None
    <3>1. active \in Pids /\ renderers[active].pid = active
      BY <1>0, <2>2, CoherentFacts DEF TypeOK
    <3>2. /\ renderers' = [renderers EXCEPT ![active] = NoRenderer]
          /\ to_child' = [p \in Pids |-> IF p \in {active} THEN <<>> ELSE to_child[p]]
      BY <1>3, <2>2, <3>1 DEF handle_stop_load, Reap
    <3>3. \A p \in Pids : to_child'[p] = IF p = active THEN <<>> ELSE to_child[p]
      BY <3>2
    <3>4. \A c \in Pids \ {active} : renderers'[c] = renderers[c]
      BY <1>0, <3>2 DEF TypeOK
    <3>5. \A p \in Pids : Elems(to_child'[p]) \subseteq Elems(to_child[p])
      BY <3>3 DEF Elems
    <3>6. Elems(to_child'[active]) = {}
      BY <3>1, <3>3 DEF Elems
    <3> QED BY <3>1, <3>4, <3>5, <3>6, StaysKept
  <2> QED BY <2>1, <2>2
<1>4. CASE RouteShutdown
  <2>1. \A p \in Pids : to_child'[p] \in {to_child[p], <<>>}
                         /\ (p \in OwnedPids => to_child'[p] = <<>>)
    BY <1>4 DEF RouteShutdown, Reap
  <2>2. \A p \in Pids : Elems(to_child'[p]) \subseteq Elems(to_child[p])
    BY <2>1 DEF Elems
  <2>3. \A p \in Pids : Elems(to_child'[p]) # {} => p \notin OwnedPids
    BY <2>1 DEF Elems
  <2> QED BY <2>2, <2>3, StaysKept DEF OwnedPids
<1>5. CASE DiscardReady
  <2>1. /\ to_child' = [p \in Pids |-> IF p \in {Head(inbox).pid} THEN <<>> ELSE to_child[p]]
        /\ renderers' = renderers
    BY <1>5 DEF DiscardReady, Reap
  <2>2. \A p \in Pids : Elems(to_child'[p]) \subseteq Elems(to_child[p])
    BY <2>1 DEF Elems
  <2> QED BY <2>1, <2>2, StaysKept
<1>6. CASE SpawnFailed
  <2>1. UNCHANGED <<renderers, to_child>>
    BY <1>6 DEF SpawnFailed, childVars
  <2> QED BY <2>1, StaysKept
<1>7. CASE ActivateReady
  <2> DEFINE m == Head(inbox)
             cmd == [type |-> "nav", site |-> m.site, epoch |-> m.epoch]
  <2>1. /\ m.site \in Sites /\ m.pid \in Pids /\ m.epoch \in Nat
        /\ renderers' = [d \in Pids |-> IF d = m.pid THEN [site |-> m.site, pid |-> m.pid]
                                                     ELSE NoRenderer]
        /\ \A p \in Pids : to_child'[p] =
             IF p = active THEN <<>>
             ELSE IF p = m.pid /\ p \in alive THEN Append(to_child[p], cmd) ELSE to_child[p]
    BY <1>7, Activated
  <2> HIDE DEF m
  <2>2. cmd \in ChildMsg
    BY <2>1 DEF ChildMsg, NavMsg
  <2>3. ASSUME NEW p \in Pids, p # active, NEW n \in Elems(to_child[p])
        PROVE  n.type # "nav"
    <3>1. ~Dedicated(p, n.site)
      BY <1>0, <2>3, CoherentFacts DEF Dedicated, NoRenderer
    <3> QED BY <2>3, <3>1, StaysElems
  <2> HIDE DEF cmd
  <2>4. ASSUME NEW p \in Pids, NEW n \in Elems(to_child'[p]), n.type = "nav"
        PROVE  p = m.pid /\ n = cmd
    <3>1. p # active
      BY <2>1, <2>4 DEF Elems
    <3>2. n \notin Elems(to_child[p])
      BY <2>3, <2>4, <3>1
    <3>3. p = m.pid /\ to_child'[p] = Append(to_child[p], cmd)
      BY <2>1, <2>4, <3>1, <3>2
    <3> QED BY <1>0, <2>2, <2>4, <3>2, <3>3, QueueElems
  <2>5. renderers'[m.pid] = [site |-> m.site, pid |-> m.pid] /\ cmd.site = m.site
    BY <2>1 DEF cmd
  <2>6. \A p \in Pids : \A n \in Elems(to_child'[p]) : n.type = "nav" => Dedicated(p, n.site)'
    BY <2>1, <2>4, <2>5 DEF Dedicated
  <2> QED BY <2>6 DEF NavigationStaysInItsSite, Elems, Dedicated
<1> QED BY <1>1, <1>2, <1>3, <1>4, <1>5, <1>6, <1>7 DEF RouterStep

\* A URL navigation is only ever given to the renderer process dedicated to the
\* URL's site, through same-site routing, swaps, Stop and crashes.
THEOREM SiteIsolation == Spec => []NavigationStaysInItsSite
<1>1. IInv /\ NavigationStaysInItsSite /\ [Next]_vars => NavigationStaysInItsSite'
  BY StaysOutside, StaysRouter DEF Next
<1> QED BY <1>1, StaysInit, Inductive, PTL DEF Spec

-----------------------------------------------------------------------------
(* Labels: a frame of an older navigation never replaces a newer one.          *)

Epochs(q) == {m.epoch : m \in Elems(q)}

\* Every epoch label in the system: on the screen, on commands and spawn results
\* under way to the router and the renderers, in spawn jobs, in the renderers
\* and on the frames under way back to the window.
Labels == {shown.epoch} \cup Epochs(inbox) \cup Epochs(from_page)
          \cup {j.epoch : j \in workers} \cup {child[p].epoch : p \in Pids}
          \cup (UNION {Epochs(to_child[p]) : p \in Pids})
          \cup (UNION {Epochs(wire[p]) : p \in Pids})

\* No label runs ahead of the window's navigation counter.
LabelsBelow == \A e \in Labels : e <= nav_gen

\* The labels of a queue after a send and after a take.
LEMMA QueueEpochs ==
  ASSUME NEW S, NEW q \in Seq(S)
  PROVE  /\ \A e \in S : Epochs(Append(q, e)) = Epochs(q) \cup {e.epoch}
         /\ q # <<>> => /\ Head(q).epoch \in Epochs(q) /\ Epochs(Tail(q)) \subseteq Epochs(q)
                        /\ q[Len(q)].epoch \in Epochs(q)
  BY QueueElems DEF Epochs

LEMMA EmptyEpochs == Epochs(<<>>) = {}
  BY DEF Epochs, Elems

\* Where the labels are.
LEMMA LabelsIn ==
  /\ shown.epoch \in Labels
  /\ Epochs(inbox) \subseteq Labels /\ Epochs(from_page) \subseteq Labels
  /\ \A j \in workers : j.epoch \in Labels
  /\ \A p \in Pids : child[p].epoch \in Labels
  /\ \A p \in Pids : Epochs(to_child[p]) \subseteq Labels /\ Epochs(wire[p]) \subseteq Labels
  BY DEF Labels

\* Labels are natural numbers.
LEMMA LabelsAreNat == TypeOK => Labels \subseteq Nat
<1> SUFFICES ASSUME TypeOK PROVE Labels \subseteq Nat
  OBVIOUS
<1>1. ASSUME NEW S, NEW q \in Seq(S), \A m \in S : m.epoch \in Nat
      PROVE  Epochs(q) \subseteq Nat
  BY <1>1, QueueElems DEF Epochs
<1>2. /\ \A m \in WindowMsg \cup ReadyMsg : m.epoch \in Nat
      /\ \A m \in ChildMsg : m.epoch \in Nat
      /\ \A f \in Frame : f.epoch \in Nat
  BY DEF WindowMsg, ReadyMsg, ChildMsg, NavMsg, Frame
<1>3. /\ Epochs(inbox) \subseteq Nat /\ Epochs(from_page) \subseteq Nat
      /\ \A p \in Pids : Epochs(to_child[p]) \subseteq Nat /\ Epochs(wire[p]) \subseteq Nat
  BY <1>1, <1>2 DEF TypeOK
<1>4. /\ shown.epoch \in Nat /\ \A j \in workers : j.epoch \in Nat
      /\ \A p \in Pids : child[p].epoch \in Nat
  BY DEF TypeOK, Frame, SpawnJob, Child
<1> QED BY <1>3, <1>4 DEF Labels

\* The labels of a step are in T when those of every carrier are.
LEMMA LabelsOf ==
  ASSUME NEW T, shown'.epoch \in T, Epochs(inbox') \subseteq T, Epochs(from_page') \subseteq T,
         \A j \in workers' : j.epoch \in T,
         \A p \in Pids : child'[p].epoch \in T /\ Epochs(to_child'[p]) \subseteq T
                         /\ Epochs(wire'[p]) \subseteq T
  PROVE  Labels' \subseteq T
<1>1. Labels' = {shown'.epoch} \cup Epochs(inbox') \cup Epochs(from_page')
          \cup {j.epoch : j \in workers'} \cup {child'[p].epoch : p \in Pids}
          \cup (UNION {Epochs(to_child'[p]) : p \in Pids})
          \cup (UNION {Epochs(wire'[p]) : p \in Pids})
  BY DEF Labels, Epochs, Elems
<1> QED BY <1>1

\* The window labels what it sends with its counter.
LEMMA WindowLabels ==
  ASSUME TypeOK, WindowStep
  PROVE  Labels' \subseteq Labels \cup {nav_gen'}
<1> DEFINE T == Labels \cup {nav_gen'}
<1> USE DEF windowVars, routerVars, childVars
<1>1. /\ UNCHANGED <<workers, child, to_child, wire>>
      /\ from_page' \in {from_page, <<>>}
  BY DEF WindowStep, Navigate, NavigateLocal, pump_navigation_command,
         pump_input_command, Resize, pump_host_command, trigger_stop, CloseWindow,
         DrainFromPage
<1>2. shown'.epoch \in T
  <2>1. CASE DrainFromPage
    <3>1. from_page[Len(from_page)].epoch \in Epochs(from_page)
      BY <2>1, QueueEpochs DEF DrainFromPage, TypeOK
    <3>2. shown' \in {shown, from_page[Len(from_page)]}
      BY <2>1 DEF DrainFromPage
    <3> QED BY <3>1, <3>2, LabelsIn
  <2>2. CASE ~DrainFromPage
    <3>1. shown' = shown
      BY <2>2 DEF WindowStep, Navigate, NavigateLocal, pump_navigation_command,
         pump_input_command, Resize, pump_host_command, trigger_stop, CloseWindow
    <3> QED BY <3>1, LabelsIn
  <2> QED BY <2>1, <2>2
<1>3. Epochs(inbox') \subseteq T
  <2>1. ASSUME NEW t, NEW s, SendToPage(t, s, nav_gen')
        PROVE  Epochs(inbox') \subseteq T
    <3>1. Elems(inbox') \subseteq Elems(inbox) \cup {[type |-> t, site |-> s, epoch |-> nav_gen']}
      <4> DEFINE S == WindowMsg \cup ReadyMsg \cup {[type |-> t, site |-> s, epoch |-> nav_gen']}
      <4>1. inbox \in Seq(S)
        BY DEF TypeOK
      <4> QED BY <2>1, <4>1, QueueElems DEF SendToPage
    <3> QED BY <3>1, LabelsIn DEF Epochs
  <2>2. CASE inbox' = inbox
    BY <2>2, LabelsIn
  <2>3. \/ inbox' = inbox
        \/ \E t, s : SendToPage(t, s, nav_gen')
    BY DEF WindowStep, Navigate, NavigateLocal, pump_navigation_command,
         pump_input_command, Resize, pump_host_command, trigger_stop, CloseWindow,
         DrainFromPage
  <2> QED BY <2>1, <2>2, <2>3
<1>4. Epochs(from_page') \subseteq T
  BY <1>1, EmptyEpochs, LabelsIn
<1> QED BY <1>1, <1>2, <1>3, <1>4, LabelsIn, LabelsOf

\* An error frame carries the label of the navigation that failed.
LEMMA ErrorLabels ==
  ASSUME TypeOK, NEW e \in Nat
  PROVE  Epochs(error_frame(e)) \subseteq Epochs(from_page) \cup {e}
<1>1. [epoch |-> e, doc |-> e] \in Frame
  BY DEF Frame
<1> QED BY <1>1, QueueEpochs DEF error_frame, TypeOK

\* Killing processes leaves only labels of the pipes q and the idle label 0.
LEMMA ReapLabels ==
  ASSUME NEW S, NEW q, NEW T, Reap(S, q), \A p \in Pids : Epochs(q[p]) \subseteq T,
         Labels \subseteq T, 0 \in T
  PROVE  \A p \in Pids : child'[p].epoch \in T /\ Epochs(to_child'[p]) \subseteq T
<1> SUFFICES ASSUME NEW p \in Pids
             PROVE  child'[p].epoch \in T /\ Epochs(to_child'[p]) \subseteq T
  OBVIOUS
<1>1. child'[p] \in {NoChild, child[p]} /\ to_child'[p] \in {<<>>, q[p]}
  BY DEF Reap
<1> QED BY <1>1, LabelsIn, EmptyEpochs DEF NoChild

\* The router passes labels on.
LEMMA RouterLabels ==
  ASSUME IInv, RouterStep
  PROVE  Labels' \subseteq Labels \cup {0}
<1> DEFINE T == Labels \cup {0}
<1> USE DEF windowVars, routerVars, childVars
<1> SUFFICES Labels' \subseteq T
  OBVIOUS
<1>0. TypeOK /\ to_child \in [Pids -> Seq(ChildMsg)]
  BY DEF IInv, TypeOK
<1>1. shown' = shown
  BY DEF RouterStep, RouteToActive, RouteCrossSite, handle_stop_load, RouteShutdown,
         DiscardReady, SpawnFailed, ActivateReady
<1>2. \A p \in Pids : Epochs(wire'[p]) \subseteq T
  <2>1. \A p \in Pids : wire'[p] \in {wire[p], <<>>}
    BY DEF RouterStep, RouteToActive, RouteCrossSite, reuse_existing_renderer,
           start_spawn_worker, handle_stop_load, RouteShutdown, DiscardReady, SpawnFailed,
           ActivateReady
  <2> QED BY <2>1, LabelsIn, EmptyEpochs
<1>3. /\ Epochs(inbox') \subseteq T
      /\ Head(inbox).epoch \in T /\ Head(inbox).epoch \in Nat
  <2>1. inbox # <<>> /\ inbox' \in {Tail(inbox), <<>>}
    BY DEF RouterStep, RouteToActive, RouteCrossSite, handle_stop_load, RouteShutdown,
           DiscardReady, SpawnFailed, ActivateReady, Received
  <2>2. Head(inbox).epoch \in Epochs(inbox) /\ Epochs(Tail(inbox)) \subseteq Epochs(inbox)
    BY <1>0, <2>1, QueueEpochs DEF TypeOK
  <2>3. Head(inbox) \in WindowMsg \cup ReadyMsg
    BY <1>0, <2>1, HeadTail DEF TypeOK
  <2> QED BY <2>1, <2>2, <2>3, LabelsIn, EmptyEpochs
          DEF WindowMsg, ReadyMsg, ChildMsg, NavMsg
<1> HIDE DEF T
<1>4. Labels \subseteq T /\ 0 \in T
  BY DEF T
<1>5. CASE UNCHANGED <<from_page, workers, child, to_child>>
  BY <1>1, <1>2, <1>3, <1>4, <1>5, LabelsIn, LabelsOf
<1>6. ASSUME UNCHANGED <<from_page, workers>>,
             NEW S, NEW q, Reap(S, q), \A p \in Pids : Epochs(q[p]) \subseteq T
      PROVE  Labels' \subseteq T
  <2>1. \A p \in Pids : child'[p].epoch \in T /\ Epochs(to_child'[p]) \subseteq T
    BY <1>4, <1>6, ReapLabels
  <2> QED BY <1>1, <1>2, <1>3, <1>4, <1>6, <2>1, LabelsIn, LabelsOf
<1>7. CASE RouteToActive
  <2> DEFINE m == Head(inbox)
  <2>1. m \in ChildMsg
    BY <1>0, <1>7, ReceivedType DEF RouteToActive, Received, CmdTypes, WindowMsg
  <2>2. /\ to_child' = sent(to_child, renderers, active, m)
        /\ UNCHANGED <<from_page, workers, child>>
    BY <1>7 DEF RouteToActive
  <2>3. \A p \in Pids : to_child'[p] \in {to_child[p], Append(to_child[p], m)}
    <3> HIDE DEF m
    <3> QED BY <1>0, <2>2 DEF sent, TypeOK
  <2> HIDE DEF m
  <2>4. \A p \in Pids : Epochs(to_child'[p]) \subseteq Epochs(to_child[p]) \cup {m.epoch}
    <3> SUFFICES ASSUME NEW p \in Pids
                 PROVE  Epochs(to_child'[p]) \subseteq Epochs(to_child[p]) \cup {m.epoch}
      OBVIOUS
    <3>1. Epochs(Append(to_child[p], m)) = Epochs(to_child[p]) \cup {m.epoch}
      BY <1>0, <2>1, QueueEpochs
    <3> QED BY <2>3, <3>1
  <2>5. \A p \in Pids : Epochs(to_child'[p]) \subseteq T
    BY <1>3, <1>4, <2>4, LabelsIn DEF m
  <2> QED BY <1>1, <1>2, <1>3, <1>4, <2>2, <2>5, LabelsIn, LabelsOf
<1>8. CASE RouteCrossSite
  <2> DEFINE m == Head(inbox)
  <2>1. m.site \in Sites /\ m.site # active_site
    BY <1>0, <1>8, ReceivedType DEF RouteCrossSite, Received, WindowMsg, ChildMsg, NavMsg
  <2>2. ~has_record(host, m.site)
    BY <2>1, CoherentFacts
  <2>3. start_spawn_worker(m)
    BY <1>8, <2>2 DEF RouteCrossSite
  <2> HIDE DEF m
  <2>4. UNCHANGED <<child, to_child>>
    BY <2>3 DEF start_spawn_worker
  <2>5. Epochs(from_page') \subseteq T
    BY <1>0, <1>3, <1>4, <2>3, ErrorLabels, LabelsIn DEF start_spawn_worker, m
  <2>6. \A j \in workers' : j.epoch \in T
    <3>1. \A j \in workers' : j \in workers \/ j.epoch = m.epoch
      BY <2>3 DEF start_spawn_worker
    <3> QED BY <1>3, <1>4, <3>1, LabelsIn DEF m
  <2> QED BY <1>1, <1>2, <1>3, <1>4, <2>4, <2>5, <2>6, LabelsIn, LabelsOf
<1>9. CASE handle_stop_load
  <2>1. /\ UNCHANGED <<from_page, workers>>
        /\ UNCHANGED <<child, to_child>> \/ Reap({renderers[active].pid}, to_child)
    BY <1>9 DEF handle_stop_load
  <2>2. \A p \in Pids : Epochs(to_child[p]) \subseteq T
    BY <1>4, LabelsIn
  <2> QED BY <1>5, <1>6, <2>1, <2>2
<1>10. CASE RouteShutdown
  <2>1. UNCHANGED <<from_page, workers>> /\ Reap(OwnedPids \cup ReadyPids, to_child)
    BY <1>10 DEF RouteShutdown
  <2>2. \A p \in Pids : Epochs(to_child[p]) \subseteq T
    BY <1>4, LabelsIn
  <2> QED BY <1>6, <2>1, <2>2
<1>11. CASE DiscardReady
  <2>1. UNCHANGED <<from_page, workers>> /\ Reap({Head(inbox).pid}, to_child)
    BY <1>11 DEF DiscardReady
  <2>2. \A p \in Pids : Epochs(to_child[p]) \subseteq T
    BY <1>4, LabelsIn
  <2> QED BY <1>6, <2>1, <2>2
<1>12. CASE SpawnFailed
  <2>1. UNCHANGED <<workers, child, to_child>> /\ from_page' = error_frame(Head(inbox).epoch)
    BY <1>12 DEF SpawnFailed
  <2>2. Epochs(from_page') \subseteq T
    BY <1>0, <1>3, <1>4, <2>1, ErrorLabels, LabelsIn
  <2> QED BY <1>1, <1>2, <1>3, <1>4, <2>1, <2>2, LabelsIn, LabelsOf
<1>13. CASE ActivateReady
  <2> DEFINE m == Head(inbox)
             cmd == [type |-> "nav", site |-> m.site, epoch |-> m.epoch]
  <2>1. /\ m.site \in Sites /\ m.epoch \in Nat
        /\ \A p \in Pids : to_child'[p] \in {<<>>, to_child[p], Append(to_child[p], cmd)}
    BY <1>13, Activated, Zenon
  <2>2. /\ UNCHANGED <<from_page, workers>>
        /\ \A p \in Pids : child'[p] \in {NoChild, child[p]}
    BY <1>13, Zenon DEF ActivateReady, SwapTo, Reap
  <2> HIDE DEF m
  <2>3. cmd \in ChildMsg /\ cmd.epoch = m.epoch
    BY <2>1 DEF ChildMsg, NavMsg
  <2> HIDE DEF cmd
  <2>4. \A p \in Pids : Epochs(to_child'[p]) \subseteq Epochs(to_child[p]) \cup {m.epoch}
    <3> SUFFICES ASSUME NEW p \in Pids
                 PROVE  Epochs(to_child'[p]) \subseteq Epochs(to_child[p]) \cup {m.epoch}
      OBVIOUS
    <3>1. Epochs(Append(to_child[p], cmd)) = Epochs(to_child[p]) \cup {m.epoch}
      BY <1>0, <2>3, QueueEpochs
    <3> QED BY <2>1, <3>1, EmptyEpochs
  <2>5. \A p \in Pids : Epochs(to_child'[p]) \subseteq T
    BY <1>3, <1>4, <2>4, LabelsIn DEF m
  <2>6. \A p \in Pids : child'[p].epoch \in T
    BY <1>4, <2>2, LabelsIn DEF NoChild
  <2> QED BY <1>1, <1>2, <1>3, <1>4, <2>2, <2>5, <2>6, LabelsIn, LabelsOf
<1> QED BY <1>7, <1>8, <1>9, <1>10, <1>11, <1>12, <1>13 DEF RouterStep

\* A spawn result carries the label of its job.
LEMMA WorkerLabels ==
  ASSUME TypeOK, NEW j \in workers, WorkerStep(j)
  PROVE  Labels' \subseteq Labels \cup {0}
<1> DEFINE T == Labels \cup {0}
<1> USE DEF windowVars, routerVars, childVars
<1>0. j \in SpawnJob /\ inbox \in Seq(WindowMsg \cup ReadyMsg)
  BY DEF TypeOK
<1>1. UNCHANGED <<shown, from_page>>
  BY DEF WorkerStep, Connect, Report, ReportTooLate
<1>2. \A k \in workers' : k.epoch \in T
  <2>1. \A p : [j EXCEPT !.pid = p].epoch = j.epoch
    BY <1>0 DEF SpawnJob
  <2>2. \A k \in workers' : k \in workers \/ \E p \in Pids : k = [j EXCEPT !.pid = p]
    BY DEF WorkerStep, Connect, Report, ReportTooLate
  <2> QED BY <2>1, <2>2, LabelsIn
<1>3. Epochs(inbox') \subseteq T
  <2>1. inbox' = inbox \/ inbox' = Append(inbox, Ready(j))
    BY DEF WorkerStep, Connect, Report, ReportTooLate
  <2>2. Ready(j) \in WindowMsg \cup ReadyMsg /\ Ready(j).epoch = j.epoch
    BY <1>0 DEF Ready, ReadyMsg, SpawnJob
  <2>3. Epochs(Append(inbox, Ready(j))) = Epochs(inbox) \cup {j.epoch}
    BY <1>0, <2>2, QueueEpochs
  <2>4. Epochs(inbox) \cup {j.epoch} \subseteq T
    BY LabelsIn
  <2>5. CASE inbox' = inbox
    BY <2>4, <2>5
  <2>6. CASE inbox' = Append(inbox, Ready(j))
    BY <2>3, <2>4, <2>6
  <2> QED BY <2>1, <2>5, <2>6
<1>4. \A p \in Pids : child'[p].epoch \in {child[p].epoch, 0}
  <2>1. CASE Connect(j)
    <3>1. PICK q \in Pids :
            child' = [child EXCEPT ![q] = [st |-> "building", epoch |-> 0, doc |-> j.epoch]]
      BY <2>1 DEF Connect
    <3> QED BY <3>1 DEF TypeOK
  <2>2. CASE Report(j)
    BY <2>2 DEF Report
  <2>3. CASE ReportTooLate(j)
    BY <2>3 DEF ReportTooLate, Reap, NoChild
  <2> QED BY <2>1, <2>2, <2>3 DEF WorkerStep
<1>5. \A p \in Pids : to_child'[p] \in {to_child[p], <<>>} /\ wire'[p] \in {wire[p], <<>>}
  BY DEF WorkerStep, Connect, Report, ReportTooLate, Reap, TypeOK
<1>6. \A p \in Pids : /\ child'[p].epoch \in T /\ Epochs(to_child'[p]) \subseteq T
                      /\ Epochs(wire'[p]) \subseteq T
  BY <1>4, <1>5, LabelsIn, EmptyEpochs
<1> QED BY <1>1, <1>2, <1>3, <1>6, LabelsIn, LabelsOf

\* A renderer labels its frames with 0, its own epoch or that of its command, and
\* the reader forwards them as they are.
LEMMA ChildLabels ==
  ASSUME TypeOK, ChildStep
  PROVE  Labels' \subseteq Labels \cup {0}
<1> DEFINE T == Labels \cup {0}
<1> SUFFICES Labels' \subseteq T
  OBVIOUS
<1> USE DEF windowVars, routerVars, childVars
<1>0. /\ child \in [Pids -> Child] /\ to_child \in [Pids -> Seq(ChildMsg)]
      /\ wire \in [Pids -> Seq(Frame)] /\ from_page \in Seq(Frame)
  BY DEF TypeOK
<1>1. UNCHANGED <<shown, inbox, workers>>
  BY DEF ChildStep, ChildRuns, ChildFirstPaint, ChildBuildFails, ChildServes, ChildTick,
         ChildCrash, ReaderForwards
<1>2. Labels \subseteq T /\ 0 \in T /\ \A p \in Pids : Epochs(to_child[p]) \subseteq T
  BY LabelsIn
<1>3. PICK p \in Pids : ChildRuns(p) \/ ChildBuildFails(p) \/ ChildTick(p)
                        \/ ChildCrash(p) \/ ReaderForwards(p)
  BY DEF ChildStep
<1> HIDE DEF T
<1>4. ASSUME NEW e \in Nat, NEW d \in Nat, Commit(p, e, d), e \in T
      PROVE  \A q \in Pids : Epochs(wire'[q]) \subseteq T
  <2> DEFINE f == [epoch |-> e, doc |-> d]
  <2>1. f \in Frame /\ f.epoch = e
    BY DEF Frame
  <2> HIDE DEF f
  <2>2. wire' = [wire EXCEPT ![p] = Append(@, f)]
    BY <1>4 DEF Commit, f
  <2>3. Epochs(wire'[p]) = Epochs(wire[p]) \cup {e}
    BY <1>0, <2>1, <2>2, QueueEpochs
  <2> QED BY <1>0, <1>2, <1>4, <2>2, <2>3, LabelsIn
<1>5. CASE ChildFirstPaint(p) \/ ChildBuildFails(p)
  <2>1. /\ Commit(p, 0, child[p].doc) /\ child[p].doc \in Nat /\ from_page' = from_page
        /\ child' \in {[child EXCEPT ![p].st = "serving"], [child EXCEPT ![p].st = "failed"]}
        /\ to_child' \in {to_child, [to_child EXCEPT ![p] = <<>>]}
    BY <1>0, <1>5 DEF ChildFirstPaint, ChildBuildFails, Child
  <2>2. \A q \in Pids : child'[q].epoch = child[q].epoch
    <3>1. \A st : [child[p] EXCEPT !.st = st].epoch = child[p].epoch
      BY <1>0 DEF Child
    <3>2. \E st : child' = [child EXCEPT ![p] = [child[p] EXCEPT !.st = st]]
      BY <2>1
    <3> QED BY <1>0, <3>1, <3>2
  <2>3. \A q \in Pids : to_child'[q] \in {to_child[q], <<>>}
    BY <1>0, <2>1
  <2>4. \A q \in Pids : Epochs(wire'[q]) \subseteq T
    BY <1>2, <1>4, <2>1
  <2> QED BY <1>1, <1>2, <2>1, <2>2, <2>3, <2>4, LabelsIn, EmptyEpochs, LabelsOf
<1>6. CASE ChildServes(p)
  <2> DEFINE m == Head(to_child[p])
  <2>1. /\ m.epoch \in T /\ m.epoch \in Nat /\ from_page' = from_page
        /\ to_child' = [to_child EXCEPT ![p] = Tail(@)]
        /\ Epochs(Tail(to_child[p])) \subseteq Epochs(to_child[p])
    <3>1. to_child[p] # <<>> /\ to_child[p] \in Seq(ChildMsg)
      BY <1>0, <1>6 DEF ChildServes
    <3>2. m \in ChildMsg /\ m.epoch \in Epochs(to_child[p])
          /\ Epochs(Tail(to_child[p])) \subseteq Epochs(to_child[p])
      BY <3>1, HeadTail, QueueEpochs
    <3> QED BY <1>2, <1>6, <3>2, LabelsIn DEF ChildServes, ChildMsg, NavMsg
  <2> HIDE DEF m
  <2>2. \A q \in Pids : Epochs(to_child'[q]) \subseteq T
    BY <1>0, <1>2, <2>1
  <2>3. \/ \E d \in Nat : /\ Commit(p, m.epoch, d)
                          /\ child' = [child EXCEPT ![p].epoch = m.epoch, ![p].doc = d]
        \/ UNCHANGED wire /\ child' = [child EXCEPT ![p].epoch = m.epoch]
    BY <1>0, <1>6, <2>1 DEF ChildServes, Child, m
  <2>4. \A q \in Pids : child'[q].epoch \in {child[q].epoch, m.epoch}
    BY <1>0, <2>3, ZenonT(40) DEF Child
  <2>5. \A q \in Pids : Epochs(wire'[q]) \subseteq T
    BY <1>2, <1>4, <2>1, <2>3, LabelsIn
  <2> QED BY <1>1, <1>2, <2>1, <2>2, <2>4, <2>5, LabelsIn, LabelsOf
<1>7. CASE ChildTick(p)
  <2>1. /\ Commit(p, child[p].epoch, child[p].doc) /\ UNCHANGED <<from_page, child, to_child>>
        /\ child[p].doc \in Nat /\ child[p].epoch \in Nat
    BY <1>0, <1>7 DEF ChildTick, Child
  <2>2. \A q \in Pids : Epochs(wire'[q]) \subseteq T
    BY <1>2, <1>4, <2>1, LabelsIn
  <2> QED BY <1>1, <1>2, <2>1, <2>2, LabelsIn, LabelsOf
<1>8. CASE ChildCrash(p)
  <2>1. Reap({p}, to_child) /\ UNCHANGED <<from_page, wire>>
    BY <1>8 DEF ChildCrash
  <2>2. \A q \in Pids : child'[q].epoch \in T /\ Epochs(to_child'[q]) \subseteq T
    BY <1>2, <2>1, ReapLabels
  <2> QED BY <1>1, <1>2, <2>1, <2>2, LabelsIn, LabelsOf
<1>9. CASE ReaderForwards(p)
  <2>1. /\ wire[p] # <<>> /\ wire[p] \in Seq(Frame)
        /\ wire' = [wire EXCEPT ![p] = Tail(@)] /\ UNCHANGED <<child, to_child>>
        /\ from_page' \in {from_page, Append(from_page, Head(wire[p]))}
    BY <1>0, <1>9 DEF ReaderForwards
  <2>2. /\ Head(wire[p]) \in Frame /\ Head(wire[p]).epoch \in Epochs(wire[p])
        /\ Epochs(Tail(wire[p])) \subseteq Epochs(wire[p])
    BY <2>1, HeadTail, QueueEpochs
  <2>3. \A q \in Pids : Epochs(wire'[q]) \subseteq T
    BY <1>0, <1>2, <2>1, <2>2, LabelsIn
  <2>4. Epochs(from_page') \subseteq T
    <3>1. Epochs(Append(from_page, Head(wire[p]))) = Epochs(from_page) \cup {Head(wire[p]).epoch}
      BY <1>0, <2>2, QueueEpochs
    <3>2. Epochs(from_page) \subseteq T /\ Epochs(wire[p]) \subseteq T
      BY <1>2, LabelsIn
    <3>3. CASE from_page' = from_page
      BY <3>2, <3>3
    <3>4. CASE from_page' = Append(from_page, Head(wire[p]))
      BY <2>2, <3>1, <3>2, <3>4
    <3> QED BY <2>1, <3>3, <3>4
  <2> QED BY <1>1, <1>2, <2>1, <2>3, <2>4, LabelsIn, LabelsOf
<1> QED BY <1>3, <1>5, <1>6, <1>7, <1>8, <1>9 DEF ChildRuns

\* The counter never goes back, and a step's labels are old ones, 0 or the counter.
LEMMA LabelsStep ==
  ASSUME IInv, [Next]_vars
  PROVE  Labels' \subseteq Labels \cup {0, nav_gen'} /\ nav_gen' \in {nav_gen, nav_gen + 1}
<1>0. TypeOK
  BY Zenon DEF IInv
<1>1. nav_gen' \in {nav_gen, nav_gen + 1}
  BY Zenon DEF Next, Terminated, vars, windowVars,
         WindowStep, Navigate, NavigateLocal, pump_navigation_command,
         pump_input_command, Resize, pump_host_command, trigger_stop, CloseWindow,
         DrainFromPage, RouterStep, RouteToActive, RouteCrossSite, handle_stop_load,
         RouteShutdown, DiscardReady, SpawnFailed, ActivateReady,
         SpawnWorker, WorkerStep, Connect, Report, ReportTooLate,
         ChildStep, ChildRuns, ChildFirstPaint, ChildBuildFails, ChildServes, ChildTick,
         ChildCrash, ReaderForwards
<1>2. CASE UNCHANGED vars
  <2>1. UNCHANGED <<shown, inbox, from_page, workers, child, to_child, wire>>
    BY <1>2 DEF vars
  <2>2. Labels' \subseteq Labels
    BY <2>1, LabelsIn, LabelsOf
  <2> QED BY <1>1, <2>2
<1>3. CASE SpawnWorker
  BY <1>0, <1>1, <1>3, WorkerLabels DEF SpawnWorker
<1> QED BY <1>0, <1>1, <1>2, <1>3, WindowLabels, RouterLabels, ChildLabels DEF Next, Terminated

\* Labels never run ahead of the counter.
LEMMA LabelsInvariant == Spec => [](IInv /\ LabelsBelow)
<1>1. Init => LabelsBelow
  <2> SUFFICES ASSUME Init PROVE \A e \in Labels : e = 0 /\ nav_gen = 0
    BY DEF LabelsBelow
  <2>1. /\ shown.epoch = 0 /\ Epochs(inbox) = {} /\ Epochs(from_page) = {} /\ workers = {}
        /\ nav_gen = 0
    BY EmptyEpochs DEF Init
  <2>2. \A p \in Pids : child[p].epoch = 0
    BY DEF Init, NoChild
  <2>3. \A p \in Pids : to_child[p] = <<>> /\ wire[p] = <<>>
    BY DEF Init
  <2> QED BY <2>1, <2>2, <2>3, EmptyEpochs DEF Labels
<1>2. IInv /\ LabelsBelow /\ [Next]_vars => LabelsBelow'
  <2> SUFFICES ASSUME IInv, LabelsBelow, [Next]_vars, NEW e \in Labels'
               PROVE  e <= nav_gen'
    BY DEF LabelsBelow
  <2>1. e \in Labels \cup {0, nav_gen'} /\ nav_gen' \in {nav_gen, nav_gen + 1}
    BY LabelsStep
  <2>2. nav_gen \in Nat
    BY DEF IInv, TypeOK
  <2>3. CASE e \in Labels
    <3>1. e \in Nat
      BY <2>3, LabelsAreNat DEF IInv
    <3> QED BY <2>1, <2>2, <2>3, <3>1 DEF LabelsBelow
  <2> QED BY <2>1, <2>2, <2>3
<1> QED BY <1>1, <1>2, Inductive, PTL DEF Spec

\* The screen never goes back to a frame of an older navigation, whatever order
\* the readers of several renderers deliver in: what is shown is no newer than
\* the counter, and only a frame that is no older than it is applied.
THEOREM ScreenNeverRegresses == Spec => ShownNeverRegresses
<1>1. IInv /\ LabelsBelow /\ [Next]_vars => [shown'.epoch >= shown.epoch]_vars
  <2> SUFFICES ASSUME IInv, LabelsBelow, Next PROVE shown'.epoch >= shown.epoch
    BY DEF vars
  <2>0. /\ nav_gen \in Nat /\ shown.epoch \in Nat /\ from_page \in Seq(Frame)
        /\ shown.epoch <= nav_gen
    BY LabelsIn DEF IInv, TypeOK, Frame, LabelsBelow
  <2>1. CASE DrainFromPage
    <3> DEFINE latest == from_page[Len(from_page)]
    <3>1. latest.epoch \in Nat
      <4>1. latest \in Frame
        BY <2>0, <2>1 DEF DrainFromPage
      <4> QED BY <4>1 DEF Frame
    <3>2. shown' = IF latest.epoch >= nav_gen THEN latest ELSE shown
      BY <2>1 DEF DrainFromPage, should_apply_commit
    <3> HIDE DEF latest
    <3> QED BY <2>0, <3>1, <3>2
  <2>2. CASE ~DrainFromPage
    <3>1. shown' = shown
      BY <2>2, Zenon DEF Next, Terminated, vars, windowVars,
         WindowStep, Navigate, NavigateLocal, pump_navigation_command,
         pump_input_command, Resize, pump_host_command, trigger_stop, CloseWindow,
         RouterStep, RouteToActive, RouteCrossSite, handle_stop_load,
         RouteShutdown, DiscardReady, SpawnFailed, ActivateReady,
         SpawnWorker, WorkerStep, Connect, Report, ReportTooLate,
         ChildStep, ChildRuns, ChildFirstPaint, ChildBuildFails, ChildServes, ChildTick,
         ChildCrash, ReaderForwards
    <3>2. shown'.epoch = shown.epoch
      BY <3>1, Zenon
    <3>3. shown.epoch \in Nat
      BY <2>0, Zenon
    <3> QED BY ONLY <3>2, <3>3
  <2> QED BY <2>1, <2>2, Zenon
<1> QED BY <1>1, LabelsInvariant, PTL DEF Spec, ShownNeverRegresses
=============================================================================
