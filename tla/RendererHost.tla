---------------------------- MODULE RendererHost ----------------------------
(***************************************************************************)
(* The browser process's table of renderers, one record per site, with the *)
(* number of tabs that reference it (crates/cv_ipc/src/renderer_host.rs).  *)
(* The table is a value: each operation of RendererHost maps the table to  *)
(* the table after the call, and a second operator gives what it returns.  *)
(* A site without a record is mapped to NoRecord.  The counter             *)
(* next_child_id is written by the code and never read; it is left out.    *)
(***************************************************************************)
EXTENDS Naturals

CONSTANTS Sites,   \* scheme + registrable domain keys, what site_for_url yields
          Pids,    \* process ids of renderer children
          None     \* Rust's Option::None

ASSUME NoneAssumption == None \notin Sites /\ None \notin Pids

RendererRecord == [child_id : Pids \cup {None}, refcount : Nat]
NoRecord == [child_id |-> None, refcount |-> 0]
HostTable == [Sites -> RendererRecord]
EmptyHost == [s \in Sites |-> NoRecord]

\* lookup(site).is_some()
has_record(h, s) == h[s].refcount > 0

\* A new record, or one more reference to the record that exists.
lookup_or_spawn(h, s, pid) ==
  [h EXCEPT ![s] = IF has_record(h, s)
                   THEN [child_id |-> h[s].child_id, refcount |-> h[s].refcount + 1]
                   ELSE [child_id |-> pid, refcount |-> 1]]

\* The child id lookup_or_spawn returns: an existing record keeps its own.
spawned_id(h, s, pid) == IF has_record(h, s) THEN h[s].child_id ELSE pid

\* Drop one reference; the record goes with its last reference.
release(h, s) ==
  [h EXCEPT ![s] = IF h[s].refcount > 1
                   THEN [child_id |-> h[s].child_id, refcount |-> h[s].refcount - 1]
                   ELSE NoRecord]

\* What release returns: the child to tear down, if that was the last reference.
released_id(h, s) == IF h[s].refcount = 1 THEN h[s].child_id ELSE None

\* release until lookup fails (the loop of hard_kill_active).
release_all(h, s) == [h EXCEPT ![s] = NoRecord]
=============================================================================
