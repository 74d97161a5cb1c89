------------------------------ MODULE Atomics ------------------------------
(***************************************************************************)
(* Shared memory and Atomics (crates/cv_js/src/sab.rs): threads that run   *)
(* script (agents) share buffers whose elements are several bytes, read    *)
(* and written byte by byte; a global lock serialises read-modify-writes;  *)
(* a process-wide waiter list, under a lock and a condition variable of    *)
(* its own, backs wait, notify and waitAsync.                              *)
(*                                                                         *)
(* A word is the little-endian sequence of an element's bytes.  What an    *)
(* RMW computes is left open: it stores any word.  Elements of one byte,   *)
(* whose compareExchange is a hardware instruction, are left out, and so   *)
(* is the end of a thread: it is a thread that does nothing any more.      *)
(***************************************************************************)
EXTENDS Naturals, Sequences, FiniteSets

CONSTANTS Agents,     \* threads: the page, its workers
          Blocking,   \* the agents that may block in wait (workers)
          Keys,       \* elements: a buffer and a byte index
          Width,      \* bytes of an element, more than one
          Words,      \* the words scripts store, the initial one among them
          Zero,       \* the word of a new buffer
          Uses,       \* agent, key -> the operations the agent's script uses
          Counts,     \* counts given to notify (the default is the greatest u64)
          MaxTokens,  \* bound: waiters ever registered
          None

ASSUME AtomicsAssumption ==
  /\ Width \in Nat \ {0, 1}
  /\ Words \subseteq [1..Width -> 0..255]
  /\ Zero \in Words
  /\ Blocking \subseteq Agents /\ None \notin Agents
  /\ Counts \subseteq Nat /\ MaxTokens \in Nat
  /\ \A a \in Agents \ Blocking, k \in Keys : "wait" \notin Uses[a][k]

VARIABLES
  mem,         \* key -> word, the bytes of the store
  rmw_lock,    \* holder of RMW_LOCKS, or None
  wl_lock,     \* holder of the waiter list's mutex across steps, or None
  waiters,     \* WaiterState: the entries of sync and async_waiters
  next_token,
  pc, op,      \* per agent: where it is, and the call it executes
  seen, pos,   \* per agent: load_bytes's first snapshot; bytes confirmed or written
  \* History, for the properties only:
  owed,        \* waiters notify counted, less those that were told "ok"
  dirty        \* agent -> keys it wrote and has not notified all waiters of since

vars == <<mem, rmw_lock, wl_lock, waiters, next_token, pc, op, seen, pos,
          owed, dirty>>
listVars == <<waiters, next_token, owed>>

Tokens == 1..MaxTokens
RmwOps == {"rmw", "cas"}
WaitOps == {"wait", "waitAsync"}

\* A call under way: the element, the word compared with it, the word stored,
\* and whether a wait has a deadline.  Fields a call does not use are fixed.
Call == [kind : {"load", "store", "rmw", "cas", "wait", "waitAsync"}, key : Keys,
         expected : Words, new : Words, deadline : BOOLEAN]
Calls(a) ==
  {c \in Call : /\ c.kind \in Uses[a][c.key]
                /\ c.kind \notin WaitOps \cup {"cas"} => c.expected = Zero
                /\ c.kind \notin RmwOps \cup {"store"} => c.new = Zero
                /\ c.kind \notin WaitOps => ~c.deadline}
NoCall == [kind |-> None]

\* An entry of the waiter list; expected is history.
Waiter == [token : Tokens, agent : Agents, kind : WaitOps, key : Keys,
           deadline : BOOLEAN, notified : BOOLEAN, expected : Words]

WaitedFor == {k \in Keys : \E a \in Agents : WaitOps \cap Uses[a][k] # {}}
Sleeping(a) == {w \in waiters : w.agent = a /\ w.kind = "wait"}
Owned(a) == {w \in waiters : w.agent = a /\ w.kind = "waitAsync"}

Init ==
  /\ mem = [k \in Keys |-> Zero]
  /\ rmw_lock = None /\ wl_lock = None
  /\ waiters = {} /\ next_token = 0
  /\ pc = [a \in Agents |-> "idle"] /\ op = [a \in Agents |-> NoCall]
  /\ seen = [a \in Agents |-> <<>>] /\ pos = [a \in Agents |-> 0]
  /\ owed = 0
  /\ dirty = [a \in Agents |-> {}]

-----------------------------------------------------------------------------
(* The start of a call.  A call that needs a lock starts when it gets it:     *)
(* nothing it does before is visible to others.                              *)

Begin(a, c, at) ==
  /\ pc[a] = "idle"
  /\ op' = [op EXCEPT ![a] = c]
  /\ pc' = [pc EXCEPT ![a] = at]
  /\ UNCHANGED <<mem, seen, pos, dirty, listVars>>

BeginLoad(a, c) ==
  /\ c.kind = "load"
  /\ Begin(a, c, "read")
  /\ UNCHANGED <<rmw_lock, wl_lock>>

BeginStore(a, c) ==
  /\ c.kind = "store"
  /\ Begin(a, c, "write")
  /\ UNCHANGED <<rmw_lock, wl_lock>>

\* Seeded fault: no lock around a read-modify-write.
BeginRmw_nolock(a, c) ==
  /\ c.kind \in RmwOps
  /\ Begin(a, c, "read")
  /\ UNCHANGED <<rmw_lock, wl_lock>>

\* rmw_bytes and the wide cas_bytes.
BeginRmw(a, c) ==
  /\ c.kind \in RmwOps
  /\ rmw_lock = None /\ rmw_lock' = a
  /\ Begin(a, c, "read")
  /\ UNCHANGED wl_lock

\* Seeded fault: the comparison is made before the waiter list is locked.
BeginWait_nolock(a, c) ==
  /\ c.kind \in WaitOps /\ next_token < MaxTokens
  /\ Begin(a, c, "read")
  /\ UNCHANGED <<rmw_lock, wl_lock>>

\* wait and waitAsync compare holding the waiter list.  (On a thread that may
\* not block, wait throws before it gets here.)
BeginWait(a, c) ==
  /\ c.kind \in WaitOps /\ next_token < MaxTokens
  /\ wl_lock = None /\ wl_lock' = a
  /\ Begin(a, c, "read")
  /\ UNCHANGED rmw_lock

BeginCall(a) == \E c \in Calls(a) :
  BeginLoad(a, c) \/ BeginStore(a, c) \/ BeginRmw(a, c) \/ BeginWait(a, c)

\* The call of a returns; it holds no lock any more.
Returns(a) ==
  /\ pc' = [pc EXCEPT ![a] = "idle"]
  /\ op' = [op EXCEPT ![a] = NoCall]
  /\ seen' = [seen EXCEPT ![a] = <<>>]
  /\ pos' = [pos EXCEPT ![a] = 0]
  /\ rmw_lock' = IF rmw_lock = a THEN None ELSE rmw_lock
  /\ wl_lock' = IF wl_lock = a THEN None ELSE wl_lock

-----------------------------------------------------------------------------
(* load_bytes, store_bytes, and the operations on memory. *)

\* One byte of the first snapshot.
ReadByte(a) ==
  /\ pc[a] = "read" /\ Len(seen[a]) < Width
  /\ seen' = [seen EXCEPT ![a] = Append(@, mem[op[a].key][Len(@) + 1])]
  /\ UNCHANGED <<mem, rmw_lock, wl_lock, pc, op, pos, dirty, listVars>>

\* One byte of the second snapshot.  If it differs from the first one, both are
\* taken again (at once: the reads that are skipped change nothing).
ReadAgain(a) ==
  /\ pc[a] = "read" /\ Len(seen[a]) = Width /\ pos[a] < Width
  /\ LET i == pos[a] + 1
     IN \/ /\ mem[op[a].key][i] = seen[a][i]
           /\ pos' = [pos EXCEPT ![a] = i]
           /\ UNCHANGED seen
        \/ /\ mem[op[a].key][i] # seen[a][i]
           /\ pos' = [pos EXCEPT ![a] = 0]
           /\ seen' = [seen EXCEPT ![a] = <<>>]
  /\ UNCHANGED <<mem, rmw_lock, wl_lock, pc, op, dirty, listVars>>

\* Two equal snapshots: load_bytes returns seen[a].
Stable(a) == pc[a] = "read" /\ pos[a] = Width

LoadReturns(a) ==
  /\ Stable(a) /\ op[a].kind = "load"
  /\ Returns(a)
  /\ UNCHANGED <<mem, dirty, listVars>>

\* rmw_bytes, or cas_bytes whose comparison holds: on to the store.
RmwStores(a) ==
  /\ Stable(a) /\ op[a].kind \in RmwOps
  /\ op[a].kind = "cas" => seen[a] = op[a].expected
  /\ pc' = [pc EXCEPT ![a] = "write"]
  /\ pos' = [pos EXCEPT ![a] = 0]
  /\ UNCHANGED <<mem, rmw_lock, wl_lock, op, seen, dirty, listVars>>

CasFails(a) ==
  /\ Stable(a) /\ op[a].kind = "cas" /\ seen[a] # op[a].expected
  /\ Returns(a)
  /\ UNCHANGED <<mem, dirty, listVars>>

\* store_bytes: one byte; the last one ends the call.
WriteByte(a) ==
  /\ pc[a] = "write"
  /\ LET k == op[a].key
         i == pos[a] + 1
     IN /\ mem' = [mem EXCEPT ![k] = [@ EXCEPT ![i] = op[a].new[i]]]
        /\ dirty' = [dirty EXCEPT ![a] = @ \cup ({k} \cap WaitedFor)]
        /\ IF i = Width
           THEN Returns(a)
           ELSE /\ pos' = [pos EXCEPT ![a] = i]
                /\ UNCHANGED <<pc, op, seen, rmw_lock, wl_lock>>
  /\ UNCHANGED listVars

MemoryStep(a) == ReadByte(a) \/ ReadAgain(a) \/ LoadReturns(a) \/ RmwStores(a)
                 \/ CasFails(a) \/ WriteByte(a)

-----------------------------------------------------------------------------
(* wait and waitAsync, the element read. *)

Matches(a) == Stable(a) /\ op[a].kind \in WaitOps /\ seen[a] = op[a].expected

NotEqual(a) ==
  /\ Stable(a) /\ op[a].kind \in WaitOps /\ seen[a] # op[a].expected
  /\ Returns(a)
  /\ UNCHANGED <<mem, dirty, listVars>>

\* The deadline is over at once (a timeout of 0): wait registers and removes
\* itself again, waitAsync answers without registering.
TimesOutAtOnce(a) ==
  /\ Matches(a) /\ op[a].deadline
  /\ next_token' = IF op[a].kind = "wait" THEN next_token + 1 ELSE next_token
  /\ Returns(a)
  /\ UNCHANGED <<mem, dirty, waiters, owed>>

\* add_waiter or add_async_waiter.  wait goes on to sleep on the condition
\* variable, which releases the list; waitAsync returns a pending promise.
Register(a) ==
  /\ Matches(a)
  /\ next_token' = next_token + 1
  /\ waiters' = waiters \cup
       {[token |-> next_token + 1, agent |-> a, kind |-> op[a].kind, key |-> op[a].key,
         deadline |-> op[a].deadline, notified |-> FALSE, expected |-> op[a].expected]}
  /\ IF op[a].kind = "waitAsync"
     THEN Returns(a)
     ELSE /\ pc' = [pc EXCEPT ![a] = "asleep"]
          /\ seen' = [seen EXCEPT ![a] = <<>>]
          /\ pos' = [pos EXCEPT ![a] = 0]
          /\ wl_lock' = None
          /\ UNCHANGED <<rmw_lock, op>>
  /\ UNCHANGED <<mem, dirty, owed>>

-----------------------------------------------------------------------------
(* notify *)

\* Synchronous waiters before asynchronous ones, each in order of arrival.
Before(v, w) == \/ v.kind = "wait" /\ w.kind = "waitAsync"
                \/ v.kind = w.kind /\ v.token < w.token

Unnotified(k) == {w \in waiters : w.key = k /\ ~w.notified}

\* Seeded fault: a waiter that was notified already is counted again.
Chosen_again(k, count) ==
  {w \in waiters : w.key = k /\ Cardinality({v \in waiters : v.key = k /\ Before(v, w)}) < count}

\* The waiters WaiterState::notify marks: the first count of those not marked.
Chosen(k, count) ==
  {w \in Unnotified(k) : Cardinality({v \in Unnotified(k) : Before(v, w)}) < count}

\* notify: the critical section.
Notify(a) ==
  /\ pc[a] = "idle" /\ wl_lock = None
  /\ \E k \in {j \in Keys : "notify" \in Uses[a][j]}, count \in Counts :
       LET chosen == Chosen(k, count)
       IN /\ waiters' = (waiters \ chosen) \cup {[w EXCEPT !.notified = TRUE] : w \in chosen}
          /\ owed' = owed + Cardinality(chosen)
          /\ dirty' = IF chosen = Unnotified(k) THEN [dirty EXCEPT ![a] = @ \ {k}] ELSE dirty
  /\ pc' = [pc EXCEPT ![a] = "notify_all"]
  /\ UNCHANGED <<mem, rmw_lock, wl_lock, next_token, op, seen, pos>>

\* Seeded fault: only one of the threads on the condition variable is woken.
NotifyAll_one(a) ==
  /\ pc[a] = "notify_all"
  /\ \/ \E b \in {c \in Agents : pc[c] = "asleep"} :
          pc' = [pc EXCEPT ![a] = "idle", ![b] = "awake"]
     \/ /\ \A b \in Agents : pc[b] # "asleep"
        /\ pc' = [pc EXCEPT ![a] = "idle"]
  /\ UNCHANGED <<mem, rmw_lock, wl_lock, op, seen, pos, dirty, listVars>>

\* The condition variable is shared by all keys; the list is not locked here.
NotifyAll(a) ==
  /\ pc[a] = "notify_all"
  /\ pc' = [b \in Agents |-> IF b = a THEN "idle"
                             ELSE IF pc[b] = "asleep" THEN "awake" ELSE pc[b]]
  /\ UNCHANGED <<mem, rmw_lock, wl_lock, op, seen, pos, dirty, listVars>>

-----------------------------------------------------------------------------
(* A sleeping waiter. *)

\* The condition variable returns at the deadline, or for no reason.
StopsSleeping(a) ==
  /\ pc[a] = "asleep"
  /\ pc' = [pc EXCEPT ![a] = "awake"]
  /\ UNCHANGED <<mem, rmw_lock, wl_lock, op, seen, pos, dirty, listVars>>

\* The entries S leave the list; ok of them are told "ok", the others "timed-out".
Leave(S, ok) ==
  /\ waiters' = waiters \ S
  /\ owed' = owed - ok
  /\ UNCHANGED next_token

\* Seeded fault: the deadline is looked at before the notified flag.
WokenUp_deadline_first(a) ==
  /\ pc[a] = "awake" /\ wl_lock = None
  /\ \E w \in Sleeping(a) :
       \/ /\ w.notified /\ ~w.deadline
          /\ Leave({w}, 1)
          /\ Returns(a)
       \/ /\ w.deadline
          /\ Leave({w}, 0)
          /\ Returns(a)
       \/ /\ ~w.notified
          /\ pc' = [pc EXCEPT ![a] = "asleep"]
          /\ UNCHANGED <<rmw_lock, wl_lock, op, seen, pos, listVars>>
  /\ UNCHANGED <<mem, dirty>>

\* wait's loop, the list locked again: notified, past the deadline, or neither
\* (the deadline of a thread that has one may or may not be over).
WokenUp(a) ==
  /\ pc[a] = "awake" /\ wl_lock = None
  /\ \E w \in Sleeping(a) :
       \/ /\ w.notified
          /\ Leave({w}, 1)
          /\ Returns(a)
       \/ /\ ~w.notified /\ w.deadline
          /\ Leave({w}, 0)
          /\ Returns(a)
       \/ /\ ~w.notified
          /\ pc' = [pc EXCEPT ![a] = "asleep"]
          /\ UNCHANGED <<rmw_lock, wl_lock, op, seen, pos, listVars>>
  /\ UNCHANGED <<mem, dirty>>

-----------------------------------------------------------------------------
\* drain_atomics_async, at the end of each turn of the agent's loop: the agent's
\* own entries that are notified or past their deadline settle their promises.
Drain(a) ==
  /\ pc[a] = "idle" /\ wl_lock = None
  /\ \E late \in SUBSET {w \in Owned(a) : w.deadline /\ ~w.notified} :
       LET notified == {w \in Owned(a) : w.notified}
       IN /\ notified \cup late # {}
          /\ Leave(notified \cup late, Cardinality(notified))
  /\ UNCHANGED <<mem, rmw_lock, wl_lock, pc, op, seen, pos, dirty>>

WaitStep(a) == NotEqual(a) \/ TimesOutAtOnce(a) \/ Register(a) \/ WokenUp(a)

Next == \E a \in Agents : BeginCall(a) \/ MemoryStep(a) \/ WaitStep(a)
                          \/ Notify(a) \/ NotifyAll(a) \/ StopsSleeping(a) \/ Drain(a)

\* A running thread gets the processor and a mutex is not withheld from it for
\* ever; nobody is bound to call, to exit or to be notified.
Fairness == \A a \in Agents :
  /\ WF_vars(MemoryStep(a)) /\ WF_vars(NotifyAll(a)) /\ SF_vars(WaitStep(a))

Spec == Init /\ [][Next]_vars /\ Fairness

-----------------------------------------------------------------------------
(* Properties. *)

\* The type of every variable.
TypeOK ==
  /\ mem \in [Keys -> [1..Width -> 0..255]]
  /\ rmw_lock \in Agents \cup {None} /\ wl_lock \in Agents \cup {None}
  /\ waiters \subseteq Waiter /\ next_token \in 0..MaxTokens
  /\ pc \in [Agents -> {"idle", "read", "write", "notify_all", "asleep", "awake"}]
  /\ DOMAIN op = Agents /\ \A a \in Agents : op[a] \in Calls(a) \cup {NoCall}
  /\ seen \in [Agents -> Seq(0..255)] /\ pos \in [Agents -> 0..Width]
  /\ owed \in Nat
  /\ dirty \in [Agents -> SUBSET Keys]

\* No wakeup is lost: nobody sleeps, or holds a pending promise, on a value that
\* has changed, unless a writer has yet to notify the waiters of that element
\* (wait compares holding the list, against stores that take no lock and may be
\* half done).
NoLostWakeup ==
  \A w \in waiters : (~w.notified /\ mem[w.key] # w.expected)
                       => \E a \in Agents : w.key \in dirty[a]

\* notify's answer is the truth: the waiters it counted are those that got "ok"
\* or are about to, whatever deadline expires in between.
CountsMatchWakeups == owed = Cardinality({w \in waiters : w.notified})

\* While an RMW or a wide compareExchange stores its result, the bytes it has
\* not written are those it read, where scripts use no plain store: the
\* operations cannot interleave.
RmwIsolated ==
  \A a \in Agents :
    (/\ pc[a] = "write" /\ op[a].kind \in RmwOps
     /\ \A b \in Agents : "store" \notin Uses[b][op[a].key]) =>
      \A i \in 1..Width : mem[op[a].key][i] = IF i <= pos[a] THEN op[a].new[i] ELSE seen[a][i]

\* A thread blocked in wait that notify has counted does return, whichever of
\* the threads on the shared condition variable are woken first, provided the
\* element is not rewritten for ever under the readers (load_bytes has no bound).
NotifiedWaiterReturns ==
  (\A a \in Agents : <>[](pc[a] # "write")) =>
    \A a \in Blocking : (\E w \in Sleeping(a) : w.notified) ~> (Sleeping(a) = {})

-----------------------------------------------------------------------------
(* A statement of the code's comments that the code does not keep. *)

\* "a torn read is retried (observably atomic for the width)" (load_bytes): a
\* load answers a word that some script stored.
LoadsAreAtomic ==
  \A a \in Agents : (Stable(a) /\ op[a].kind = "load") => seen[a] \in Words
=============================================================================
