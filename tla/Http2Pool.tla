------------------------------ MODULE Http2Pool -----------------------------
(***************************************************************************)
(* Shared HTTP/2 connections of the client (crates/cv_net/src/http1.rs):   *)
(* h2_send_via_pool, its two levels of mutexes, retries, poisoning and     *)
(* eviction.                                                               *)
(*                                                                         *)
(* Each request runs on a thread of its own.  The inner mutex of a         *)
(* connection is held by the request that does I/O on it, and for a moment *)
(* by one that looks at its flags.  The frames of a request come down to   *)
(* how it ended; the HPACK tables are not modelled.  Nobody reads from a   *)
(* connection that no request drives, so what the server sends on an idle  *)
(* one (GOAWAY, or the end of the stream) is met by the next request.      *)
(***************************************************************************)
EXTENDS Naturals, FiniteSets

CONSTANTS
  Reqs, Origins, Conns,   \* requests; (host, port) keys; bound: connections alive
  Target,                 \* Target[r], the origin of request r
  None

\* The errors of h2_drive_locked: the connection is poisoned, was closed by a
\* GOAWAY, has no stream left; RST_STREAM; a GOAWAY that leaves the stream out;
\* timeout, EOF or a socket error; an answer that cannot be decoded.
Errors == {"poisoned", "goaway", "streams", "reset", "refused", "closed", "reply"}

ASSUME H2Assumption ==
  /\ Target \in [Reqs -> Origins]
  /\ None \notin Conns \cup Reqs \cup Errors

VARIABLES
  outer,      \* the thread that holds the pool's mutex, or None
  pool,       \* pool[o], the connection shared for origin o, or None
  poisoned,   \* H2Conn.poisoned
  goaway,     \* Connection.closed_by_goaway
  unread,     \* the server has sent a GOAWAY that the client has not read
  pc,         \* new, scan, seek, peek, drive, io, evict, dial, insert, done
  arc,        \* the connection that the request refers to, or None
  attempt,    \* pooled, again (a second stream), fresh (a new connection)
  unseen,     \* origins that the scan of h2_evict_stale has still to look at
  result,     \* ok, h1 (left to the HTTP/1 path), error (of a connection it dialed),
              \* the error of a shared connection that it was given up with, or None
  sends,      \* history: times the request was written
  behind      \* history: another request broke the connection while it waited for it

flags == <<poisoned, goaway, unread>>
hist == <<sends, behind>>
vars == <<outer, pool, flags, pc, arc, attempt, unseen, result, hist>>

InUse == {pool[o] : o \in Origins} \cup {arc[r] : r \in Reqs}
NewConn == CHOOSE c \in Conns : c \notin InUse   \* the name does not matter
Busy(c) == \E r \in Reqs : pc[r] = "io" /\ arc[r] = c

is_h2_stream_level_error(e) == e = "reset"
is_retriable_conn_error(e) == e \in {"goaway", "refused", "closed"}

Init ==
  /\ outer = None /\ pool = [o \in Origins |-> None]
  /\ poisoned = [c \in Conns |-> FALSE] /\ goaway = [c \in Conns |-> FALSE]
  /\ unread = [c \in Conns |-> FALSE] /\ behind = [r \in Reqs |-> FALSE]
  /\ pc = [r \in Reqs |-> "new"] /\ arc = [r \in Reqs |-> None]
  /\ attempt = [r \in Reqs |-> "pooled"] /\ unseen = [r \in Reqs |-> {}]
  /\ result = [r \in Reqs |-> None] /\ sends = [r \in Reqs |-> 0]

-----------------------------------------------------------------------------
Step(r, from, to) == pc[r] = from /\ pc' = [pc EXCEPT ![r] = to]

LockOuter(r) == outer = None /\ outer' = r
UnlockOuter(r) == outer = r /\ outer' = None

Finish(r, from, value) == Step(r, from, "done") /\ result' = [result EXCEPT ![r] = value]

\* h2_evict_stale takes the pool's mutex ...
EvictStale(r) ==
  /\ Step(r, "new", "scan") /\ LockOuter(r)
  /\ unseen' = [unseen EXCEPT ![r] = {o \in Origins : pool[o] # None}]
  /\ UNCHANGED <<pool, flags, arc, attempt, result, hist>>

\* ... waits for the mutex of each connection in turn, and removes it when it
\* is poisoned or has idled too long ...
RetainEntry(r, o) ==
  /\ pc[r] = "scan" /\ o \in unseen[r] /\ ~Busy(pool[o])
  /\ unseen' = [unseen EXCEPT ![r] = @ \ {o}]
  /\ \/ pool' = [pool EXCEPT ![o] = None]
     \/ ~poisoned[pool[o]] /\ UNCHANGED pool
  /\ UNCHANGED <<outer, flags, pc, arc, attempt, result, hist>>

\* ... and lets go of it.
EvictStaleEnds(r) ==
  /\ Step(r, "scan", "seek") /\ unseen[r] = {} /\ UnlockOuter(r)
  /\ UNCHANGED <<pool, flags, arc, attempt, unseen, result, hist>>

\* h2_checkout: the pool's mutex, then that of the origin's connection.
Checkout(r) ==
  /\ Step(r, "seek", "peek") /\ LockOuter(r)
  /\ UNCHANGED <<pool, flags, arc, attempt, unseen, result, hist>>

\* Seeded fault: the guard of the pool's mutex lives across the dial.
CheckoutNone_held(r) ==
  /\ Step(r, "peek", "dial") /\ pool[Target[r]] = None
  /\ UNCHANGED <<outer, pool, flags, arc, attempt, unseen, result, hist>>

CheckoutNone(r) ==
  /\ Step(r, "peek", "dial") /\ pool[Target[r]] = None /\ UnlockOuter(r)
  /\ UNCHANGED <<pool, flags, arc, attempt, unseen, result, hist>>

\* Seeded fault: the flags of the connection found are not looked at.
CheckoutFound_unchecked(r) ==
  LET c == pool[Target[r]]
  IN /\ Step(r, "peek", "drive") /\ c # None /\ ~Busy(c) /\ UnlockOuter(r)
     /\ arc' = [arc EXCEPT ![r] = c]
     /\ UNCHANGED <<pool, flags, attempt, unseen, result, hist>>

CheckoutFound(r) ==
  LET o == Target[r]
      c == pool[o]
  IN /\ pc[r] = "peek" /\ c # None /\ ~Busy(c) /\ UnlockOuter(r)
     /\ IF poisoned[c] \/ goaway[c]
        THEN /\ Step(r, "peek", "dial") /\ pool' = [pool EXCEPT ![o] = None]
             /\ UNCHANGED arc
        ELSE /\ Step(r, "peek", "drive") /\ arc' = [arc EXCEPT ![r] = c]
             /\ UNCHANGED pool
     /\ UNCHANGED <<flags, attempt, unseen, result, hist>>

\* h2_drive_locked: the connection's mutex, and its flags looked at again.  They
\* are all it looks at: a GOAWAY that nobody has read does not keep it from writing.
DriveLocked(r) ==
  /\ Step(r, "drive", "io") /\ ~Busy(arc[r])
  /\ ~poisoned[arc[r]] /\ ~goaway[arc[r]]
  /\ sends' = [sends EXCEPT ![r] = @ + 1]
  /\ UNCHANGED <<outer, pool, flags, arc, attempt, unseen, result, behind>>

\* What h2_send_via_pool does with an error of h2_drive_locked: a new stream
\* once, a new connection where the error is retriable, else give up.
Fails(r, from, error) ==
  \/ /\ is_h2_stream_level_error(error) /\ attempt[r] = "pooled"
     /\ Step(r, from, "drive") /\ attempt' = [attempt EXCEPT ![r] = "again"]
     /\ UNCHANGED <<arc, result>>
  \/ /\ \/ is_h2_stream_level_error(error) /\ attempt[r] # "pooled"
        \/ is_retriable_conn_error(error) \/ attempt[r] = "fresh"
     /\ Step(r, from, "evict") /\ UNCHANGED <<arc, attempt, result>>
  \/ /\ ~is_h2_stream_level_error(error) /\ ~is_retriable_conn_error(error)
     /\ attempt[r] # "fresh"
     /\ Finish(r, from, error) /\ arc' = [arc EXCEPT ![r] = None]
     /\ UNCHANGED attempt

\* guard.poisoned = true, under the connection's mutex.  Nothing is read from the
\* connection after that.
Poison(r) ==
  /\ poisoned' = [poisoned EXCEPT ![arc[r]] = TRUE]
  /\ unread' = [unread EXCEPT ![arc[r]] = FALSE]
  /\ behind' = [q \in Reqs |-> behind[q] \/ (q # r /\ pc[q] = "drive" /\ arc[q] = arc[r])]

\* A connection poisoned by a request ahead in the queue is no retriable error,
\* one closed by GOAWAY is.  The server may have taken up all streams it allows
\* with streams of its own; that error leaves the connection as it is.
DriveRefused(r) ==
  /\ pc[r] = "drive" /\ ~Busy(arc[r])
  /\ \/ /\ poisoned[arc[r]]
        /\ Fails(r, "drive", "poisoned") /\ UNCHANGED <<poisoned, unread, behind>>
     \/ ~poisoned[arc[r]] /\ goaway[arc[r]] /\ Fails(r, "drive", "goaway") /\ Poison(r)
     \/ /\ ~poisoned[arc[r]] /\ ~goaway[arc[r]]
        /\ Fails(r, "drive", "streams") /\ UNCHANGED <<poisoned, unread, behind>>
  /\ UNCHANGED <<outer, pool, goaway, unseen, sends>>

\* A clean END_STREAM.
Response(r) ==
  /\ Finish(r, "io", "ok") /\ arc' = [arc EXCEPT ![r] = None]
  /\ UNCHANGED <<outer, pool, flags, attempt, unseen, hist>>

\* The server sends GOAWAY, whether the connection is in use or idle.
ServerGoaway(c) ==
  /\ c \in InUse \ {None} /\ ~unread[c] /\ ~goaway[c] /\ ~poisoned[c]
  /\ unread' = [unread EXCEPT ![c] = TRUE]
  /\ UNCHANGED <<outer, pool, poisoned, goaway, pc, arc, attempt, unseen, result, hist>>

\* The GOAWAY read by a request whose stream it includes: the flag is set and the
\* request goes on.
GoawayAccepts(r) ==
  /\ pc[r] = "io" /\ unread[arc[r]]
  /\ unread' = [unread EXCEPT ![arc[r]] = FALSE]
  /\ goaway' = [goaway EXCEPT ![arc[r]] = TRUE]
  /\ UNCHANGED <<outer, pool, poisoned, pc, arc, attempt, unseen, result, hist>>

\* A GOAWAY, or a second one, that leaves the stream out.
GoawayRefuses(r) ==
  /\ pc[r] = "io" /\ (unread[arc[r]] \/ goaway[arc[r]])
  /\ Poison(r) /\ Fails(r, "io", "refused")
  /\ UNCHANGED <<outer, pool, goaway, unseen, sends>>

\* RST_STREAM: the connection stays as it is.
StreamReset(r) ==
  /\ pc[r] = "io" /\ Fails(r, "io", "reset")
  /\ UNCHANGED <<outer, pool, flags, unseen, hist>>

\* Timeout, EOF (also of a connection the server closed while it was idle), a
\* socket error, or an answer that does not decode.
ConnFails(r) ==
  /\ pc[r] = "io" /\ Poison(r)
  /\ \E error \in {"closed", "reply"} : Fails(r, "io", error)
  /\ UNCHANGED <<outer, pool, goaway, unseen, sends>>

\* Seeded fault: what a failed fresh connection leaves is tried again.
Evict_retry(r) ==
  /\ outer = None /\ pool' = [pool EXCEPT ![Target[r]] = None]
  /\ arc' = [arc EXCEPT ![r] = None]
  /\ Step(r, "evict", "dial")
  /\ UNCHANGED <<outer, flags, attempt, unseen, result, hist>>

\* Seeded fault: the retry goes on with the connection just let go of.
Evict_nodial(r) ==
  /\ outer = None /\ pool' = [pool EXCEPT ![Target[r]] = None]
  /\ arc' = [arc EXCEPT ![r] = None]
  /\ IF attempt[r] = "fresh" THEN Finish(r, "evict", "error")
     ELSE Step(r, "evict", "drive") /\ UNCHANGED result
  /\ UNCHANGED <<outer, flags, attempt, unseen, hist>>

\* h2_evict: whatever the pool now holds for the origin goes.
Evict(r) ==
  /\ outer = None /\ pool' = [pool EXCEPT ![Target[r]] = None]
  /\ arc' = [arc EXCEPT ![r] = None]
  /\ IF attempt[r] = "fresh" THEN Finish(r, "evict", "error")
     ELSE Step(r, "evict", "dial") /\ UNCHANGED result
  /\ UNCHANGED <<outer, flags, attempt, unseen, hist>>

\* A socket with ALPN h2 and its preface, without any lock.
Dial(r) ==
  /\ Step(r, "dial", "insert")
  /\ Conns \ InUse # {} /\ arc' = [arc EXCEPT ![r] = NewConn]
  /\ poisoned' = [poisoned EXCEPT ![NewConn] = FALSE]
  /\ goaway' = [goaway EXCEPT ![NewConn] = FALSE]
  /\ unread' = [unread EXCEPT ![NewConn] = FALSE]
  /\ UNCHANGED <<outer, pool, attempt, unseen, result, hist>>

\* No h2 here, or no connection at all: the HTTP/1 path goes on.  An error
\* while the preface is written ends the request.
DialLeaves(r) ==
  /\ \E value \in {"h1", "error"} : Finish(r, "dial", value)
  /\ UNCHANGED <<outer, pool, flags, arc, attempt, unseen, hist>>

\* The new connection takes the place of any other thread's.
Insert(r) ==
  /\ outer = None /\ pool' = [pool EXCEPT ![Target[r]] = arc[r]]
  /\ Step(r, "insert", "drive") /\ attempt' = [attempt EXCEPT ![r] = "fresh"]
  /\ UNCHANGED <<outer, flags, arc, unseen, result, hist>>

-----------------------------------------------------------------------------
Thread(r) ==
  \/ EvictStale(r) \/ (\E o \in Origins : RetainEntry(r, o)) \/ EvictStaleEnds(r)
  \/ Checkout(r) \/ CheckoutNone(r) \/ CheckoutFound(r)
  \/ DriveLocked(r) \/ DriveRefused(r)
  \/ Response(r) \/ GoawayAccepts(r) \/ GoawayRefuses(r) \/ StreamReset(r) \/ ConnFails(r)
  \/ Evict(r) \/ Dial(r) \/ DialLeaves(r) \/ Insert(r)

Next == (\E r \in Reqs : Thread(r)) \/ (\E c \in Conns : ServerGoaway(c))

\* Threads run, mutexes are passed on, and a request has a deadline.
Spec == Init /\ [][Next]_vars /\ \A r \in Reqs : WF_vars(Thread(r))

-----------------------------------------------------------------------------
TypeOK ==
  /\ outer \in Reqs \cup {None} /\ pool \in [Origins -> Conns \cup {None}]
  /\ poisoned \in [Conns -> BOOLEAN] /\ goaway \in [Conns -> BOOLEAN]
  /\ unread \in [Conns -> BOOLEAN]
  /\ pc \in [Reqs -> {"new", "scan", "seek", "peek", "drive", "io", "evict",
                      "dial", "insert", "done"}]
  /\ arc \in [Reqs -> Conns \cup {None}]
  /\ attempt \in [Reqs -> {"pooled", "again", "fresh"}]
  /\ unseen \in [Reqs -> SUBSET Origins]
  /\ result \in [Reqs -> {"ok", "error", "h1", None} \cup Errors]
  /\ sends \in [Reqs -> Nat] /\ behind \in [Reqs -> BOOLEAN]
  /\ \A r \in Reqs : pc[r] \in {"drive", "io", "insert"} => arc[r] # None

\* A shared connection that has gone stale fails nobody who came to it later: a
\* request is given up without a connection of its own only for an answer that
\* cannot be used, for want of streams, or because another request broke the
\* connection while it was waiting for it.  Neither a GOAWAY or a close met on an
\* idle connection, nor one that is poisoned and not evicted yet, shows.
StaleIsHidden ==
  \A r \in Reqs : result[r] \in Errors =>
    \/ result[r] \in {"reply", "streams"}
    \/ result[r] = "poisoned" /\ behind[r]

\* One call of h2_send_via_pool writes a request three times at most: on the
\* shared connection, on a second stream of it, on a new one.
ThreeSends ==
  \A r \in Reqs :
    sends[r] <= IF attempt[r] = "pooled" THEN 1 ELSE IF attempt[r] = "again" THEN 2 ELSE 3

\* The two levels of mutexes and the retries never leave a request hanging.
RequestEnds == <>(\A r \in Reqs : pc[r] = "done")
=============================================================================
