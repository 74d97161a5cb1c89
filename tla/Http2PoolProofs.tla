-------------------------- MODULE Http2PoolProofs ---------------------------
(***************************************************************************)
(* For any requests, origins and connections: the types of the shared      *)
(* HTTP/2 connections, the bound on how often a request is written, and    *)
(* that a stale connection only fails requests that were waiting for it.   *)
(***************************************************************************)
EXTENDS Http2Pool, TLAPS

\* Times a request may have been written when it is in the given attempt.
Limit(a) == IF a = "pooled" THEN 1 ELSE IF a = "again" THEN 2 ELSE 3

\* A request on its way to a connection has a write of its attempt left, and a
\* new connection is the last attempt.
SendsLeft ==
  \A r \in Reqs :
    /\ sends[r] <= Limit(attempt[r])
    /\ pc[r] \in {"new", "scan", "seek", "peek", "drive"} =>
         sends[r] + 1 <= Limit(attempt[r])
    /\ attempt[r] = "fresh" => pc[r] \in {"drive", "io", "evict", "done"}

\* The request that does I/O on a connection is alone in that.
IoAlone ==
  \A r, q \in Reqs : pc[r] = "io" /\ pc[q] = "io" /\ arc[r] = arc[q] => r = q

\* A connection that was dialed and is not in the pool yet is nobody else's.
DialedIsPrivate ==
  \A r \in Reqs : pc[r] = "insert" =>
    /\ \A q \in Reqs : q # r => arc[q] # arc[r]
    /\ \A o \in Origins : pool[o] # arc[r]

\* A request has a connection that is intact, or waited while it was broken.
IntactOrWaited ==
  \A r \in Reqs :
    /\ pc[r] \in {"io", "insert"} => ~poisoned[arc[r]]
    /\ pc[r] = "drive" => ~poisoned[arc[r]] \/ behind[r]

Sharing == IoAlone /\ DialedIsPrivate /\ IntactOrWaited

IInv == TypeOK /\ SendsLeft /\ Sharing /\ StaleIsHidden

\* Init: an empty pool, no request started.
LEMMA InitIInv == Init => IInv
  BY H2Assumption DEF Init, IInv, TypeOK, SendsLeft, Limit, Sharing, IoAlone,
                      DialedIsPrivate, IntactOrWaited, StaleIsHidden, Errors

\* h2_dial: when the bound leaves a connection, the new one is one of them.
LEMMA NewConnType == Conns \ InUse # {} => NewConn \in Conns /\ NewConn # None
  BY H2Assumption DEF NewConn

\* What a failed h2_drive_locked leads to keeps the types.
LEMMA FailsType ==
  ASSUME TypeOK, NEW r \in Reqs, NEW from \in {"drive", "io"},
         NEW error \in Errors, Fails(r, from, error)
  PROVE  /\ pc' \in [Reqs -> {"new", "scan", "seek", "peek", "drive", "io", "evict",
                              "dial", "insert", "done"}]
         /\ arc' \in [Reqs -> Conns \cup {None}]
         /\ attempt' \in [Reqs -> {"pooled", "again", "fresh"}]
         /\ result' \in [Reqs -> {"ok", "error", "h1", None} \cup Errors]
         /\ \A q \in Reqs : pc'[q] \in {"drive", "io", "insert"} => arc'[q] # None
  BY DEF TypeOK, Fails, Finish, Step

\* Every action of a request's thread keeps the types.
LEMMA TypeStep == TypeOK /\ [Next]_vars => TypeOK'
<1> SUFFICES ASSUME TypeOK, [Next]_vars PROVE TypeOK'
  OBVIOUS
<1>0. CASE UNCHANGED vars
  BY <1>0 DEF TypeOK, vars, flags, hist
<1>1. CASE \E c \in Conns : ServerGoaway(c)
  BY <1>1 DEF TypeOK, ServerGoaway, hist
<1> SUFFICES ASSUME NEW r \in Reqs, Thread(r) PROVE TypeOK'
  BY <1>0, <1>1 DEF Next
<1> USE DEF flags, hist
<1>2. CASE EvictStale(r) \/ EvictStaleEnds(r) \/ Checkout(r) \/ CheckoutNone(r)
  BY <1>2 DEF TypeOK, EvictStale, EvictStaleEnds, Checkout, CheckoutNone, Step,
              LockOuter, UnlockOuter
<1>3. CASE \E o \in Origins : RetainEntry(r, o)
  BY <1>3 DEF TypeOK, RetainEntry
<1>4. CASE CheckoutFound(r)
  BY <1>4, H2Assumption DEF TypeOK, CheckoutFound, Step, UnlockOuter
<1>5. CASE DriveLocked(r)
  BY <1>5 DEF TypeOK, DriveLocked, Step
<1>6. ASSUME pc[r] \in {"drive", "io"},
             Poison(r) \/ UNCHANGED <<poisoned, unread, behind>>
      PROVE  /\ poisoned' \in [Conns -> BOOLEAN] /\ unread' \in [Conns -> BOOLEAN]
             /\ behind' \in [Reqs -> BOOLEAN]
  BY <1>6 DEF TypeOK, Poison
<1>7. CASE DriveRefused(r)
  <2>1. \E error \in Errors : Fails(r, "drive", error)
    BY <1>7 DEF DriveRefused, Errors
  <2>2. pc[r] \in {"drive", "io"} /\ (Poison(r) \/ UNCHANGED <<poisoned, unread, behind>>)
    BY <1>7 DEF DriveRefused
  <2> QED
    BY <1>6, <1>7, <2>1, <2>2, FailsType DEF DriveRefused, TypeOK
<1>8. CASE Response(r)
  BY <1>8 DEF TypeOK, Response, Finish, Step
<1>9. CASE GoawayAccepts(r)
  BY <1>9 DEF TypeOK, GoawayAccepts
<1>10. CASE StreamReset(r)
  <2>1. \E error \in Errors : Fails(r, "io", error)
    BY <1>10 DEF StreamReset, Errors
  <2> QED
    BY <1>10, <2>1, FailsType DEF TypeOK, StreamReset
<1>11. CASE GoawayRefuses(r) \/ ConnFails(r)
  <2>1. \E error \in Errors : Fails(r, "io", error)
    BY <1>11 DEF GoawayRefuses, ConnFails, Errors
  <2>2. pc[r] \in {"drive", "io"} /\ Poison(r)
    BY <1>11 DEF GoawayRefuses, ConnFails
  <2> QED
    BY <1>6, <1>11, <2>1, <2>2, FailsType DEF GoawayRefuses, ConnFails, TypeOK
<1>12. CASE Evict(r)
  BY <1>12 DEF TypeOK, Evict, Finish, Step
<1>13. CASE Dial(r)
  BY <1>13, NewConnType DEF TypeOK, Dial, Step
<1>14. CASE DialLeaves(r)
  BY <1>14 DEF TypeOK, DialLeaves, Finish, Step
<1>15. CASE Insert(r)
  BY <1>15 DEF TypeOK, Insert, Step
<1> QED
  BY <1>2, <1>3, <1>4, <1>5, <1>7, <1>8, <1>9, <1>10, <1>11, <1>12, <1>13, <1>14, <1>15
     DEF Thread

\* Every action keeps the account of the writes that are left.
LEMMA SendsStep == TypeOK /\ SendsLeft /\ [Next]_vars => SendsLeft'
<1> SUFFICES ASSUME TypeOK, SendsLeft, [Next]_vars PROVE SendsLeft'
  OBVIOUS
<1>0. CASE UNCHANGED vars
  BY <1>0 DEF SendsLeft, vars, hist
<1>8. CASE \E c \in Conns : ServerGoaway(c)
  BY <1>8 DEF SendsLeft, ServerGoaway, hist
<1> SUFFICES ASSUME NEW r \in Reqs, Thread(r) PROVE SendsLeft'
  BY <1>0, <1>8 DEF Next
<1> USE DEF TypeOK, SendsLeft, Limit, hist
<1>1. CASE EvictStale(r) \/ EvictStaleEnds(r) \/ Checkout(r) \/ CheckoutNone(r)
  BY <1>1 DEF EvictStale, EvictStaleEnds, Checkout, CheckoutNone, Step
<1>2. CASE \E o \in Origins : RetainEntry(r, o)
  BY <1>2 DEF RetainEntry
<1>3. CASE CheckoutFound(r)
  BY <1>3 DEF CheckoutFound, Step
<1>4. CASE DriveLocked(r)
  BY <1>4 DEF DriveLocked, Step
<1>5. CASE DriveRefused(r)
  BY <1>5 DEF DriveRefused, Fails, Finish, Step
<1>6. CASE \/ Response(r) \/ GoawayAccepts(r) \/ GoawayRefuses(r)
          \/ StreamReset(r) \/ ConnFails(r)
  BY <1>6 DEF Response, GoawayAccepts, GoawayRefuses, StreamReset, ConnFails, Fails,
              Finish, Step
<1>7. CASE Evict(r) \/ Dial(r) \/ DialLeaves(r) \/ Insert(r)
  BY <1>7 DEF Evict, Dial, DialLeaves, Insert, Finish, Step
<1> QED
  BY <1>1, <1>2, <1>3, <1>4, <1>5, <1>6, <1>7 DEF Thread

\* What a failed h2_drive_locked leads to: the request is off the connection, or
\* drives a second stream of it, and is given up only with its error.
LEMMA FailsEffect ==
  ASSUME TypeOK, NEW r \in Reqs, NEW from \in {"drive", "io"},
         NEW error \in Errors, Fails(r, from, error)
  PROVE  /\ pc[r] = from
         /\ \A q \in Reqs : q # r => pc'[q] = pc[q] /\ arc'[q] = arc[q] /\ result'[q] = result[q]
         /\ pc'[r] \in {"drive", "evict", "done"} /\ arc'[r] \in {arc[r], None}
         /\ pc'[r] = "drive" => error = "reset" /\ arc'[r] = arc[r]
         /\ \/ result'[r] = result[r]
            \/ result'[r] = error /\ error \in {"poisoned", "streams", "reply"}
  BY DEF TypeOK, Fails, Finish, Step, is_h2_stream_level_error, is_retriable_conn_error,
         Errors

\* A request that fails without breaking its connection keeps what is shared apart.
LEMMA FailsIntact ==
  ASSUME TypeOK, Sharing, NEW r \in Reqs, NEW from \in {"drive", "io"},
         NEW error \in Errors, Fails(r, from, error), error = "reset" => from = "io",
         UNCHANGED <<pool, poisoned, behind>>
  PROVE  Sharing'
<1> USE FailsEffect DEF TypeOK, Sharing
<1>1. IoAlone'
  BY DEF IoAlone
<1>2. DialedIsPrivate'
  BY DEF DialedIsPrivate
<1>3. IntactOrWaited'
  BY DEF IntactOrWaited
<1> QED
  BY <1>1, <1>2, <1>3

\* One that breaks it was alone in I/O on it, and leaves word to those that wait.
LEMMA FailsPoison ==
  ASSUME TypeOK, Sharing, NEW r \in Reqs, NEW from \in {"drive", "io"},
         NEW error \in Errors \ {"reset"}, Fails(r, from, error),
         from = "io" \/ ~Busy(arc[r]), Poison(r), UNCHANGED pool
  PROVE  Sharing'
<1> USE FailsEffect DEF TypeOK, Sharing
<1>1. IoAlone'
  BY DEF IoAlone
<1>2. DialedIsPrivate'
  BY DEF DialedIsPrivate
<1>3. \A q \in Reqs : q # r /\ pc[q] \in {"io", "insert"} => arc[q] # arc[r]
  BY DEF IoAlone, DialedIsPrivate, Busy
<1>4. \A q \in Reqs : q # r => (pc'[q] \in {"io", "insert"} => ~poisoned'[arc'[q]])
  BY <1>3 DEF IntactOrWaited, Poison
<1>5. \A q \in Reqs : q # r => (pc'[q] = "drive" => ~poisoned'[arc'[q]] \/ behind'[q])
  <2> SUFFICES ASSUME NEW q \in Reqs, q # r, pc'[q] = "drive"
               PROVE  ~poisoned'[arc'[q]] \/ behind'[q]
    OBVIOUS
  <2>1. pc[q] = "drive" /\ arc'[q] = arc[q] /\ arc[q] \in Conns
    OBVIOUS
  <2>2. behind'[q] = (behind[q] \/ (q # r /\ pc[q] = "drive" /\ arc[q] = arc[r]))
    BY DEF Poison
  <2>3. CASE arc[q] = arc[r]
    BY <2>1, <2>2, <2>3
  <2>4. CASE arc[q] # arc[r]
    <3>1. poisoned'[arc[q]] = poisoned[arc[q]]
      BY <2>1, <2>4 DEF Poison
    <3>2. ~poisoned[arc[q]] \/ behind[q]
      BY <2>1 DEF IntactOrWaited
    <3> QED
      BY ONLY <2>1, <2>2, <3>1, <3>2
  <2> QED
    BY <2>3, <2>4
<1>6. pc'[r] \in {"evict", "done"}
  OBVIOUS
<1>7. IntactOrWaited'
  BY <1>4, <1>5, <1>6 DEF IntactOrWaited
<1> QED
  BY <1>1, <1>2, <1>7

\* What a request is given up with is no sign of a stale connection, unless it
\* waited while that broke.
LEMMA FailsHidden ==
  ASSUME TypeOK, StaleIsHidden, NEW r \in Reqs, NEW from \in {"drive", "io"},
         NEW error \in Errors, Fails(r, from, error),
         error = "poisoned" => behind'[r], \A q \in Reqs : behind[q] => behind'[q]
  PROVE  StaleIsHidden'
<1>1. \A q \in Reqs : q # r => result'[q] = result[q]
  BY FailsEffect
<1>2. \/ result'[r] = result[r]
      \/ result'[r] = error /\ error \in {"poisoned", "streams", "reply"}
  BY FailsEffect
<1> QED
  BY <1>1, <1>2 DEF StaleIsHidden

\* Every action keeps connections to one request at a time, and what is broken
\* away from requests that did not wait for it.
LEMMA SharingStep ==
  TypeOK /\ Sharing /\ StaleIsHidden /\ [Next]_vars => Sharing' /\ StaleIsHidden'
<1> SUFFICES ASSUME TypeOK, Sharing, StaleIsHidden, [Next]_vars
             PROVE  Sharing' /\ StaleIsHidden'
  OBVIOUS
<1> USE H2Assumption DEF flags, hist
<1>0. CASE UNCHANGED vars
  BY <1>0 DEF vars, StaleIsHidden,
     Sharing, IoAlone, DialedIsPrivate, IntactOrWaited
<1>1. CASE \E c \in Conns : ServerGoaway(c)
  BY <1>1 DEF ServerGoaway, StaleIsHidden,
     Sharing, IoAlone, DialedIsPrivate, IntactOrWaited
<1> SUFFICES ASSUME NEW r \in Reqs, Thread(r) PROVE Sharing' /\ StaleIsHidden'
  BY <1>0, <1>1 DEF Next
<1>2. CASE EvictStale(r) \/ EvictStaleEnds(r) \/ Checkout(r) \/ CheckoutNone(r)
  BY <1>2 DEF EvictStale, EvictStaleEnds, Checkout, CheckoutNone, Step, TypeOK, StaleIsHidden,
     Sharing, IoAlone, DialedIsPrivate, IntactOrWaited
<1>3. CASE \E o \in Origins : RetainEntry(r, o)
  BY <1>3 DEF RetainEntry, TypeOK, StaleIsHidden,
     Sharing, IoAlone, DialedIsPrivate, IntactOrWaited
<1>4. CASE CheckoutFound(r)
  <2>1. Sharing'
    BY <1>4 DEF CheckoutFound, Step, TypeOK, Sharing, IoAlone, DialedIsPrivate, IntactOrWaited
  <2>2. StaleIsHidden'
    BY <1>4 DEF CheckoutFound, StaleIsHidden
  <2> QED
    BY <2>1, <2>2
<1>5. CASE DriveLocked(r)
  BY <1>5 DEF DriveLocked, Step, Busy, TypeOK, StaleIsHidden,
     Sharing, IoAlone, DialedIsPrivate, IntactOrWaited
<1>6. ASSUME Poison(r) PROVE \A q \in Reqs : behind[q] => behind'[q]
  BY <1>6 DEF Poison
<1>a. /\ Errors \ {"reset"} = {"poisoned", "goaway", "streams", "refused", "closed", "reply"}
      /\ "reset" \in Errors
  BY DEF Errors
<1>7. CASE DriveRefused(r)
  <2>1. CASE poisoned[arc[r]]
    <3>1. /\ Fails(r, "drive", "poisoned") /\ UNCHANGED <<pool, poisoned, behind>>
          /\ pc[r] = "drive"
      BY <1>7, <2>1 DEF DriveRefused
    <3>2. behind'[r]
      BY <2>1, <3>1 DEF IntactOrWaited, Sharing
    <3> QED
      BY <3>1, <3>2, <1>a, FailsIntact, FailsHidden
  <2>2. CASE ~poisoned[arc[r]] /\ goaway[arc[r]]
    <3>1. Fails(r, "drive", "goaway") /\ Poison(r) /\ UNCHANGED pool /\ ~Busy(arc[r])
      BY <1>7, <2>2 DEF DriveRefused
    <3> QED
      BY <3>1, <1>6, <1>a, FailsPoison, FailsHidden
  <2>3. CASE ~poisoned[arc[r]] /\ ~goaway[arc[r]]
    <3>1. Fails(r, "drive", "streams") /\ UNCHANGED <<pool, poisoned, behind>>
      BY <1>7, <2>3 DEF DriveRefused
    <3> QED
      BY <3>1, <1>a, FailsIntact, FailsHidden
  <2> QED
    BY <2>1, <2>2, <2>3
<1>8. CASE Response(r)
  <2>1. Sharing'
    BY <1>8 DEF Response, Finish, Step, TypeOK, Sharing, IoAlone, DialedIsPrivate, IntactOrWaited
  <2>2. StaleIsHidden'
    <3>1. "ok" \notin Errors
      BY DEF Errors
    <3> QED
      BY <1>8, <3>1 DEF Response, Finish, TypeOK, StaleIsHidden
  <2> QED
    BY <2>1, <2>2
<1>b. CASE GoawayAccepts(r)
  BY <1>b DEF GoawayAccepts, StaleIsHidden, Sharing, IoAlone, DialedIsPrivate, IntactOrWaited
<1>9. CASE StreamReset(r)
  <2>1. Fails(r, "io", "reset") /\ UNCHANGED <<pool, poisoned, behind>>
    BY <1>9 DEF StreamReset
  <2> QED
    BY <2>1, <1>a, FailsIntact, FailsHidden
<1>10. CASE GoawayRefuses(r) \/ ConnFails(r)
  <2>1. PICK error \in {"refused", "closed", "reply"} : Fails(r, "io", error)
    BY <1>10 DEF GoawayRefuses, ConnFails
  <2>2. Poison(r) /\ UNCHANGED pool
    BY <1>10 DEF GoawayRefuses, ConnFails
  <2> QED
    BY <2>1, <2>2, <1>6, <1>a, FailsPoison, FailsHidden
<1>c. "error" \notin Errors /\ "h1" \notin Errors
  BY DEF Errors
<1>11. CASE Evict(r)
  <2>1. Sharing'
    BY <1>11 DEF Evict, Finish, Step, TypeOK, Sharing, IoAlone, DialedIsPrivate, IntactOrWaited
  <2>2. StaleIsHidden'
    BY <1>11, <1>c DEF Evict, Finish, TypeOK, StaleIsHidden
  <2> QED
    BY <2>1, <2>2
<1>12. CASE Dial(r)
  BY <1>12, NewConnType DEF Dial, NewConn, InUse, Step, TypeOK, StaleIsHidden,
     Sharing, IoAlone, DialedIsPrivate, IntactOrWaited
<1>13. CASE DialLeaves(r)
  <2>1. Sharing'
    BY <1>13 DEF DialLeaves, Finish, Step, TypeOK, Sharing, IoAlone, DialedIsPrivate, IntactOrWaited
  <2>2. StaleIsHidden'
    BY <1>13, <1>c DEF DialLeaves, Finish, TypeOK, StaleIsHidden
  <2> QED
    BY <2>1, <2>2
<1>14. CASE Insert(r)
  BY <1>14 DEF Insert, Step, TypeOK, StaleIsHidden,
     Sharing, IoAlone, DialedIsPrivate, IntactOrWaited
<1> QED
  BY <1>2, <1>3, <1>4, <1>5, <1>6, <1>7, <1>8, <1>9, <1>10, <1>11, <1>12, <1>13, <1>14, <1>b
     DEF Thread

\* The inductive invariant holds in every behaviour.
THEOREM Invariance == Spec => []IInv
<1>1. IInv /\ [Next]_vars => IInv'
  BY TypeStep, SendsStep, SharingStep DEF IInv
<1> QED
  BY InitIInv, <1>1, PTL DEF Spec

\* The types of the pool, its mutex and its requests (h2_send_via_pool).
THEOREM H2TypeCorrect == Spec => []TypeOK
<1>1. IInv => TypeOK
  BY DEF IInv
<1> QED
  BY Invariance, <1>1, PTL

\* However streams are reset and connections fail, one call of h2_send_via_pool
\* writes a request three times at most.
THEOREM AtMostThreeSends == Spec => []ThreeSends
<1>1. IInv => ThreeSends
  BY DEF IInv, SendsLeft, Limit, ThreeSends, TypeOK
<1> QED
  BY Invariance, <1>1, PTL

\* A GOAWAY or a close of an idle connection, and one that is broken but still in
\* the pool, never fail a request that was not waiting when it broke: h2_checkout
\* leaves it aside or h2_send_via_pool dials anew.
THEOREM StaleNeverShows == Spec => []StaleIsHidden
<1>1. IInv => StaleIsHidden
  BY DEF IInv
<1> QED
  BY Invariance, <1>1, PTL
=============================================================================
