------------------------------ MODULE Http1Pool -----------------------------
(***************************************************************************)
(* Keep-alive connections and retries of the HTTP/1.1 client               *)
(* (crates/cv_net/src/http1.rs): Client::send, send_once, the pool shared  *)
(* by all clones of a client, transact and read_until_complete.  This is   *)
(* the path of http origins; https first consults Http2Pool.               *)
(*                                                                         *)
(* One origin: the pool's entries for different keys do not meet.  Each    *)
(* request runs on a thread of its own.  A response is the request it      *)
(* answers and what the client makes of it:                                *)
(*   keep     a body with a length, which leaves the connection usable     *)
(*   close    Connection: close, a body up to EOF, or a 5xx                *)
(*   garbled  a body that does not decode, or stops short                  *)
(*   brotli   a body in the form of brotli that the client cannot decode   *)
(*   interim  a 1xx head, to be followed by the real response              *)
(* A connection the client drops is free again at once: a request still on *)
(* it is carried out then or never.                                        *)
(***************************************************************************)
EXTENDS Integers, Sequences

CONSTANTS
  Reqs,         \* requests, one thread each
  Conns,        \* bound: sockets open at a time
  Kinds,        \* kinds of response that the server uses
  None

ASSUME PoolAssumption ==
  /\ Kinds \subseteq {"keep", "close", "garbled", "brotli", "interim"}
  /\ None \notin Conns

VARIABLES
  pool,             \* ConnPool's entry of the origin, last returned last
  up, asks, replies,    \* sockets: server's end is open; bytes under way, both ways
  pc,               \* new, checkout, write, read, dial, done
  conn,             \* the connection the request owns, or None
  dials,            \* turns left of send_once's dial loop
  accept_brotli,    \* Request.accept_brotli
  answer,           \* the response or error, None before
  sends, acts,      \* history: times written; times carried out by the server
  odd               \* history: connections pooled after an interim response

sockets == <<up, asks, replies>>
vars == <<pool, sockets, pc, conn, dials, accept_brotli, answer, sends, acts, odd>>

Range(s) == {s[i] : i \in 1..Len(s)}
Owned == {conn[r] : r \in Reqs} \ {None}
Idle == Conns \ (Range(pool) \cup Owned)

Init ==
  /\ pool = <<>>
  /\ up = [c \in Conns |-> FALSE]
  /\ asks = [c \in Conns |-> <<>>] /\ replies = [c \in Conns |-> <<>>]
  /\ pc = [r \in Reqs |-> "new"] /\ conn = [r \in Reqs |-> None]
  /\ dials = [r \in Reqs |-> 0] /\ accept_brotli = [r \in Reqs |-> TRUE]
  /\ answer = [r \in Reqs |-> None]
  /\ sends = [r \in Reqs |-> 0] /\ acts = [r \in Reqs |-> 0] /\ odd = {}

-----------------------------------------------------------------------------
(* Sockets *)

\* The server still carries out some of the requests on the sockets C.
CarriedOut(C) ==
  {[r \in Reqs |-> IF r \in S THEN acts[r] + 1 ELSE acts[r]] :
     S \in SUBSET UNION {Range(asks[c]) : c \in C}}

\* The client closes the sockets C.
Drop(C) ==
  /\ up' = [c \in Conns |-> up[c] /\ c \notin C]
  /\ asks' = [c \in Conns |-> IF c \in C THEN <<>> ELSE asks[c]]
  /\ replies' = [c \in Conns |-> IF c \in C THEN <<>> ELSE replies[c]]
  /\ acts' \in CarriedOut(C)
  /\ odd' = odd \ C

\* select with a zero timeout: nothing to read, no FIN and no reset.
is_reuse_safe(c) == up[c] /\ replies[c] = <<>>

-----------------------------------------------------------------------------
(* The client *)

\* evict_stale_pool_entries: the entries that have idled longest.
Evict(r) ==
  /\ pc[r] = "new" /\ pc' = [pc EXCEPT ![r] = "checkout"]
  /\ \E n \in 0..Len(pool) :
       /\ pool' = SubSeq(pool, n + 1, Len(pool))
       /\ Drop(Range(SubSeq(pool, 1, n)))
  /\ UNCHANGED <<conn, dials, accept_brotli, answer, sends>>

\* Seeded fault: the connection is lent, not taken.
checkout_shared(r) ==
  /\ pc[r] = "checkout" /\ dials' = [dials EXCEPT ![r] = 2]
  /\ \E n \in 0..Len(pool) :
       /\ \A i \in n + 1 .. Len(pool) : ~is_reuse_safe(pool[i])
       /\ n > 0 => is_reuse_safe(pool[n])
       /\ pool' = SubSeq(pool, 1, n)
       /\ Drop(Range(SubSeq(pool, n + 1, Len(pool))))
       /\ conn' = [conn EXCEPT ![r] = IF n > 0 THEN pool[n] ELSE None]
       /\ pc' = [pc EXCEPT ![r] = IF n > 0 THEN "write" ELSE "dial"]
  /\ UNCHANGED <<accept_brotli, answer, sends>>

\* The last returned connection that passes the peek; the ones tried before it
\* are dropped.
checkout(r) ==
  /\ pc[r] = "checkout" /\ dials' = [dials EXCEPT ![r] = 2]
  /\ \E n \in 0..Len(pool) :
       /\ \A i \in n + 1 .. Len(pool) : ~is_reuse_safe(pool[i])
       /\ n > 0 => is_reuse_safe(pool[n])
       /\ pool' = SubSeq(pool, 1, n - 1)
       /\ Drop(Range(SubSeq(pool, n + 1, Len(pool))))
       /\ conn' = [conn EXCEPT ![r] = IF n > 0 THEN pool[n] ELSE None]
       /\ pc' = [pc EXCEPT ![r] = IF n > 0 THEN "write" ELSE "dial"]
  /\ UNCHANGED <<accept_brotli, answer, sends>>

\* write_all: into the socket's buffer, whatever has become of the peer.
Write(r) ==
  /\ pc[r] = "write" /\ pc' = [pc EXCEPT ![r] = "read"]
  /\ asks' = IF up[conn[r]] THEN [asks EXCEPT ![conn[r]] = Append(@, r)] ELSE asks
  /\ sends' = [sends EXCEPT ![r] = @ + 1]
  /\ UNCHANGED <<pool, up, replies, conn, dials, accept_brotli, answer, acts, odd>>

Finish(r, result) ==
  /\ pc' = [pc EXCEPT ![r] = "done"] /\ answer' = [answer EXCEPT ![r] = result]

Error(r) == [to |-> r, kind |-> "error"]

Poolable(reply) == reply.kind \in {"keep", "interim"}

\* A complete message has arrived; bytes read with it are cut off.  A clean
\* message boundary puts the connection back, all else closes it.
ReadReply(r) ==
  /\ pc[r] = "read" /\ replies[conn[r]] # <<>>
  /\ conn' = [conn EXCEPT ![r] = None]
  /\ LET c == conn[r]
         reply == Head(replies[c])
     IN IF Poolable(reply)
        THEN /\ \E n \in 1..Len(replies[c]) :
                  replies' = [replies EXCEPT ![c] = SubSeq(@, n + 1, Len(@))]
             /\ pool' = Append(pool, c)
             /\ odd' = IF reply.kind = "interim" THEN odd \cup {c} ELSE odd
             /\ Finish(r, reply)
             /\ UNCHANGED <<up, asks, accept_brotli, acts>>
        ELSE /\ Drop({c})
             /\ IF reply.kind = "brotli" /\ accept_brotli[r]
                THEN /\ accept_brotli' = [accept_brotli EXCEPT ![r] = FALSE]
                     /\ pc' = [pc EXCEPT ![r] = "new"] /\ UNCHANGED answer
                ELSE /\ Finish(r, IF reply.kind = "close" THEN reply ELSE Error(r))
                     /\ UNCHANGED accept_brotli
             /\ UNCHANGED pool
  /\ UNCHANGED <<dials, sends>>

\* Seeded fault: a connection that timed out is kept.
ConnError_pooled(r) ==
  /\ pc[r] = "read" /\ replies[conn[r]] = <<>>
  /\ pool' = Append(pool, conn[r])
  /\ conn' = [conn EXCEPT ![r] = None] /\ pc' = [pc EXCEPT ![r] = "dial"]
  /\ UNCHANGED <<sockets, dials, accept_brotli, answer, sends, acts, odd>>

\* EOF, reset, or the leash or deadline has passed: is_retriable_conn_error.
ConnError(r) ==
  /\ pc[r] = "read" /\ replies[conn[r]] = <<>>
  /\ Drop({conn[r]})
  /\ conn' = [conn EXCEPT ![r] = None] /\ pc' = [pc EXCEPT ![r] = "dial"]
  /\ UNCHANGED <<pool, dials, accept_brotli, answer, sends>>

\* Seeded fault: a dial that succeeds does not use up its turn.
dial_again(r) ==
  /\ pc[r] = "dial" /\ dials[r] > 0
  /\ \E c \in Idle :
       /\ conn' = [conn EXCEPT ![r] = c] /\ up' = [up EXCEPT ![c] = TRUE]
  /\ pc' = [pc EXCEPT ![r] = "write"]
  /\ UNCHANGED <<pool, asks, replies, dials, accept_brotli, answer, sends, acts, odd>>

dial(r) ==
  /\ pc[r] = "dial" /\ dials[r] > 0 /\ dials' = [dials EXCEPT ![r] = @ - 1]
  /\ \E c \in Idle :
       /\ conn' = [conn EXCEPT ![r] = c] /\ up' = [up EXCEPT ![c] = TRUE]
  /\ pc' = [pc EXCEPT ![r] = "write"]
  /\ UNCHANGED <<pool, asks, replies, accept_brotli, answer, sends, acts, odd>>

\* Seeded fault: the loop is not bounded.
DialFails_nobound(r) ==
  /\ pc[r] = "dial" /\ dials' = [dials EXCEPT ![r] = @ - 1]
  /\ UNCHANGED <<pool, sockets, pc, conn, accept_brotli, answer, sends, acts, odd>>

\* A refused or timed out connect takes a turn, a failed lookup ends the request.
DialFails(r) ==
  /\ pc[r] = "dial" /\ dials[r] > 0
  /\ \/ dials' = [dials EXCEPT ![r] = @ - 1] /\ UNCHANGED <<pc, answer>>
     \/ Finish(r, Error(r)) /\ UNCHANGED dials
  /\ UNCHANGED <<pool, sockets, conn, accept_brotli, sends, acts, odd>>

\* Seeded fault: the dial loop is entered again.
GiveUp_loop(r) ==
  /\ pc[r] = "dial" /\ dials[r] = 0 /\ pc' = [pc EXCEPT ![r] = "new"]
  /\ UNCHANGED <<pool, sockets, conn, dials, accept_brotli, answer, sends, acts, odd>>

GiveUp(r) ==
  /\ pc[r] = "dial" /\ dials[r] = 0 /\ Finish(r, Error(r))
  /\ UNCHANGED <<pool, sockets, conn, dials, accept_brotli, sends, acts, odd>>

-----------------------------------------------------------------------------
(* The server *)

\* It carries the request out and answers it.
ServerReplies(c, kind) ==
  /\ up[c] /\ asks[c] # <<>>
  /\ LET r == Head(asks[c])
     IN /\ kind = "brotli" => accept_brotli[r]
        /\ kind # "interim"
        /\ replies' = [replies EXCEPT ![c] = Append(@, [to |-> r, kind |-> kind])]
        /\ acts' = [acts EXCEPT ![r] = @ + 1]
  /\ asks' = [asks EXCEPT ![c] = Tail(@)]
  /\ UNCHANGED <<pool, up, pc, conn, dials, accept_brotli, answer, sends, odd>>

\* A head such as 103 Early Hints, once, before the response.
ServerInterim(c) ==
  /\ "interim" \in Kinds /\ up[c] /\ asks[c] # <<>>
  /\ answer[Head(asks[c])] = None /\ replies[c] = <<>>
  /\ replies' = [replies EXCEPT ![c] = <<[to |-> Head(asks[c]), kind |-> "interim"]>>]
  /\ UNCHANGED <<pool, up, asks, pc, conn, dials, accept_brotli, answer, sends, acts, odd>>

\* It closes an idle connection, or dies before or after it carried out what it
\* was asked; what is under way to the client may be lost.
ServerCloses(c) ==
  /\ up[c] /\ up' = [up EXCEPT ![c] = FALSE]
  /\ asks' = [asks EXCEPT ![c] = <<>>]
  /\ replies' \in {replies, [replies EXCEPT ![c] = <<>>]}
  /\ acts' \in CarriedOut({c})
  /\ UNCHANGED <<pool, pc, conn, dials, accept_brotli, answer, sends, odd>>

-----------------------------------------------------------------------------
Client(r) ==
  \/ Evict(r) \/ checkout(r) \/ Write(r) \/ ReadReply(r) \/ ConnError(r)
  \/ dial(r) \/ DialFails(r) \/ GiveUp(r)

Server(c) ==
  \/ \E kind \in Kinds : ServerReplies(c, kind)
  \/ ServerInterim(c) \/ ServerCloses(c)

Next == (\E r \in Reqs : Client(r)) \/ (\E c \in Conns : Server(c))

\* Threads run, and every read has a timeout; the server owes nothing.
Spec == Init /\ [][Next]_vars /\ \A r \in Reqs : WF_vars(Client(r))

-----------------------------------------------------------------------------
Reply == [to : Reqs, kind : Kinds]

TypeOK ==
  /\ pool \in Seq(Conns)
  /\ up \in [Conns -> BOOLEAN]
  /\ asks \in [Conns -> Seq(Reqs)] /\ replies \in [Conns -> Seq(Reply)]
  /\ pc \in [Reqs -> {"new", "checkout", "write", "read", "dial", "done"}]
  /\ conn \in [Reqs -> Conns \cup {None}]
  /\ dials \in [Reqs -> 0..2] /\ accept_brotli \in [Reqs -> BOOLEAN]
  /\ answer \in [Reqs -> Reply \cup {Error(r) : r \in Reqs} \cup {None}]
  /\ sends \in [Reqs -> Nat] /\ acts \in [Reqs -> Nat]
  /\ odd \subseteq Conns
  /\ \A r \in Reqs : pc[r] \in {"write", "read"} <=> conn[r] # None

\* A connection belongs to one request, or is in the pool once: no two threads
\* ever write to one socket.
Exclusive ==
  /\ \A r, q \in Reqs : r # q /\ conn[r] # None => conn[r] # conn[q]
  /\ \A i, j \in 1..Len(pool) : pool[i] = pool[j] => i = j
  /\ \A r \in Reqs : conn[r] \notin Range(pool)

\* No request is answered with another's response, whatever timeouts, retries
\* and reuse, on a connection that was not pooled after an interim response.
OwnResponse ==
  \A r \in Reqs : pc[r] = "read" /\ conn[r] \notin odd =>
    \A i \in 1..Len(replies[conn[r]]) : replies[conn[r]][i].to = r

\* A request is written to at most three connections for each coding it offers
\* and carried out at most that often.
BoundedResend ==
  \A r \in Reqs : acts[r] <= sends[r] /\ sends[r] <= IF accept_brotli[r] THEN 3 ELSE 6

\* A request ends, whatever the server does.
RequestEnds == \A r \in Reqs : pc[r] # "done" ~> pc[r] = "done"
=============================================================================
