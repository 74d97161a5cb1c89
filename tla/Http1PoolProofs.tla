-------------------------- MODULE Http1PoolProofs ---------------------------
(***************************************************************************)
(* For any requests, connections and kinds of response: the types of the   *)
(* HTTP/1.1 client, that a connection has one user at a time, and that no  *)
(* request reads the response of another, and that retries are bounded.    *)
(***************************************************************************)
EXTENDS Http1Pool, TLAPS

Pcs == {"new", "checkout", "write", "read", "dial", "done"}
Answers == Reply \cup {Error(r) : r \in Reqs} \cup {None}

\* What is under way on connection c when r, which has written to it, is its
\* first user since a clean boundary: at most r's request and an interim head,
\* then r's response.
OneExchange(c, r) ==
  /\ \A i \in 1..Len(replies[c]) : replies[c][i].to = r
  /\ \A i \in 1..Len(asks[c]) : asks[c][i] = r
  /\ Len(asks[c]) <= 1
  /\ Len(asks[c]) = 1 => Len(replies[c]) <= 1
  /\ Len(asks[c]) = 1 /\ Len(replies[c]) = 1 => replies[c][1].kind = "interim"
  /\ Len(replies[c]) > 0 /\ replies[c][1].kind # "interim" => Len(replies[c]) = 1

Quiet(c) == asks[c] = <<>> /\ replies[c] = <<>>

\* Connections that were not pooled after an interim response: nothing is under
\* way on one that is pooled, free or about to be used, one exchange on one in
\* use.  The others are in use or in the pool.
Tidy ==
  /\ odd \subseteq Range(pool) \cup Owned
  /\ \A c \in Conns \ odd :
       /\ c \notin Owned => Quiet(c)
       /\ \A r \in Reqs : conn[r] = c /\ pc[r] = "write" => Quiet(c)
       /\ \A r \in Reqs : conn[r] = c /\ pc[r] = "read" => OneExchange(c, r)

IInv == TypeOK /\ Exclusive /\ Tidy

\* A part of a sequence.
LEMMA Part ==
  ASSUME NEW S, NEW s \in Seq(S), NEW m \in 1..Len(s) + 1, NEW n \in (m - 1)..Len(s)
  PROVE  /\ SubSeq(s, m, n) \in Seq(S)
         /\ Len(SubSeq(s, m, n)) = n - m + 1
         /\ \A i \in 1..(n - m + 1) : SubSeq(s, m, n)[i] = s[m + i - 1]
         /\ \A x : x \in Range(SubSeq(s, m, n)) <=> \E i \in m..n : x = s[i]
<1>1. /\ SubSeq(s, m, n) \in Seq(S)
      /\ Len(SubSeq(s, m, n)) = n - m + 1
      /\ \A i \in 1..(n - m + 1) : SubSeq(s, m, n)[i] = s[m + i - 1]
  OBVIOUS
<1>2. ASSUME NEW i \in m..n PROVE s[i] \in Range(SubSeq(s, m, n))
  <2>1. i - m + 1 \in 1..(n - m + 1) /\ s[i] = SubSeq(s, m, n)[i - m + 1]
    BY <1>1
  <2> QED
    BY <1>1, <2>1 DEF Range
<1>3. ASSUME NEW i \in 1..(n - m + 1) PROVE \E j \in m..n : SubSeq(s, m, n)[i] = s[j]
  <2>1. m + i - 1 \in m..n
    OBVIOUS
  <2> QED
    BY <1>1, <2>1
<1>4. \A x : x \in Range(SubSeq(s, m, n)) <=>
              \E i \in 1..(n - m + 1) : x = SubSeq(s, m, n)[i]
  BY <1>1 DEF Range
<1>5. \A x : x \in Range(SubSeq(s, m, n)) <=> \E i \in m..n : x = s[i]
  BY <1>2, <1>3, <1>4
<1> QED
  BY <1>1, <1>5

\* What remains without the first k members.
LEMMA Suffix ==
  ASSUME NEW S, NEW s \in Seq(S), NEW k \in 0..Len(s)
  PROVE  /\ SubSeq(s, k + 1, Len(s)) \in Seq(S)
         /\ Len(SubSeq(s, k + 1, Len(s))) = Len(s) - k
         /\ \A i \in 1..(Len(s) - k) : SubSeq(s, k + 1, Len(s))[i] = s[k + i]
         /\ \A x : x \in Range(SubSeq(s, k + 1, Len(s))) <=> \E i \in k + 1 .. Len(s) : x = s[i]
<1>1. PICK m \in 1..Len(s) + 1 : m = k + 1
  OBVIOUS
<1>2. PICK n \in (m - 1)..Len(s) : n = Len(s)
  BY <1>1
<1>3. /\ SubSeq(s, m, n) \in Seq(S)
      /\ Len(SubSeq(s, m, n)) = n - m + 1
      /\ \A i \in 1..(n - m + 1) : SubSeq(s, m, n)[i] = s[m + i - 1]
      /\ \A x : x \in Range(SubSeq(s, m, n)) <=> \E i \in m..n : x = s[i]
  BY Part
<1>4. n - m + 1 = Len(s) - k /\ \A i \in 1..(Len(s) - k) : m + i - 1 = k + i
  BY <1>1, <1>2
<1> QED
  BY <1>1, <1>2, <1>3, <1>4

\* The members of a sequence.
LEMMA Members ==
  ASSUME NEW s PROVE \A x : x \in Range(s) <=> \E i \in 1..Len(s) : x = s[i]
  BY DEF Range

\* Closing sockets: they are empty afterwards, the others as they were.
LEMMA DropFacts ==
  ASSUME TypeOK, NEW C \in SUBSET Conns, Drop(C)
  PROVE  /\ up' \in [Conns -> BOOLEAN]
         /\ asks' \in [Conns -> Seq(Reqs)] /\ replies' \in [Conns -> Seq(Reply)]
         /\ acts' \in [Reqs -> Nat]
         /\ odd' = odd \ C
         /\ \A c \in C : asks'[c] = <<>> /\ replies'[c] = <<>>
         /\ \A c \in Conns \ C : asks'[c] = asks[c] /\ replies'[c] = replies[c]
<1>1. acts' \in [Reqs -> Nat]
  BY DEF Drop, CarriedOut, TypeOK
<1>2. <<>> \in Seq(Reqs) /\ <<>> \in Seq(Reply)
  OBVIOUS
<1> QED
  BY <1>1, <1>2 DEF Drop, TypeOK

\* The connections that requests own, before and after a step.
LEMMA Owners ==
  /\ \A x : x \in Owned <=> x # None /\ \E q \in Reqs : conn[q] = x
  /\ \A x : x \in Owned' <=> x # None /\ \E q \in Reqs : conn'[q] = x
  BY DEF Owned

\* Init: nothing pooled, nothing open.
LEMMA InitIInv == Init => IInv
<1> SUFFICES ASSUME Init PROVE IInv
  OBVIOUS
<1>1. <<>> \in Seq(Reqs) /\ <<>> \in Seq(Reply) /\ <<>> \in Seq(Conns)
  OBVIOUS
<1>2. TypeOK
  BY <1>1 DEF Init, TypeOK
<1>3. Exclusive /\ Tidy
  BY <1>1 DEF Init, Exclusive, Tidy, Quiet, Range, Owned
<1> QED
  BY <1>2, <1>3 DEF IInv

\* evict_stale_pool_entries keeps the invariant.
LEMMA EvictStep ==
  ASSUME IInv, NEW r \in Reqs, Evict(r) PROVE IInv'
<1> USE DEF IInv
<1>1. PICK n \in 0..Len(pool) :
        pool' = SubSeq(pool, n + 1, Len(pool)) /\ Drop(Range(SubSeq(pool, 1, n)))
  BY DEF Evict
<1> DEFINE C == Range(SubSeq(pool, 1, n))
<1>2. pool \in Seq(Conns) /\ Len(pool) \in Nat
  BY DEF TypeOK
<1>3. /\ pool' \in Seq(Conns) /\ Len(pool') = Len(pool) - n
      /\ \A i \in 1..(Len(pool) - n) : pool'[i] = pool[n + i]
      /\ \A x : x \in Range(pool') <=> \E i \in n + 1 .. Len(pool) : x = pool[i]
  BY <1>1, <1>2, Suffix
<1>4. \A x : x \in C <=> \E i \in 1..n : x = pool[i]
  <2>1. 1 \in 1..Len(pool) + 1 /\ n \in (1 - 1)..Len(pool)
    BY <1>2
  <2> QED
    BY <1>2, <2>1, Part
<1> HIDE DEF C
<1>5. C \in SUBSET Conns /\ Drop(C)
  <2>1. \A i \in 1..n : pool[i] \in Conns
    BY <1>2
  <2> QED
    BY <1>1, <1>4, <2>1 DEF C
<1>6. Range(pool) = C \cup Range(pool') /\ C \cap Range(pool') = {}
  <2>1. \A x : x \in Range(pool) <=> \E i \in 1..Len(pool) : x = pool[i]
    BY Members
  <2>2. \A x : x \in Range(pool) <=> x \in C \cup Range(pool')
    BY <1>2, <1>3, <1>4, <2>1
  <2>3. \A x : ~(x \in C /\ x \in Range(pool'))
    BY <1>2, <1>3, <1>4 DEF Exclusive
  <2> QED
    BY <2>2, <2>3
<1>7. conn' = conn /\ pc' = [pc EXCEPT ![r] = "checkout"] /\ pc[r] = "new"
      /\ UNCHANGED <<dials, accept_brotli, answer, sends>>
  BY DEF Evict
<1>8. TypeOK'
  BY <1>3, <1>5, <1>7, DropFacts DEF TypeOK
<1>9. Exclusive'
  <2>1. \A i, j \in 1..Len(pool') : pool'[i] = pool'[j] => i = j
    BY <1>2, <1>3 DEF Exclusive
  <2> QED
    BY <1>6, <1>7, <2>1 DEF Exclusive
<1>10. Owned' = Owned /\ C \cap Owned = {}
  BY <1>6, <1>7 DEF Owned, Exclusive
<1>11. Tidy'
  <2>1. odd' \subseteq Range(pool') \cup Owned'
    BY <1>5, <1>6, <1>10, DropFacts DEF Tidy
  <2> SUFFICES ASSUME NEW c \in Conns \ odd'
               PROVE  /\ c \notin Owned' => Quiet(c)'
                      /\ \A q \in Reqs : conn'[q] = c /\ pc'[q] = "write" => Quiet(c)'
                      /\ \A q \in Reqs : conn'[q] = c /\ pc'[q] = "read" => OneExchange(c, q)'
    BY <2>1 DEF Tidy
  <2>2. CASE c \in C
    <3>1. Quiet(c)' /\ \A q \in Reqs : conn'[q] # c
      BY <1>5, <1>7, <1>10, <2>2, DropFacts, Owners, PoolAssumption DEF Quiet
    <3> QED
      BY <3>1
  <2>3. CASE c \notin C
    <3>1. asks'[c] = asks[c] /\ replies'[c] = replies[c] /\ c \notin odd
      BY <1>5, <2>3, DropFacts
    <3>2. \A q \in Reqs : pc'[q] \in {"write", "read"} => pc'[q] = pc[q]
      BY <1>7 DEF TypeOK
    <3> QED
      BY <1>7, <1>10, <3>1, <3>2 DEF Quiet, OneExchange, Tidy
  <2> QED
    BY <2>2, <2>3
<1> QED
  BY <1>8, <1>9, <1>11

\* checkout takes one connection out of the pool and closes those behind it.
LEMMA CheckoutStep ==
  ASSUME IInv, NEW r \in Reqs, checkout(r) PROVE IInv'
<1> USE DEF IInv
<1>1. PICK n \in 0..Len(pool) :
        /\ n > 0 => is_reuse_safe(pool[n])
        /\ pool' = SubSeq(pool, 1, n - 1)
        /\ Drop(Range(SubSeq(pool, n + 1, Len(pool))))
        /\ conn' = [conn EXCEPT ![r] = IF n > 0 THEN pool[n] ELSE None]
        /\ pc' = [pc EXCEPT ![r] = IF n > 0 THEN "write" ELSE "dial"]
  BY DEF checkout
<1> DEFINE C == Range(SubSeq(pool, n + 1, Len(pool)))
           k == IF n > 0 THEN n - 1 ELSE 0
<1>2. pool \in Seq(Conns) /\ Len(pool) \in Nat
  BY DEF TypeOK
<1>3. pool' = SubSeq(pool, 1, k)
  <2>1. CASE n = 0
    BY <1>1, <1>2, <2>1
  <2>2. CASE n > 0
    BY <1>1, <2>2
  <2> QED
    BY <2>1, <2>2
<1>4. k \in 0..Len(pool) /\ k <= n
  BY <1>2
<1>5. /\ pool' \in Seq(Conns) /\ Len(pool') = k
      /\ \A i \in 1..k : pool'[i] = pool[i]
      /\ \A x : x \in Range(pool') <=> \E i \in 1..k : x = pool[i]
  <2> HIDE DEF k
  <2>1. k - 1 + 1 = k /\ 1 \in 1..Len(pool) + 1 /\ k \in (1 - 1)..Len(pool)
    BY <1>2, <1>4
  <2>2. /\ pool' \in Seq(Conns) /\ Len(pool') = k
        /\ \A i \in 1..k : pool'[i] = pool[1 + i - 1]
        /\ \A x : x \in Range(pool') <=> \E i \in 1..k : x = pool[i]
    BY <1>2, <1>3, <2>1, Part
  <2> QED
    BY <1>4, <2>2
<1>6. \A x : x \in C <=> \E i \in n + 1 .. Len(pool) : x = pool[i]
  BY <1>2, Part
<1>7. n > 0 => pool[n] \in Conns /\ pool[n] # None /\ pool[n] \in Range(pool)
               /\ pool[n] \notin Range(pool') /\ pool[n] \notin C
  <2>1. n > 0 => pool[n] \in Conns /\ pool[n] # None /\ pool[n] \in Range(pool)
    BY <1>2, PoolAssumption, Members
  <2>2. n > 0 => \A i \in 1..Len(pool) : pool[n] = pool[i] => i = n
    BY <1>2 DEF Exclusive
  <2> QED
    BY <1>2, <1>4, <1>5, <1>6, <2>1, <2>2
<1>8. C \in SUBSET Conns /\ Drop(C)
  BY <1>1, <1>2, <1>6
<1>9. /\ C \subseteq Range(pool) /\ Range(pool') \subseteq Range(pool)
      /\ \A x \in Range(pool) : x \in C \/ x \in Range(pool') \/ (n > 0 /\ x = pool[n])
  BY <1>2, <1>4, <1>5, <1>6, Members
<1> HIDE DEF C, k
<1>10. pc[r] = "checkout" /\ conn[r] = None /\ dials' = [dials EXCEPT ![r] = 2]
       /\ UNCHANGED <<accept_brotli, answer, sends>>
  BY DEF checkout, TypeOK
<1>11. TypeOK'
  <2>1. /\ conn' \in [Reqs -> Conns \cup {None}] /\ pc' \in [Reqs -> Pcs]
        /\ \A q \in Reqs : pc'[q] \in {"write", "read"} <=> conn'[q] # None
    BY <1>1, <1>7, <1>10 DEF TypeOK, Pcs
  <2>2. odd' \subseteq Conns /\ dials' \in [Reqs -> 0..2]
    BY <1>8, <1>10, DropFacts DEF TypeOK
  <2> QED
    BY <1>5, <1>8, <1>10, <2>1, <2>2, DropFacts DEF TypeOK, Pcs
<1>12. Exclusive'
  <2>1. \A i, j \in 1..Len(pool') : pool'[i] = pool'[j] => i = j
    BY <1>2, <1>4, <1>5 DEF Exclusive
  <2>2. \A q \in Reqs : conn'[q] # None => conn'[q] \notin Range(pool')
    BY <1>1, <1>7, <1>9, <1>10 DEF Exclusive, TypeOK
  <2>3. None \notin Range(pool')
    BY <1>5, PoolAssumption, Members
  <2>4. \A q, p \in Reqs : q # p /\ conn'[q] # None => conn'[q] # conn'[p]
    BY <1>1, <1>7, <1>10 DEF Exclusive, TypeOK
  <2> QED
    BY <2>1, <2>2, <2>3, <2>4 DEF Exclusive
<1>13. Owned' = Owned \cup (IF n > 0 THEN {pool[n]} ELSE {})
  <2>0. /\ conn'[r] = (IF n > 0 THEN pool[n] ELSE None)
        /\ \A q \in Reqs \ {r} : conn'[q] = conn[q]
    BY <1>1 DEF TypeOK
  <2>1. CASE n > 0
    <3>1. \A x : x \in Owned' <=> x \in Owned \/ x = pool[n]
      BY <1>7, <1>10, <2>0, <2>1, Owners
    <3> QED
      BY <2>1, <3>1
  <2>2. CASE n = 0
    <3>0. \A q \in Reqs : conn'[q] = conn[q]
      BY <1>10, <2>0, <2>2
    <3>1. ASSUME NEW x PROVE x \in Owned' <=> x \in Owned
      BY <3>0, Owners, ZenonT(30)
    <3>2. Owned' = Owned
      BY <3>1
    <3> QED
      BY <2>2, <3>2
  <2> QED
    BY <2>1, <2>2
<1>14. C \cap Owned' = {}
  <2>1. C \cap Owned = {}
    BY <1>9, Owners DEF Exclusive
  <2> QED
    BY <1>7, <1>13, <2>1
<1>15. Tidy'
  <2>1. odd' \subseteq Range(pool') \cup Owned'
    BY <1>8, <1>9, <1>13, DropFacts DEF Tidy
  <2> SUFFICES ASSUME NEW c \in Conns \ odd'
               PROVE  /\ c \notin Owned' => Quiet(c)'
                      /\ \A q \in Reqs : conn'[q] = c /\ pc'[q] = "write" => Quiet(c)'
                      /\ \A q \in Reqs : conn'[q] = c /\ pc'[q] = "read" => OneExchange(c, q)'
    BY <2>1 DEF Tidy
  <2>2. CASE c \in C
    <3>1. Quiet(c)' /\ \A q \in Reqs : conn'[q] # c
      BY <1>8, <1>14, <2>2, DropFacts, Owners, PoolAssumption DEF Quiet
    <3> QED
      BY <3>1
  <2>3. CASE c \notin C
    <3>1. asks'[c] = asks[c] /\ replies'[c] = replies[c] /\ c \notin odd
      BY <1>8, <2>3, DropFacts
    <3>2. c \notin Owned => Quiet(c)'
      BY <3>1 DEF Quiet, Tidy
    <3>3. ASSUME NEW q \in Reqs, q # r, conn'[q] = c
          PROVE  /\ pc'[q] = "write" => Quiet(c)'
                 /\ pc'[q] = "read" => OneExchange(c, q)'
      <4>1. conn[q] = c /\ pc'[q] = pc[q]
        BY <1>1, <3>3 DEF TypeOK
      <4> QED
        BY <3>1, <4>1 DEF Quiet, OneExchange, Tidy
    <3>4. conn'[r] = c => Quiet(c)' /\ pc'[r] # "read"
      <4> SUFFICES ASSUME conn'[r] = c PROVE Quiet(c)' /\ pc'[r] # "read"
        OBVIOUS
      <4>1. n > 0 /\ c = pool[n] /\ pc'[r] = "write"
        BY <1>1, PoolAssumption DEF TypeOK
      <4>2. c \notin Owned
        BY <1>7, <4>1, Owners DEF Exclusive
      <4> QED
        BY <3>2, <4>1, <4>2
    <3> QED
      BY <1>13, <3>2, <3>3, <3>4
  <2> QED
    BY <2>2, <2>3
<1> QED
  BY <1>11, <1>12, <1>15

\* A dial takes a free connection, on which nothing is under way.
LEMMA DialStep ==
  ASSUME IInv, NEW r \in Reqs, dial(r) PROVE IInv'
<1> USE DEF IInv
<1>1. PICK c \in Idle : conn' = [conn EXCEPT ![r] = c] /\ up' = [up EXCEPT ![c] = TRUE]
  BY DEF dial
<1>2. c \in Conns /\ c # None /\ c \notin Range(pool) /\ c \notin Owned
      /\ \A q \in Reqs : conn[q] # c
  BY PoolAssumption, Owners DEF Idle
<1>3. /\ pc[r] = "dial" /\ conn[r] = None /\ pc' = [pc EXCEPT ![r] = "write"]
      /\ UNCHANGED <<pool, asks, replies, accept_brotli, answer, sends, acts, odd>>
  BY DEF dial, TypeOK
<1>4. TypeOK'
  <2>1. dials' \in [Reqs -> 0..2]
    BY DEF dial, TypeOK
  <2> QED
    BY <1>1, <1>2, <1>3, <2>1 DEF TypeOK
<1>5. Exclusive'
  BY <1>1, <1>2, <1>3 DEF Exclusive, TypeOK
<1>6. Owned' = Owned \cup {c}
  BY <1>1, <1>2, <1>3, Owners DEF TypeOK
<1>7. Tidy'
  <2>1. odd' \subseteq Range(pool') \cup Owned'
    BY <1>3, <1>6 DEF Tidy, Range
  <2> SUFFICES ASSUME NEW d \in Conns \ odd
               PROVE  /\ d \notin Owned' => Quiet(d)'
                      /\ \A q \in Reqs : conn'[q] = d /\ pc'[q] = "write" => Quiet(d)'
                      /\ \A q \in Reqs : conn'[q] = d /\ pc'[q] = "read" => OneExchange(d, q)'
    BY <1>3, <2>1 DEF Tidy
  <2>2. d \notin Owned => Quiet(d)'
    BY <1>3 DEF Quiet, Tidy
  <2>3. ASSUME NEW q \in Reqs, q # r, conn'[q] = d
        PROVE  /\ pc'[q] = "write" => Quiet(d)'
               /\ pc'[q] = "read" => OneExchange(d, q)'
    <3>1. conn[q] = d /\ pc'[q] = pc[q]
      BY <1>1, <1>3, <2>3 DEF TypeOK
    <3> QED
      BY <1>3, <3>1 DEF Quiet, OneExchange, Tidy
  <2>4. conn'[r] = d => Quiet(d)' /\ pc'[r] # "read"
    BY <1>1, <1>2, <1>3, <2>2 DEF TypeOK
  <2> QED
    BY <1>6, <2>2, <2>3, <2>4
<1> QED
  BY <1>4, <1>5, <1>7

\* write_all starts the exchange.
LEMMA WriteStep ==
  ASSUME IInv, NEW r \in Reqs, Write(r) PROVE IInv'
<1> USE DEF IInv
<1>0. PICK c \in Conns : c = conn[r]
  BY DEF Write, TypeOK
<1>1. /\ pc[r] = "write" /\ pc' = [pc EXCEPT ![r] = "read"]
      /\ asks' = IF up[c] THEN [asks EXCEPT ![c] = Append(@, r)] ELSE asks
      /\ sends' = [sends EXCEPT ![r] = @ + 1]
      /\ UNCHANGED <<pool, up, replies, conn, dials, accept_brotli, answer, acts, odd>>
  BY <1>0 DEF Write
<1>2. asks' \in [Conns -> Seq(Reqs)]
  BY <1>1 DEF TypeOK
<1>3. TypeOK'
  BY <1>1, <1>2 DEF TypeOK
<1>4. Exclusive'
  BY <1>1 DEF Exclusive, Range
<1>5. Owned' = Owned /\ c \in Owned
  <2>1. Owned' = Owned
    BY <1>1 DEF Owned
  <2>2. c \in Owned
    BY <1>0, Owners, PoolAssumption
  <2> QED
    BY <2>1, <2>2
<1>6. Tidy'
  <2>1. odd' \subseteq Range(pool') \cup Owned'
    BY <1>1, <1>5 DEF Tidy, Range
  <2> SUFFICES ASSUME NEW d \in Conns \ odd
               PROVE  /\ d \notin Owned' => Quiet(d)'
                      /\ \A q \in Reqs : conn'[q] = d /\ pc'[q] = "write" => Quiet(d)'
                      /\ \A q \in Reqs : conn'[q] = d /\ pc'[q] = "read" => OneExchange(d, q)'
    BY <1>1, <2>1 DEF Tidy
  <2>2. CASE d # c
    <3>1. asks'[d] = asks[d] /\ replies'[d] = replies[d]
      BY <1>1, <2>2 DEF TypeOK
    <3>2. \A q \in Reqs : conn[q] = d => pc'[q] = pc[q]
      BY <1>0, <1>1, <2>2 DEF TypeOK
    <3>3. d \notin Owned => Quiet(d)'
      BY <3>1 DEF Quiet, Tidy
    <3>4. ASSUME NEW q \in Reqs, conn[q] = d, pc[q] = "write" PROVE Quiet(d)'
      BY <3>1, <3>4 DEF Quiet, Tidy
    <3>5. ASSUME NEW q \in Reqs, conn[q] = d, pc[q] = "read" PROVE OneExchange(d, q)'
      <4>1. OneExchange(d, q)
        BY <3>5 DEF Tidy
      <4> QED
        BY <3>1, <4>1 DEF OneExchange
    <3> QED
      BY <1>1, <1>5, <3>2, <3>3, <3>4, <3>5
  <2>3. CASE d = c
    <3>1. asks[c] = <<>> /\ replies[c] = <<>>
      BY <1>0, <1>1, <2>3 DEF Tidy, Quiet
    <3>2. asks'[c] = <<>> \/ asks'[c] = <<r>>
      BY <1>1, <3>1 DEF TypeOK
    <3>3. replies'[c] = <<>>
      BY <1>1, <3>1
    <3>4. OneExchange(c, r)'
      <4>1. Len(asks'[c]) <= 1 /\ \A i \in 1..Len(asks'[c]) : asks'[c][i] = r
        <5>1. CASE asks'[c] = <<>>
          BY <5>1
        <5>2. CASE asks'[c] = <<r>>
          BY <5>2
        <5> QED
          BY <3>2, <5>1, <5>2
      <4>2. Len(replies'[c]) = 0
        BY <3>3
      <4> QED
        BY <4>1, <4>2 DEF OneExchange
    <3>5. \A q \in Reqs : conn'[q] = c => q = r
      BY <1>0, <1>1, PoolAssumption DEF Exclusive
    <3> QED
      BY <1>1, <1>5, <2>3, <3>4, <3>5 DEF TypeOK
  <2> QED
    BY <2>2, <2>3
<1> QED
  BY <1>3, <1>4, <1>6

\* A request that gives its connection c up, which is closed.
LEMMA LetGo ==
  ASSUME IInv, NEW r \in Reqs, conn[r] \in Conns, Drop({conn[r]}), pool' = pool,
         conn' = [conn EXCEPT ![r] = None],
         NEW to \in Pcs \ {"write", "read"}, pc' = [pc EXCEPT ![r] = to]
  PROVE  Exclusive' /\ Tidy'
<1> USE DEF IInv
<1>0. PICK c \in Conns : c = conn[r]
  OBVIOUS
<1>1. \A q \in Reqs : q # r => conn[q] # c
  BY <1>0, PoolAssumption DEF Exclusive
<1>2. Exclusive'
  <2>0. pool \in Seq(Conns)
    BY DEF TypeOK
  <2>1. None \notin Range(pool)
    BY <2>0, PoolAssumption, Members
  <2> QED
    BY <2>1 DEF Exclusive, TypeOK
<1>3. Owned' = Owned \ {c}
  BY <1>0, <1>1, Owners DEF TypeOK
<1>4. Tidy'
  <2>1. odd' \subseteq Range(pool') \cup Owned'
    BY <1>0, <1>3, DropFacts DEF Tidy
  <2> SUFFICES ASSUME NEW d \in Conns \ odd'
               PROVE  /\ d \notin Owned' => Quiet(d)'
                      /\ \A q \in Reqs : conn'[q] = d /\ pc'[q] = "write" => Quiet(d)'
                      /\ \A q \in Reqs : conn'[q] = d /\ pc'[q] = "read" => OneExchange(d, q)'
    BY <2>1 DEF Tidy
  <2>2. CASE d = c
    <3>1. Quiet(d)'
      BY <1>0, <2>2, DropFacts DEF Quiet
    <3>2. \A q \in Reqs : conn'[q] # d
      BY <1>1, <2>2, PoolAssumption DEF TypeOK
    <3> QED
      BY <3>1, <3>2
  <2>3. CASE d # c
    <3>1. asks'[d] = asks[d] /\ replies'[d] = replies[d] /\ d \notin odd
      BY <1>0, <2>3, DropFacts
    <3>2. \A q \in Reqs : conn'[q] = d => conn[q] = d /\ pc'[q] = pc[q]
      BY PoolAssumption DEF TypeOK
    <3> QED
      BY <1>3, <2>3, <3>1, <3>2 DEF Quiet, OneExchange, Tidy
  <2> QED
    BY <2>2, <2>3
<1> QED
  BY <1>2, <1>4

\* A failed exchange closes its connection.
LEMMA ConnErrorStep ==
  ASSUME IInv, NEW r \in Reqs, ConnError(r) PROVE IInv'
<1> USE DEF IInv
<1>1. /\ pc[r] = "read" /\ conn[r] \in Conns /\ Drop({conn[r]}) /\ pool' = pool
      /\ conn' = [conn EXCEPT ![r] = None] /\ pc' = [pc EXCEPT ![r] = "dial"]
      /\ UNCHANGED <<dials, accept_brotli, answer, sends>>
  BY DEF ConnError, TypeOK
<1>2. Exclusive' /\ Tidy'
  BY <1>1, LetGo DEF Pcs
<1>3. TypeOK'
  BY <1>1, DropFacts DEF TypeOK
<1> QED
  BY <1>2, <1>3

\* A complete message: the connection is pooled at its boundary, or closed.
LEMMA ReadStep ==
  ASSUME IInv, NEW r \in Reqs, ReadReply(r) PROVE IInv'
<1> USE DEF IInv
<1>0. PICK c \in Conns : c = conn[r]
  BY DEF ReadReply, TypeOK
<1>1. /\ pc[r] = "read" /\ replies[c] # <<>> /\ conn' = [conn EXCEPT ![r] = None]
      /\ UNCHANGED <<dials, sends>>
  BY <1>0 DEF ReadReply
<1> DEFINE reply == Head(replies[c])
<1>2. replies[c] \in Seq(Reply) /\ reply \in Reply /\ reply = replies[c][1]
      /\ Len(replies[c]) \in Nat /\ Len(replies[c]) > 0
  <2>1. replies[c] \in Seq(Reply)
    BY DEF TypeOK
  <2> QED
    BY <1>1, <2>1
<1> HIDE DEF reply
<1>3. CASE Poolable(reply)
  <2>1. PICK n \in 1..Len(replies[c]) :
          replies' = [replies EXCEPT ![c] = SubSeq(@, n + 1, Len(@))]
    BY <1>0, <1>3 DEF ReadReply, reply
  <2>2. /\ pool' = Append(pool, c)
        /\ odd' = IF reply.kind = "interim" THEN odd \cup {c} ELSE odd
        /\ pc' = [pc EXCEPT ![r] = "done"] /\ answer' = [answer EXCEPT ![r] = reply]
        /\ UNCHANGED <<up, asks, accept_brotli, acts>>
    BY <1>0, <1>3 DEF ReadReply, reply, Finish
  <2>3. /\ SubSeq(replies[c], n + 1, Len(replies[c])) \in Seq(Reply)
        /\ Len(SubSeq(replies[c], n + 1, Len(replies[c]))) = Len(replies[c]) - n
    BY <1>2, <2>1, Part
  <2>4. replies' \in [Conns -> Seq(Reply)] /\ Len(replies'[c]) = Len(replies[c]) - n
    BY <2>1, <2>3 DEF TypeOK
  <2>5. pool \in Seq(Conns) /\ pool' \in Seq(Conns) /\ Len(pool') = Len(pool) + 1
        /\ pool'[Len(pool) + 1] = c /\ \A i \in 1..Len(pool) : pool'[i] = pool[i]
    BY <2>2 DEF TypeOK
  <2>6. \A x : x \in Range(pool') <=> x \in Range(pool) \/ x = c
    BY <2>5, Members
  <2>7. TypeOK'
    <3>1. conn' \in [Reqs -> Conns \cup {None}] /\ pc' \in [Reqs -> Pcs]
          /\ \A q \in Reqs : pc'[q] \in {"write", "read"} <=> conn'[q] # None
      BY <1>1, <2>2 DEF TypeOK, Pcs
    <3>2. answer' \in [Reqs -> Reply \cup {Error(q) : q \in Reqs} \cup {None}]
          /\ odd' \subseteq Conns
      BY <1>2, <2>2 DEF TypeOK
    <3> QED
      BY <1>1, <2>2, <2>4, <2>5, <3>1, <3>2 DEF TypeOK, Pcs
  <2>8. c \notin Range(pool) /\ \A q \in Reqs : q # r => conn[q] # c
    BY <1>0, PoolAssumption DEF Exclusive
  <2>9. Exclusive'
    <3>1. None \notin Range(pool')
      BY <2>5, PoolAssumption, Members
    <3>2. \A i \in 1..Len(pool) : pool[i] # c
      BY <2>8, Members
    <3>3. \A i, j \in 1..Len(pool') : pool'[i] = pool'[j] => i = j
      BY <2>5, <3>2 DEF Exclusive
    <3>4. \A q \in Reqs : conn'[q] \notin Range(pool')
      BY <1>1, <2>6, <2>8, <3>1 DEF Exclusive, TypeOK
    <3>5. \A q, p \in Reqs : q # p /\ conn'[q] # None => conn'[q] # conn'[p]
      BY <1>1 DEF Exclusive, TypeOK
    <3> QED
      BY <3>3, <3>4, <3>5 DEF Exclusive
  <2>10. Owned' = Owned \ {c}
    BY <1>0, <1>1, <2>8, Owners DEF TypeOK
  <2>11. Tidy'
    <3>1. odd' \subseteq Range(pool') \cup Owned'
      BY <2>2, <2>6, <2>10 DEF Tidy
    <3> SUFFICES ASSUME NEW d \in Conns \ odd'
                 PROVE  /\ d \notin Owned' => Quiet(d)'
                        /\ \A q \in Reqs : conn'[q] = d /\ pc'[q] = "write" => Quiet(d)'
                        /\ \A q \in Reqs : conn'[q] = d /\ pc'[q] = "read" => OneExchange(d, q)'
      BY <3>1 DEF Tidy
    <3>2. CASE d = c
      <4>1. c \notin odd /\ reply.kind # "interim"
        BY <2>2, <3>2
      <4>2. OneExchange(c, r)
        BY <1>0, <1>1, <4>1 DEF Tidy
      <4>3. Len(replies[c]) = 1 /\ Len(asks[c]) = 0
        <5>1. asks[c] \in Seq(Reqs) /\ Len(asks[c]) \in Nat
          BY DEF TypeOK
        <5> QED
          BY <1>2, <4>1, <4>2, <5>1 DEF OneExchange
      <4>4. asks'[c] = <<>> /\ replies'[c] = <<>>
        <5>1. asks'[c] \in Seq(Reqs) /\ Len(asks'[c]) = 0
          BY <2>2, <4>3 DEF TypeOK
        <5>2. replies'[c] \in Seq(Reply) /\ Len(replies'[c]) = 0
          BY <2>1, <2>4, <4>3
        <5> QED
          BY <5>1, <5>2
      <4>5. \A q \in Reqs : conn'[q] # c
        BY <1>1, <2>8, PoolAssumption DEF TypeOK
      <4> QED
        BY <3>2, <4>4, <4>5 DEF Quiet
    <3>3. CASE d # c
      <4>1. asks'[d] = asks[d] /\ replies'[d] = replies[d] /\ d \notin odd
        BY <2>1, <2>2, <3>3 DEF TypeOK
      <4>2. \A q \in Reqs : conn'[q] = d => conn[q] = d /\ pc'[q] = pc[q]
        BY <1>0, <1>1, <2>2, <3>3, PoolAssumption DEF TypeOK
      <4> QED
        BY <2>10, <3>3, <4>1, <4>2 DEF Quiet, OneExchange, Tidy
    <3> QED
      BY <3>2, <3>3
  <2> QED
    BY <2>7, <2>9, <2>11
<1>4. CASE ~Poolable(reply)
  <2>1. Drop({conn[r]}) /\ pool' = pool
    BY <1>0, <1>4 DEF ReadReply, reply
  <2>2. PICK to \in {"new", "done"} : pc' = [pc EXCEPT ![r] = to]
    BY <1>0, <1>4 DEF ReadReply, reply, Finish
  <2>3. /\ accept_brotli' \in [Reqs -> BOOLEAN]
        /\ answer' \in [Reqs -> Reply \cup {Error(q) : q \in Reqs} \cup {None}]
    <3>1. Error(r) \in {Error(q) : q \in Reqs}
      OBVIOUS
    <3>2. accept_brotli' = accept_brotli \/ accept_brotli' = [accept_brotli EXCEPT ![r] = FALSE]
      BY <1>0, <1>4 DEF ReadReply, reply
    <3>3. \/ answer' = answer \/ answer' = [answer EXCEPT ![r] = reply]
          \/ answer' = [answer EXCEPT ![r] = Error(r)]
      BY <1>0, <1>4 DEF ReadReply, reply, Finish
    <3>4. accept_brotli' \in [Reqs -> BOOLEAN]
      BY <3>2 DEF TypeOK
    <3>5. answer \in [Reqs -> Reply \cup {Error(q) : q \in Reqs} \cup {None}]
      BY DEF TypeOK
    <3> QED
      BY <1>2, <3>1, <3>3, <3>4, <3>5
  <2>4. Exclusive' /\ Tidy'
    BY <1>0, <1>1, <2>1, <2>2, LetGo DEF Pcs
  <2>5. TypeOK'
    <3>1. conn' \in [Reqs -> Conns \cup {None}] /\ pc' \in [Reqs -> Pcs]
          /\ \A q \in Reqs : pc'[q] \in {"write", "read"} <=> conn'[q] # None
      BY <1>1, <2>2 DEF TypeOK, Pcs
    <3> QED
      BY <1>0, <1>1, <2>1, <2>3, <3>1, DropFacts DEF TypeOK, Pcs
  <2> QED
    BY <2>4, <2>5
<1> QED
  BY <1>3, <1>4

\* A dial that fails moves no connection.
LEMMA NoDialStep ==
  ASSUME IInv, NEW r \in Reqs, DialFails(r) \/ GiveUp(r) PROVE IInv'
<1> USE DEF IInv
<1>1. /\ UNCHANGED <<pool, sockets, conn, accept_brotli, sends, acts, odd>>
      /\ pc[r] = "dial"
      /\ pc' = pc \/ pc' = [pc EXCEPT ![r] = "done"]
      /\ answer' = answer \/ answer' = [answer EXCEPT ![r] = Error(r)]
      /\ dials' \in [Reqs -> 0..2]
  <2>1. CASE GiveUp(r)
    BY <2>1 DEF GiveUp, Finish, TypeOK
  <2>2. CASE DialFails(r)
    <3>1. dials' = dials \/ (dials[r] > 0 /\ dials' = [dials EXCEPT ![r] = @ - 1])
      BY <2>2 DEF DialFails
    <3>2. dials' \in [Reqs -> 0..2]
      <4>1. dials \in [Reqs -> 0..2]
        BY DEF TypeOK
      <4> QED
        BY <3>1, <4>1
    <3> QED
      BY <2>2, <3>2 DEF DialFails, Finish
  <2> QED
    BY <2>1, <2>2
<1>2. Error(r) \in {Error(q) : q \in Reqs}
  OBVIOUS
<1>3. TypeOK'
  <2>1. answer \in [Reqs -> Reply \cup {Error(q) : q \in Reqs} \cup {None}]
    BY DEF TypeOK
  <2>2. answer' \in [Reqs -> Reply \cup {Error(q) : q \in Reqs} \cup {None}]
    BY <1>1, <1>2, <2>1
  <2>3. pc' \in [Reqs -> Pcs] /\ \A q \in Reqs : pc'[q] \in {"write", "read"} <=> conn'[q] # None
    BY <1>1 DEF TypeOK, Pcs
  <2> QED
    BY <1>1, <2>2, <2>3 DEF TypeOK, sockets, Pcs
<1>4. Exclusive'
  BY <1>1 DEF Exclusive, Range
<1>5. \A q \in Reqs : pc'[q] \in {"write", "read"} => pc'[q] = pc[q]
  BY <1>1 DEF TypeOK
<1>6. Tidy'
  BY <1>1, <1>5 DEF Tidy, Range, Owned, Quiet, OneExchange, sockets
<1> QED
  BY <1>3, <1>4, <1>6

\* What the server does on one connection leaves the client's state alone; the
\* exchange on that connection is what remains to be shown.
LEMMA ServerOn ==
  ASSUME IInv, NEW c \in Conns,
         UNCHANGED <<pool, pc, conn, dials, accept_brotli, answer, sends, odd>>,
         up' \in [Conns -> BOOLEAN], acts' \in [Reqs -> Nat],
         asks' \in [Conns -> Seq(Reqs)], replies' \in [Conns -> Seq(Reply)],
         \A d \in Conns \ {c} : asks'[d] = asks[d] /\ replies'[d] = replies[d],
         Quiet(c) => Quiet(c)',
         \A r \in Reqs : OneExchange(c, r) => OneExchange(c, r)'
  PROVE  IInv'
<1> USE DEF IInv
<1>1. TypeOK'
  BY DEF TypeOK
<1>2. Exclusive'
  BY DEF Exclusive, Range
<1>3. Tidy'
  <2>1. Owned' = Owned /\ Range(pool') = Range(pool)
    BY DEF Owned, Range
  <2> SUFFICES ASSUME NEW d \in Conns \ odd
               PROVE  /\ d \notin Owned => Quiet(d)'
                      /\ \A q \in Reqs : conn[q] = d /\ pc[q] = "write" => Quiet(d)'
                      /\ \A q \in Reqs : conn[q] = d /\ pc[q] = "read" => OneExchange(d, q)'
    BY <2>1 DEF Tidy
  <2>2. CASE d = c
    BY <2>2 DEF Tidy
  <2>3. CASE d # c
    <3>1. asks'[d] = asks[d] /\ replies'[d] = replies[d]
      BY <2>3
    <3>2. Quiet(d) => Quiet(d)'
      BY <3>1 DEF Quiet
    <3>3. \A q \in Reqs : OneExchange(d, q) => OneExchange(d, q)'
      BY <3>1 DEF OneExchange
    <3> QED
      BY <3>2, <3>3 DEF Tidy
  <2> QED
    BY <2>2, <2>3
<1> QED
  BY <1>1, <1>2, <1>3

\* The response follows the request, and an interim head if there was one.
LEMMA RepliesStep ==
  ASSUME IInv, NEW c \in Conns, NEW kind \in Kinds, ServerReplies(c, kind) PROVE IInv'
<1> USE DEF IInv
<1>1. asks[c] \in Seq(Reqs) /\ replies[c] \in Seq(Reply) /\ asks[c] # <<>>
  BY DEF TypeOK, ServerReplies
<1>2. PICK a \in Reqs : a = Head(asks[c])
  BY <1>1
<1> DEFINE reply == [to |-> a, kind |-> kind]
<1>3. /\ replies' = [replies EXCEPT ![c] = Append(@, reply)]
      /\ asks' = [asks EXCEPT ![c] = Tail(@)]
      /\ acts' = [acts EXCEPT ![a] = @ + 1]
      /\ UNCHANGED <<pool, up, pc, conn, dials, accept_brotli, answer, sends, odd>>
      /\ kind # "interim"
  BY <1>2 DEF ServerReplies
<1>4. reply \in Reply
  BY DEF Reply
<1>5. /\ Tail(asks[c]) \in Seq(Reqs) /\ Len(Tail(asks[c])) = Len(asks[c]) - 1
      /\ Append(replies[c], reply) \in Seq(Reply)
      /\ Len(Append(replies[c], reply)) = Len(replies[c]) + 1
      /\ Append(replies[c], reply)[Len(replies[c]) + 1] = reply
      /\ \A i \in 1..Len(replies[c]) : Append(replies[c], reply)[i] = replies[c][i]
  BY <1>1, <1>4
<1>6. /\ asks' \in [Conns -> Seq(Reqs)] /\ replies' \in [Conns -> Seq(Reply)]
      /\ asks'[c] = Tail(asks[c]) /\ replies'[c] = Append(replies[c], reply)
      /\ \A d \in Conns \ {c} : asks'[d] = asks[d] /\ replies'[d] = replies[d]
  BY <1>3, <1>5 DEF TypeOK
<1>7. up' \in [Conns -> BOOLEAN] /\ acts' \in [Reqs -> Nat]
  BY <1>3 DEF TypeOK
<1>8. ~Quiet(c)
  BY <1>1 DEF Quiet
<1>9. ASSUME NEW r \in Reqs, OneExchange(c, r) PROVE OneExchange(c, r)'
  <2>0. Len(asks[c]) \in Nat /\ Len(asks[c]) > 0 /\ a = asks[c][1]
    BY <1>1, <1>2
  <2>1. Len(asks[c]) = 1 /\ a = r /\ reply.to = r /\ reply.kind = kind
    <3>1. Len(asks[c]) <= 1 /\ \A i \in 1..Len(asks[c]) : asks[c][i] = r
      BY <1>9 DEF OneExchange
    <3>2. Len(asks[c]) = 1
      <4>1. PICK k \in Nat : k = Len(asks[c])
        BY <2>0
      <4>2. k > 0 /\ k <= 1
        BY <2>0, <3>1, <4>1
      <4>3. k = 1
        BY <4>2
      <4> QED
        BY <4>1, <4>3
    <3>3. a = r
      BY <2>0, <3>1, <3>2
    <3> QED
      BY <3>2, <3>3
  <2>2. Len(asks'[c]) = 0
    BY <1>5, <1>6, <2>1
  <2>3. Len(replies[c]) \in {0, 1} /\ Len(replies'[c]) = Len(replies[c]) + 1
    <3>1. Len(replies[c]) \in Nat
      BY <1>1
    <3>2. Len(replies[c]) <= 1
      BY <1>9, <2>1 DEF OneExchange
    <3>3. Len(replies'[c]) = Len(replies[c]) + 1
      BY <1>5, <1>6
    <3>4. PICK k \in Nat : k = Len(replies[c])
      BY <3>1
    <3>5. k <= 1
      BY <3>2, <3>4
    <3>6. k \in {0, 1}
      BY <3>5
    <3> QED
      BY <3>3, <3>4, <3>6
  <2>4. \A i \in 1..Len(replies'[c]) : replies'[c][i].to = r
    BY <1>5, <1>6, <1>9, <2>1, <2>3 DEF OneExchange
  <2>5. Len(replies[c]) = 1 => replies'[c][1].kind = "interim"
    BY <1>5, <1>6, <1>9, <2>1 DEF OneExchange
  <2> QED
    BY <2>2, <2>3, <2>4, <2>5 DEF OneExchange
<1> QED
  BY <1>3, <1>6, <1>7, <1>8, <1>9, ServerOn

\* An interim head comes before the response, once.
LEMMA InterimStep ==
  ASSUME IInv, NEW c \in Conns, ServerInterim(c) PROVE IInv'
<1> USE DEF IInv
<1>1. asks[c] \in Seq(Reqs) /\ asks[c] # <<>> /\ replies[c] = <<>>
  BY DEF TypeOK, ServerInterim
<1>2. PICK a \in Reqs : a = Head(asks[c])
  BY <1>1
<1> DEFINE reply == [to |-> a, kind |-> "interim"]
<1>3. /\ replies' = [replies EXCEPT ![c] = <<reply>>]
      /\ UNCHANGED <<pool, up, asks, pc, conn, dials, accept_brotli, answer, sends, acts, odd>>
  BY <1>2 DEF ServerInterim
<1>4. reply \in Reply
  BY DEF Reply, ServerInterim
<1>5. /\ replies' \in [Conns -> Seq(Reply)] /\ replies'[c] = <<reply>>
      /\ \A d \in Conns \ {c} : asks'[d] = asks[d] /\ replies'[d] = replies[d]
  BY <1>3, <1>4 DEF TypeOK
<1>6. /\ up' \in [Conns -> BOOLEAN] /\ acts' \in [Reqs -> Nat]
      /\ asks' \in [Conns -> Seq(Reqs)]
  BY <1>3 DEF TypeOK
<1>7. ~Quiet(c)
  BY <1>1 DEF Quiet
<1>8. ASSUME NEW r \in Reqs, OneExchange(c, r) PROVE OneExchange(c, r)'
  <2>1. a = r /\ reply.to = r /\ reply.kind = "interim"
    BY <1>1, <1>2, <1>8 DEF OneExchange
  <2>2. Len(replies'[c]) = 1 /\ replies'[c][1] = reply
    BY <1>5
  <2> QED
    BY <1>3, <1>8, <2>1, <2>2 DEF OneExchange
<1> QED
  BY <1>3, <1>5, <1>6, <1>7, <1>8, ServerOn

\* A server that closes takes requests with it, and perhaps responses.
LEMMA ClosesStep ==
  ASSUME IInv, NEW c \in Conns, ServerCloses(c) PROVE IInv'
<1> USE DEF IInv
<1>1. /\ up' = [up EXCEPT ![c] = FALSE] /\ asks' = [asks EXCEPT ![c] = <<>>]
      /\ replies' = replies \/ replies' = [replies EXCEPT ![c] = <<>>]
      /\ acts' \in CarriedOut({c})
      /\ UNCHANGED <<pool, pc, conn, dials, accept_brotli, answer, sends, odd>>
  BY DEF ServerCloses
<1>2. acts' \in [Reqs -> Nat]
  <2>1. PICK S : acts' = [r \in Reqs |-> IF r \in S THEN acts[r] + 1 ELSE acts[r]]
    BY <1>1 DEF CarriedOut
  <2> QED
    BY <2>1 DEF TypeOK
<1>3. <<>> \in Seq(Reqs) /\ <<>> \in Seq(Reply)
  OBVIOUS
<1>4. /\ up' \in [Conns -> BOOLEAN]
      /\ asks' \in [Conns -> Seq(Reqs)] /\ replies' \in [Conns -> Seq(Reply)]
      /\ asks'[c] = <<>> /\ replies'[c] \in {replies[c], <<>>}
      /\ \A d \in Conns \ {c} : asks'[d] = asks[d] /\ replies'[d] = replies[d]
  <2>1. up' \in [Conns -> BOOLEAN] /\ asks' \in [Conns -> Seq(Reqs)] /\ asks'[c] = <<>>
        /\ \A d \in Conns \ {c} : asks'[d] = asks[d]
    BY <1>1, <1>3 DEF TypeOK
  <2>2. CASE replies' = replies
    BY <2>1, <2>2 DEF TypeOK
  <2>3. CASE replies' = [replies EXCEPT ![c] = <<>>]
    BY <1>3, <2>1, <2>3 DEF TypeOK
  <2> QED
    BY <1>1, <2>2, <2>3
<1>5. Quiet(c) => Quiet(c)'
  BY <1>4 DEF Quiet
<1>6. ASSUME NEW r \in Reqs, OneExchange(c, r) PROVE OneExchange(c, r)'
  <2>1. Len(asks'[c]) = 0
    BY <1>4
  <2>2. CASE replies'[c] = <<>>
    BY <2>1, <2>2 DEF OneExchange
  <2>3. CASE replies'[c] = replies[c]
    BY <1>6, <2>1, <2>3 DEF OneExchange
  <2> QED
    BY <1>4, <2>2, <2>3
<1> QED
  BY <1>1, <1>2, <1>4, <1>5, <1>6, ServerOn

\* The inductive invariant holds in every behaviour.
THEOREM ClientInvariance == Spec => []IInv
<1>1. ASSUME IInv, [Next]_vars PROVE IInv'
  <2>1. ASSUME NEW r \in Reqs, Client(r) PROVE IInv'
    BY <1>1, <2>1, EvictStep, CheckoutStep, WriteStep, ReadStep, ConnErrorStep, DialStep,
       NoDialStep DEF Client
  <2>2. ASSUME NEW c \in Conns, Server(c) PROVE IInv'
    BY <1>1, <2>2, RepliesStep, InterimStep, ClosesStep DEF Server
  <2>3. CASE UNCHANGED vars
    BY <1>1, <2>3 DEF IInv, TypeOK, Exclusive, Tidy, Quiet, OneExchange, Range, Owned,
                      vars, sockets
  <2> QED
    BY <1>1, <2>1, <2>2, <2>3 DEF Next
<1> QED
  BY InitIInv, <1>1, PTL DEF Spec

\* The types of the client's pool, sockets and requests.
THEOREM ClientTypeCorrect == Spec => []TypeOK
<1>1. IInv => TypeOK
  BY DEF IInv
<1> QED
  BY ClientInvariance, <1>1, PTL

\* checkout and return_to_pool hand a connection to one request at a time.
THEOREM ConnectionsAreExclusive == Spec => []Exclusive
<1>1. IInv => Exclusive
  BY DEF IInv
<1> QED
  BY ClientInvariance, <1>1, PTL

\* A request reads its own response only, unless its connection was pooled after
\* an interim response (read_until_complete, return_to_pool).
THEOREM ResponsesAreOwn == Spec => []OwnResponse
<1>1. IInv => OwnResponse
  <2> SUFFICES ASSUME IInv, NEW r \in Reqs, pc[r] = "read", conn[r] \notin odd
               PROVE  \A i \in 1..Len(replies[conn[r]]) : replies[conn[r]][i].to = r
    BY DEF OwnResponse
  <2>1. conn[r] \in Conns
    BY DEF IInv, TypeOK
  <2>2. OneExchange(conn[r], r)
    BY <2>1 DEF IInv, Tidy
  <2> QED
    BY <2>2 DEF OneExchange
<1> QED
  BY ClientInvariance, <1>1, PTL

-----------------------------------------------------------------------------
(* Retries: how often a request is written and carried out. *)

\* Requests the server has been sent and has not finished with: the request waits
\* for it on that connection or has ended, is there once, and was written more
\* often than carried out.
Outstanding ==
  /\ \A c \in Conns : \A i \in 1..Len(asks[c]) :
       /\ acts[asks[c][i]] < sends[asks[c][i]]
       /\ pc[asks[c][i]] = "done" \/ (pc[asks[c][i]] = "read" /\ conn[asks[c][i]] = c)
  /\ \A c, d \in Conns : \A i \in 1..Len(asks[c]), j \in 1..Len(asks[d]) :
       asks[c][i] = asks[d][j] => c = d /\ i = j
  /\ \A r \in Reqs : acts[r] <= sends[r]

\* The writes of the codings a request no longer offers.
Spent(r) == IF accept_brotli[r] THEN 0 ELSE 3

\* Writes made and dials left add up to what the loop of send_once allows.
Budget ==
  \A r \in Reqs :
    /\ pc[r] \in {"new", "checkout"} => sends[r] <= Spent(r)
    /\ pc[r] = "write" => sends[r] + dials[r] <= Spent(r) + 2
    /\ pc[r] \in {"read", "dial"} => sends[r] + dials[r] <= Spent(r) + 3
    /\ pc[r] = "done" => sends[r] <= Spent(r) + 3

Waiting == UNION {Range(asks[c]) : c \in Conns}

\* The requests under way, by their places.
LEMMA WaitingAt ==
  /\ \A r : r \in Waiting <=> \E c \in Conns : \E i \in 1..Len(asks[c]) : r = asks[c][i]
  /\ \A r : r \in Waiting' <=> \E c \in Conns : \E i \in 1..Len(asks'[c]) : r = asks'[c][i]
  BY DEF Waiting, Range

\* Connections lose requests from the front, those lost may be carried out once
\* more, and a request still under way keeps waiting or ends.
LEMMA StillOutstanding ==
  ASSUME TypeOK, Outstanding, sends' = sends,
         \A c \in Conns : \E k \in Nat :
           \A i \in 1..Len(asks'[c]) : i + k \in 1..Len(asks[c]) /\ asks'[c][i] = asks[c][i + k],
         \A c \in Conns : Len(asks'[c]) \in Nat,
         \A r \in Reqs : \/ acts'[r] = acts[r]
                         \/ acts'[r] = acts[r] + 1 /\ r \in Waiting /\ r \notin Waiting',
         \A r \in Waiting' : pc'[r] = "done" \/ (pc'[r] = pc[r] /\ conn'[r] = conn[r])
  PROVE  Outstanding'
<1>0. /\ sends \in [Reqs -> Nat] /\ acts \in [Reqs -> Nat] /\ asks \in [Conns -> Seq(Reqs)]
  BY DEF TypeOK
<1>1. ASSUME NEW c \in Conns, NEW i \in 1..Len(asks'[c])
      PROVE  /\ acts'[asks'[c][i]] < sends'[asks'[c][i]]
             /\ pc'[asks'[c][i]] = "done"
                \/ (pc'[asks'[c][i]] = "read" /\ conn'[asks'[c][i]] = c)
  <2>1. PICK j \in 1..Len(asks[c]) : asks'[c][i] = asks[c][j]
    OBVIOUS
  <2>2. PICK r \in Reqs : r = asks[c][j]
    BY <1>0
  <2>3. /\ acts[r] < sends[r] /\ (pc[r] = "done" \/ (pc[r] = "read" /\ conn[r] = c))
        /\ r \in Waiting'
    BY <2>1, <2>2, WaitingAt DEF Outstanding
  <2>4. acts'[r] = acts[r] /\ (pc'[r] = "done" \/ (pc'[r] = pc[r] /\ conn'[r] = conn[r]))
    BY <2>3
  <2> QED
    BY <2>1, <2>2, <2>3, <2>4
<1>2. ASSUME NEW c \in Conns, NEW d \in Conns,
             NEW i \in 1..Len(asks'[c]), NEW j \in 1..Len(asks'[d]), asks'[c][i] = asks'[d][j]
      PROVE  c = d /\ i = j
  <2>1. PICK k \in Nat : \A n \in 1..Len(asks'[c]) :
                           n + k \in 1..Len(asks[c]) /\ asks'[c][n] = asks[c][n + k]
    OBVIOUS
  <2>2. PICK l \in Nat : \A n \in 1..Len(asks'[d]) :
                           n + l \in 1..Len(asks[d]) /\ asks'[d][n] = asks[d][n + l]
    OBVIOUS
  <2>3. \A a \in 1..Len(asks[c]), b \in 1..Len(asks[d]) :
          asks[c][a] = asks[d][b] => c = d /\ a = b
    BY DEF Outstanding
  <2>4. i + k \in 1..Len(asks[c]) /\ asks'[c][i] = asks[c][i + k]
    BY <2>1
  <2>5. j + l \in 1..Len(asks[d]) /\ asks'[d][j] = asks[d][j + l]
    BY <2>2
  <2>6. c = d
    BY <1>2, <2>3, <2>4, <2>5
  <2>7. j + k \in 1..Len(asks[d]) /\ asks'[d][j] = asks[d][j + k]
    BY <2>1, <2>6
  <2>8. i + k = j + k
    <3>1. PICK a \in 1..Len(asks[c]) : a = i + k /\ asks'[c][i] = asks[c][a]
      BY <2>4
    <3>2. PICK b \in 1..Len(asks[d]) : b = j + k /\ asks'[d][j] = asks[d][b]
      BY <2>7
    <3>3. a = b
      BY <1>2, <2>3, <3>1, <3>2
    <3> QED
      BY <3>1, <3>2, <3>3
  <2>9. i \in Int /\ j \in Int /\ k \in Int
    OBVIOUS
  <2> QED
    BY <2>6, <2>8, <2>9
<1>3. ASSUME NEW r \in Reqs PROVE acts'[r] <= sends'[r]
  <2>1. CASE acts'[r] = acts[r]
    BY <2>1 DEF Outstanding
  <2>2. CASE acts'[r] = acts[r] + 1 /\ r \in Waiting
    <3>1. acts[r] < sends[r]
      BY <2>2, WaitingAt DEF Outstanding
    <3> QED
      BY <1>0, <2>2, <3>1
  <2> QED
    BY <2>1, <2>2
<1> QED
  BY <1>1, <1>2, <1>3 DEF Outstanding

\* Closing sockets.
LEMMA DropOutstanding ==
  ASSUME TypeOK, Outstanding, sends' = sends, NEW C \in SUBSET Conns, Drop(C),
         \A r \in Waiting' : pc'[r] = "done" \/ (pc'[r] = pc[r] /\ conn'[r] = conn[r])
  PROVE  Outstanding'
<1>1. \A c \in Conns : asks'[c] = IF c \in C THEN <<>> ELSE asks[c]
  BY DEF Drop
<1>2. asks \in [Conns -> Seq(Reqs)]
  BY DEF TypeOK
<1>3. ASSUME NEW c \in Conns
      PROVE  /\ Len(asks'[c]) \in Nat
             /\ \A i \in 1..Len(asks'[c]) : i + 0 \in 1..Len(asks[c])
                                            /\ asks'[c][i] = asks[c][i + 0]
  BY <1>1, <1>2
<1>4. ASSUME NEW r \in Reqs, acts'[r] # acts[r]
      PROVE  acts'[r] = acts[r] + 1 /\ r \in Waiting /\ r \notin Waiting'
  <2>1. PICK S \in SUBSET UNION {Range(asks[c]) : c \in C} :
          acts' = [q \in Reqs |-> IF q \in S THEN acts[q] + 1 ELSE acts[q]]
    BY DEF Drop, CarriedOut
  <2>2. acts'[r] = acts[r] + 1 /\ r \in S
    BY <1>4, <2>1
  <2>3. PICK c \in C : \E i \in 1..Len(asks[c]) : r = asks[c][i]
    BY <2>2, Members
  <2>4. r \in Waiting
    BY <2>3, WaitingAt
  <2>5. ASSUME NEW d \in Conns, NEW i \in 1..Len(asks'[d]) PROVE r # asks'[d][i]
    <3>1. d \notin C /\ asks'[d] = asks[d]
      BY <1>1
    <3> QED
      BY <2>3, <2>5, <3>1 DEF Outstanding
  <2> QED
    BY <2>2, <2>4, <2>5, WaitingAt
<1> QED
  BY <1>3, <1>4, StillOutstanding

\* A request that is not waiting for the server and has not ended is not under way.
LEMMA NotWaiting ==
  ASSUME Outstanding, NEW r \in Reqs, pc[r] \notin {"read", "done"}
  PROVE  r \notin Waiting
  BY WaitingAt DEF Outstanding

\* Nothing is written or carried out.
LEMMA SameOutstanding ==
  ASSUME TypeOK, Outstanding, UNCHANGED <<asks, acts, sends>>,
         \A r \in Waiting : pc'[r] = "done" \/ (pc'[r] = pc[r] /\ conn'[r] = conn[r])
  PROVE  Outstanding'
<1>1. asks \in [Conns -> Seq(Reqs)]
  BY DEF TypeOK
<1>2. \A c \in Conns : Len(asks'[c]) \in Nat /\
        \A i \in 1..Len(asks'[c]) : i + 0 \in 1..Len(asks[c]) /\ asks'[c][i] = asks[c][i + 0]
  BY <1>1
<1>3. Waiting' = Waiting
  BY DEF Waiting
<1> QED
  BY <1>2, <1>3, StillOutstanding

\* The client's steps.
LEMMA ClientOutstanding ==
  ASSUME IInv, Outstanding, NEW r \in Reqs, Client(r)
  PROVE  Outstanding'
<1>0. TypeOK /\ Len(pool) \in Nat /\ pool \in Seq(Conns)
  BY DEF IInv, TypeOK
<1>1. ASSUME pc[r] \notin {"read", "done"}, \A q \in Reqs \ {r} : pc'[q] = pc[q] /\ conn'[q] = conn[q]
      PROVE  \A q \in Waiting : pc'[q] = "done" \/ (pc'[q] = pc[q] /\ conn'[q] = conn[q])
  <2>1. Waiting \subseteq Reqs
    BY <1>0 DEF Waiting, Range, TypeOK
  <2> QED
    BY <1>1, <2>1, NotWaiting
<1>2. ASSUME NEW C \in SUBSET Conns, Drop(C) PROVE Waiting' \subseteq Waiting
  <2>1. \A c \in Conns : asks'[c] = <<>> \/ asks'[c] = asks[c]
    BY <1>2 DEF Drop
  <2> QED
    BY <2>1, WaitingAt
<1>3. CASE Evict(r)
  <2>1. PICK n \in 0..Len(pool) : Drop(Range(SubSeq(pool, 1, n)))
    BY <1>3 DEF Evict
  <2>2. Range(SubSeq(pool, 1, n)) \subseteq Conns
    <3>1. 1 \in 1..Len(pool) + 1 /\ n \in (1 - 1)..Len(pool)
      BY <1>0
    <3>2. \A x : x \in Range(SubSeq(pool, 1, n)) <=> \E i \in 1..n : x = pool[i]
      BY <1>0, <3>1, Part
    <3>3. \A i \in 1..n : pool[i] \in Conns
      BY <1>0
    <3> QED
      BY <3>2, <3>3
  <2>3. /\ pc[r] = "new" /\ sends' = sends
        /\ \A q \in Reqs \ {r} : pc'[q] = pc[q] /\ conn'[q] = conn[q]
    BY <1>0, <1>3 DEF Evict, TypeOK
  <2> QED
    BY <1>0, <1>1, <1>2, <2>1, <2>2, <2>3, DropOutstanding
<1>4. CASE checkout(r)
  <2>1. PICK n \in 0..Len(pool) : Drop(Range(SubSeq(pool, n + 1, Len(pool))))
                                  /\ \A q \in Reqs \ {r} : pc'[q] = pc[q] /\ conn'[q] = conn[q]
    BY <1>0, <1>4 DEF checkout, TypeOK
  <2>2. Range(SubSeq(pool, n + 1, Len(pool))) \subseteq Conns
    <3>1. \A x : x \in Range(SubSeq(pool, n + 1, Len(pool))) <=>
                 \E i \in n + 1 .. Len(pool) : x = pool[i]
      BY <1>0, Suffix
    <3>2. \A i \in n + 1 .. Len(pool) : pool[i] \in Conns
      BY <1>0
    <3> QED
      BY <3>1, <3>2
  <2>3. pc[r] = "checkout" /\ sends' = sends
    BY <1>4 DEF checkout
  <2> QED
    BY <1>0, <1>1, <1>2, <2>1, <2>2, <2>3, DropOutstanding
<1>5. CASE (ReadReply(r) /\ ~Poolable(Head(replies[conn[r]]))) \/ ConnError(r)
  <2>1. /\ pc[r] = "read" /\ conn[r] \in Conns /\ Drop({conn[r]}) /\ sends' = sends
        /\ \A q \in Reqs \ {r} : pc'[q] = pc[q] /\ conn'[q] = conn[q]
    BY <1>0, <1>5 DEF ReadReply, ConnError, Finish, TypeOK
  <2>2. r \notin Waiting'
    <3>1. \A c \in Conns : asks'[c] = IF c = conn[r] THEN <<>> ELSE asks[c]
      BY <2>1 DEF Drop
    <3> SUFFICES ASSUME NEW c \in Conns, NEW i \in 1..Len(asks'[c]) PROVE r # asks'[c][i]
      BY WaitingAt
    <3>2. c # conn[r] /\ asks'[c] = asks[c]
      BY <3>1
    <3> QED
      BY <2>1, <3>2 DEF Outstanding
  <2>3. Waiting' \subseteq Waiting
    BY <1>2, <2>1
  <2>4. Waiting \subseteq Reqs
    BY <1>0 DEF Waiting, Range, TypeOK
  <2> QED
    BY <1>0, <2>1, <2>2, <2>3, <2>4, DropOutstanding
<1>6. CASE ReadReply(r) /\ Poolable(Head(replies[conn[r]]))
  <2>1. /\ UNCHANGED <<asks, acts, sends>> /\ pc'[r] = "done"
        /\ \A q \in Reqs \ {r} : pc'[q] = pc[q] /\ conn'[q] = conn[q]
    BY <1>0, <1>6 DEF ReadReply, Finish, TypeOK
  <2>2. Waiting \subseteq Reqs
    BY <1>0 DEF Waiting, Range, TypeOK
  <2> QED
    BY <1>0, <2>1, <2>2, SameOutstanding
<1>7. CASE dial(r) \/ DialFails(r) \/ GiveUp(r)
  <2>1. /\ pc[r] = "dial" /\ UNCHANGED <<asks, acts, sends>>
        /\ \A q \in Reqs \ {r} : pc'[q] = pc[q] /\ conn'[q] = conn[q]
    BY <1>0, <1>7 DEF dial, DialFails, GiveUp, Finish, sockets, TypeOK
  <2> QED
    BY <1>0, <1>1, <2>1, SameOutstanding
<1>8. CASE Write(r)
  <2>1. /\ pc[r] = "write" /\ conn[r] \in Conns /\ UNCHANGED <<acts, conn>>
        /\ pc' = [pc EXCEPT ![r] = "read"]
        /\ asks' = IF up[conn[r]] THEN [asks EXCEPT ![conn[r]] = Append(@, r)] ELSE asks
        /\ sends' = [sends EXCEPT ![r] = @ + 1]
    BY <1>0, <1>8 DEF Write, TypeOK
  <2>2. r \notin Waiting
    BY <2>1, NotWaiting
  <2>3. PICK k \in Conns : k = conn[r]
    BY <2>1
  <2>4. asks \in [Conns -> Seq(Reqs)] /\ sends \in [Reqs -> Nat] /\ acts \in [Reqs -> Nat]
        /\ pc \in [Reqs -> Pcs]
    BY <1>0 DEF TypeOK, Pcs
  <2>5. ASSUME NEW c \in Conns, NEW i \in 1..Len(asks'[c])
        PROVE  \/ i \in 1..Len(asks[c]) /\ asks'[c][i] = asks[c][i] /\ asks[c][i] # r
                  /\ asks[c][i] \in Reqs
               \/ c = k /\ i = Len(asks[c]) + 1 /\ asks'[c][i] = r
    <3>1. \A j \in 1..Len(asks[c]) : asks[c][j] # r
      BY <2>2, WaitingAt
    <3>2. asks[c] \in Seq(Reqs) /\ asks'[c] \in {asks[c], IF c = k THEN Append(asks[c], r) ELSE asks[c]}
      BY <2>1, <2>3, <2>4
    <3> QED
      BY <2>5, <3>1, <3>2
  <2>6. ASSUME NEW c \in Conns, NEW i \in 1..Len(asks'[c])
        PROVE  /\ acts'[asks'[c][i]] < sends'[asks'[c][i]]
               /\ pc'[asks'[c][i]] = "done"
                  \/ (pc'[asks'[c][i]] = "read" /\ conn'[asks'[c][i]] = c)
    <3>1. CASE asks'[c][i] = r
      <4>1. c = k
        BY <2>5, <3>1
      <4>2. acts[r] <= sends[r]
        BY DEF Outstanding
      <4> QED
        BY <2>1, <2>3, <2>4, <3>1, <4>1, <4>2
    <3>2. CASE asks'[c][i] # r
      <4>1. i \in 1..Len(asks[c]) /\ asks'[c][i] = asks[c][i] /\ asks[c][i] \in Reqs
        BY <2>5, <3>2
      <4> QED
        BY <2>1, <2>4, <3>2, <4>1 DEF Outstanding
    <3> QED
      BY <3>1, <3>2
  <2>7. ASSUME NEW c \in Conns, NEW d \in Conns,
               NEW i \in 1..Len(asks'[c]), NEW j \in 1..Len(asks'[d]), asks'[c][i] = asks'[d][j]
        PROVE  c = d /\ i = j
    BY <2>5, <2>7 DEF Outstanding
  <2>8. \A q \in Reqs : acts'[q] <= sends'[q]
    BY <2>1, <2>4 DEF Outstanding
  <2> QED
    BY <2>6, <2>7, <2>8 DEF Outstanding
<1> QED
  BY <1>3, <1>4, <1>5, <1>6, <1>7, <1>8 DEF Client

\* The server's steps.
LEMMA ServerOutstanding ==
  ASSUME IInv, Outstanding, NEW c \in Conns, Server(c)
  PROVE  Outstanding'
<1>0. TypeOK /\ asks \in [Conns -> Seq(Reqs)] /\ acts \in [Reqs -> Nat] /\ asks[c] \in Seq(Reqs)
  BY DEF IInv, TypeOK
<1>1. UNCHANGED <<pc, conn, sends>>
  BY DEF Server, ServerReplies, ServerInterim, ServerCloses
<1>2. CASE ServerInterim(c)
  BY <1>0, <1>1, <1>2, SameOutstanding DEF ServerInterim
<1>3. CASE ServerCloses(c)
  <2>1. /\ asks' = [asks EXCEPT ![c] = <<>>] /\ acts' \in CarriedOut({c})
    BY <1>3 DEF ServerCloses
  <2>2. ASSUME NEW d \in Conns
        PROVE  /\ Len(asks'[d]) \in Nat
               /\ \A i \in 1..Len(asks'[d]) : i + 0 \in 1..Len(asks[d])
                                              /\ asks'[d][i] = asks[d][i + 0]
    BY <1>0, <2>1
  <2>3. ASSUME NEW r \in Reqs, acts'[r] # acts[r]
        PROVE  acts'[r] = acts[r] + 1 /\ r \in Waiting /\ r \notin Waiting'
    <3>1. acts'[r] = acts[r] + 1 /\ r \in Range(asks[c])
      BY <2>1, <2>3 DEF CarriedOut
    <3>2. PICK i \in 1..Len(asks[c]) : r = asks[c][i]
      BY <3>1, Members
    <3>3. \A d \in Conns : asks'[d] = IF d = c THEN <<>> ELSE asks[d]
      BY <1>0, <2>1
    <3> QED
      BY <3>1, <3>2, <3>3, WaitingAt DEF Outstanding
  <2> QED
    BY <1>0, <1>1, <2>2, <2>3, StillOutstanding
<1>4. ASSUME NEW kind \in Kinds, ServerReplies(c, kind) PROVE Outstanding'
  <2>1. /\ asks[c] # <<>> /\ asks' = [asks EXCEPT ![c] = Tail(@)]
        /\ acts' = [acts EXCEPT ![Head(asks[c])] = @ + 1]
    BY <1>4 DEF ServerReplies
  <2>2. /\ Head(asks[c]) \in Reqs /\ Head(asks[c]) = asks[c][1] /\ 1 \in 1..Len(asks[c])
        /\ Len(Tail(asks[c])) \in Nat
        /\ \A i \in 1..Len(Tail(asks[c])) : i + 1 \in 1..Len(asks[c]) /\ i + 1 # 1
                                            /\ Tail(asks[c])[i] = asks[c][i + 1]
    BY <1>0, <2>1
  <2>3. asks'[c] = Tail(asks[c]) /\ \A d \in Conns \ {c} : asks'[d] = asks[d]
    BY <1>0, <2>1
  <2>4. ASSUME NEW d \in Conns
        PROVE  /\ Len(asks'[d]) \in Nat
               /\ \E k \in Nat : \A i \in 1..Len(asks'[d]) :
                     i + k \in 1..Len(asks[d]) /\ asks'[d][i] = asks[d][i + k]
    <3>1. CASE d = c
      BY <2>2, <2>3, <3>1
    <3>2. CASE d # c
      <4>1. \A i \in 1..Len(asks'[d]) : i + 0 \in 1..Len(asks[d]) /\ asks'[d][i] = asks[d][i + 0]
        BY <1>0, <2>3, <3>2
      <4>2. Len(asks'[d]) \in Nat
        BY <1>0, <2>3, <3>2
      <4> QED
        BY <4>1, <4>2
    <3> QED
      BY <3>1, <3>2
  <2>5. ASSUME NEW r \in Reqs, acts'[r] # acts[r]
        PROVE  acts'[r] = acts[r] + 1 /\ r \in Waiting /\ r \notin Waiting'
    <3>1. r = asks[c][1] /\ acts'[r] = acts[r] + 1
      BY <1>0, <2>1, <2>2, <2>5
    <3>2. ASSUME NEW d \in Conns, NEW i \in 1..Len(asks'[d]) PROVE r # asks'[d][i]
      <4>1. CASE d = c
        <5>1. i + 1 \in 1..Len(asks[c]) /\ i + 1 # 1 /\ asks'[d][i] = asks[c][i + 1]
          BY <2>2, <2>3, <3>2, <4>1
        <5> QED
          BY <2>2, <3>1, <5>1 DEF Outstanding
      <4>2. CASE d # c
        BY <2>2, <2>3, <3>1, <3>2, <4>2 DEF Outstanding
      <4> QED
        BY <4>1, <4>2
    <3> QED
      BY <2>2, <3>1, <3>2, WaitingAt
  <2> QED
    BY <1>0, <1>1, <2>4, <2>5, StillOutstanding
<1> QED
  BY <1>2, <1>3, <1>4 DEF Server

\* The dial loop never exceeds its budget.
LEMMA BudgetStep ==
  ASSUME TypeOK, Budget, Next
  PROVE  Budget'
<1> SUFFICES ASSUME NEW q \in Reqs PROVE
      /\ pc'[q] \in {"new", "checkout"} => sends'[q] <= Spent(q)'
      /\ pc'[q] = "write" => sends'[q] + dials'[q] <= Spent(q)' + 2
      /\ pc'[q] \in {"read", "dial"} => sends'[q] + dials'[q] <= Spent(q)' + 3
      /\ pc'[q] = "done" => sends'[q] <= Spent(q)' + 3
  BY DEF Budget
<1>0. /\ sends \in [Reqs -> Nat] /\ dials \in [Reqs -> 0..2] /\ pc \in [Reqs -> Pcs]
      /\ accept_brotli \in [Reqs -> BOOLEAN]
  BY DEF TypeOK, Pcs
<1>1. /\ pc[q] \in {"new", "checkout"} => sends[q] <= Spent(q)
      /\ pc[q] = "write" => sends[q] + dials[q] <= Spent(q) + 2
      /\ pc[q] \in {"read", "dial"} => sends[q] + dials[q] <= Spent(q) + 3
      /\ pc[q] = "done" => sends[q] <= Spent(q) + 3
  BY DEF Budget
<1>2. Spent(q) \in Nat
  BY DEF Spent
<1>3. CASE pc'[q] = pc[q] /\ sends'[q] = sends[q] /\ dials'[q] = dials[q]
           /\ accept_brotli'[q] = accept_brotli[q]
  BY <1>1, <1>3 DEF Spent
<1>4. ASSUME NEW c \in Conns, Server(c)
      PROVE  pc'[q] = pc[q] /\ sends'[q] = sends[q] /\ dials'[q] = dials[q]
             /\ accept_brotli'[q] = accept_brotli[q]
  BY <1>4 DEF Server, ServerReplies, ServerInterim, ServerCloses
<1>5. ASSUME NEW r \in Reqs, Client(r), q # r
      PROVE  pc'[q] = pc[q] /\ sends'[q] = sends[q] /\ dials'[q] = dials[q]
             /\ accept_brotli'[q] = accept_brotli[q]
  BY <1>0, <1>5 DEF Client, Evict, checkout, Write, ReadReply, ConnError, dial, DialFails, GiveUp,
                    Finish
<1>6. CASE Client(q)
  <2>1. CASE Evict(q) \/ checkout(q)
    <3>1. /\ pc[q] \in {"new", "checkout"} /\ sends'[q] = sends[q]
          /\ accept_brotli'[q] = accept_brotli[q]
          /\ pc'[q] = "checkout" \/ (dials'[q] = 2 /\ pc'[q] \in {"write", "dial"})
      BY <1>0, <2>1 DEF Evict, checkout
    <3> QED
      BY <1>0, <1>1, <1>2, <3>1 DEF Spent
  <2>2. CASE Write(q)
    <3>1. /\ pc[q] = "write" /\ sends'[q] = sends[q] + 1 /\ accept_brotli'[q] = accept_brotli[q]
          /\ dials'[q] = dials[q] /\ pc'[q] = "read"
      BY <1>0, <2>2 DEF Write
    <3> QED
      BY <1>0, <1>1, <1>2, <3>1 DEF Spent
  <2>3. CASE ReadReply(q)
    <3>1. /\ pc[q] = "read" /\ sends'[q] = sends[q] /\ dials'[q] = dials[q]
          /\ \/ pc'[q] = "done" /\ accept_brotli'[q] = accept_brotli[q]
             \/ pc'[q] = "new" /\ accept_brotli[q] /\ ~accept_brotli'[q]
      BY <1>0, <2>3 DEF ReadReply, Finish
    <3> QED
      BY <1>0, <1>1, <1>2, <3>1 DEF Spent
  <2>4. CASE ConnError(q)
    <3>1. /\ pc[q] = "read" /\ sends'[q] = sends[q] /\ dials'[q] = dials[q]
          /\ pc'[q] = "dial" /\ accept_brotli'[q] = accept_brotli[q]
      BY <1>0, <2>4 DEF ConnError
    <3> QED
      BY <1>0, <1>1, <1>2, <3>1 DEF Spent
  <2>5. CASE dial(q) \/ DialFails(q) \/ GiveUp(q)
    <3>1. /\ pc[q] = "dial" /\ sends'[q] = sends[q] /\ accept_brotli'[q] = accept_brotli[q]
          /\ \/ pc'[q] \in {"write", "dial"} /\ dials'[q] = dials[q] - 1
             \/ pc'[q] = "done"
      BY <1>0, <2>5 DEF dial, DialFails, GiveUp, Finish
    <3> QED
      BY <1>0, <1>1, <1>2, <3>1 DEF Spent
  <2> QED
    BY <1>6, <2>1, <2>2, <2>3, <2>4, <2>5 DEF Client
<1> QED
  BY <1>3, <1>4, <1>5, <1>6 DEF Next

\* However the server and the network fail, a request is written to at most three
\* connections for each coding it offers, and never carried out more often than it
\* was written (send_once's dial loop, the brotli retry of Client::send).
THEOREM RetriesAreBounded == Spec => []BoundedResend
<1> DEFINE J == Outstanding /\ Budget
<1>1. Init => J
  BY DEF Init, Outstanding, Budget, Spent
<1>2. ASSUME IInv, J, [Next]_vars PROVE J'
  <2>1. CASE UNCHANGED vars
    BY <1>2, <2>1 DEF Outstanding, Budget, Spent, vars, sockets
  <2>2. CASE Next
    BY <1>2, <2>2, ClientOutstanding, ServerOutstanding, BudgetStep DEF Next, IInv
  <2> QED
    BY <1>2, <2>1, <2>2
<1>3. IInv /\ J => BoundedResend
  <2> SUFFICES ASSUME IInv, J, NEW r \in Reqs
               PROVE  acts[r] <= sends[r] /\ sends[r] <= IF accept_brotli[r] THEN 3 ELSE 6
    BY DEF BoundedResend
  <2>1. /\ sends \in [Reqs -> Nat] /\ dials \in [Reqs -> 0..2]
        /\ pc[r] \in {"new", "checkout", "write", "read", "dial", "done"}
    BY DEF IInv, TypeOK
  <2>2. sends[r] <= Spent(r) + 3
    BY <2>1 DEF Budget, Spent
  <2> QED
    BY <2>1, <2>2 DEF Outstanding, Spent
<1> HIDE DEF J
<1> QED
  BY <1>1, <1>2, <1>3, ClientInvariance, PTL DEF Spec
=============================================================================
