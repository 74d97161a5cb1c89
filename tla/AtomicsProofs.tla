--------------------------- MODULE AtomicsProofs ---------------------------
(***************************************************************************)
(* No wakeup is lost, read-modify-writes do not interleave and notify      *)
(* counts the waiters it wakes: for any number of agents, elements and     *)
(* bytes, and whatever the scripts do.                                     *)
(*                                                                         *)
(* The argument rests on what a reader has read so far still being there.  *)
(* A wait reads holding the waiter list, which a notify needs, so that a   *)
(* writer that changes what was read stays dirty until the waiter is       *)
(* registered.  An RMW reads holding the lock every other RMW needs.       *)
(* That no entry is counted twice rests on the entries having tokens of    *)
(* their own: a marked entry would otherwise merge with another one.       *)
(***************************************************************************)
EXTENDS Atomics, FiniteSetTheorems, TLAPS

Clean(k) == \A b \in Agents : k \notin dirty[b]
RmwOnly(k) == \A b \in Agents : "store" \notin Uses[b][k]

\* What agent a has read of its element is what the element holds.
StillThere(a) == \A i \in 1..Len(seen[a]) : seen[a][i] = mem[op[a].key][i]

\* The part of the types the argument needs.
Entries == [token : Nat, agent : Agents, kind : WaitOps, key : Keys,
            deadline : BOOLEAN, notified : BOOLEAN, expected : Words]
Types ==
  /\ mem \in [Keys -> [1..Width -> 0..255]]
  /\ pc \in [Agents -> {"idle", "read", "write", "notify_all", "asleep", "awake"}]
  /\ DOMAIN op = Agents
  /\ seen \in [Agents -> Seq(0..255)] /\ pos \in [Agents -> 0..Width]
  /\ dirty \in [Agents -> SUBSET Keys]
  /\ waiters \subseteq Entries /\ next_token \in Nat

\* Control: who holds which lock, and what a call has read or written.
InCall(a) == pc[a] \in {"read", "write"}
Coherent ==
  /\ \A a \in Agents : InCall(a) => op[a] \in Calls(a)
  /\ \A a \in Agents : ~InCall(a) => seen[a] = <<>> /\ pos[a] = 0
  /\ \A a \in Agents : pc[a] = "read" =>
       /\ Len(seen[a]) <= Width
       /\ pos[a] # 0 => Len(seen[a]) = Width
       /\ op[a].kind # "store"
       /\ op[a].kind \in WaitOps => wl_lock = a
  /\ \A a \in Agents : pc[a] = "write" =>
       /\ pos[a] < Width
       /\ op[a].kind \in RmwOps \cup {"store"}
       /\ op[a].kind \in RmwOps => Len(seen[a]) = Width
  /\ \A a \in Agents : (InCall(a) /\ op[a].kind \in RmwOps) => rmw_lock = a
  /\ \A w \in waiters : w.key \in WaitedFor

WaitReads == \A a \in Agents :
  (pc[a] = "read" /\ op[a].kind \in WaitOps /\ Clean(op[a].key)) => StillThere(a)

RmwReads == \A a \in Agents :
  (pc[a] = "read" /\ op[a].kind \in RmwOps /\ RmwOnly(op[a].key)) => StillThere(a)

IInv == Types /\ Coherent /\ WaitReads /\ RmwReads /\ NoLostWakeup /\ RmwIsolated

-----------------------------------------------------------------------------
LEMMA InitIInv == Init => IInv
  <1> SUFFICES ASSUME Init PROVE IInv  OBVIOUS
  <1> USE AtomicsAssumption
  <1>1. Types  BY DEF Init, Types
  <1>2. Coherent  BY DEF Init, Coherent, InCall
  <1>3. WaitReads /\ RmwReads /\ NoLostWakeup /\ RmwIsolated
    BY DEF Init, WaitReads, RmwReads, NoLostWakeup, RmwIsolated
  <1> QED  BY <1>1, <1>2, <1>3 DEF IInv

\* The fields of a call that is under way.
LEMMA CallFields ==
  ASSUME NEW a \in Agents, NEW c \in Calls(a)
  PROVE  /\ c.key \in Keys /\ c.new \in [1..Width -> 0..255] /\ c.expected \in Words
         /\ c.expected \in [1..Width -> 0..255] /\ c.deadline \in BOOLEAN
         /\ c.kind \in Uses[a][c.key]
         /\ c.kind \in WaitOps => c.key \in WaitedFor
  BY AtomicsAssumption DEF Calls, Call, WaitedFor, WaitOps

LEMMA BeginStep ==
  ASSUME IInv, NEW a \in Agents, NEW c \in Calls(a),
         BeginLoad(a, c) \/ BeginStore(a, c) \/ BeginRmw(a, c) \/ BeginWait(a, c)
  PROVE  IInv'
  <1> USE AtomicsAssumption DEF IInv
  <1>1. PICK at \in {"read", "write"} :
          /\ Begin(a, c, at)
          /\ at = "write" <=> c.kind = "store"
          /\ c.kind \in {"load", "store"} \cup RmwOps \cup WaitOps
          /\ rmw_lock' = rmw_lock \/ rmw_lock = None
          /\ wl_lock' = wl_lock \/ wl_lock = None
          /\ c.kind \in RmwOps => rmw_lock' = a
          /\ c.kind \in WaitOps => wl_lock' = a
    BY DEF BeginLoad, BeginStore, BeginRmw, BeginWait, RmwOps, WaitOps
  <1> USE <1>1 DEF Begin, listVars
  <1>2. Types'  BY DEF Types
  <1>3. seen[a] = <<>> /\ pos[a] = 0 /\ Len(seen[a]) = 0
    BY DEF Coherent, InCall
  <1>4. \A b \in Agents \ {a} : pc'[b] = pc[b] /\ op'[b] = op[b]
    BY DEF Types
  <1>5. pc'[a] = at /\ op'[a] = c  BY DEF Types
  <1>6. Coherent'
    BY <1>3, <1>4, <1>5 DEF Coherent, InCall, RmwOps, WaitOps
  <1>7. \A b \in Agents : pc'[b] = "read" =>
          StillThere(b)' \/ (pc[b] = "read" /\ op'[b] = op[b] /\ (StillThere(b) => StillThere(b)'))
    <2> SUFFICES ASSUME NEW b \in Agents PROVE StillThere(b)' \/ (pc'[b] = pc[b] /\ op'[b] = op[b]
                          /\ (StillThere(b) => StillThere(b)'))
      OBVIOUS
    <2>1. CASE b = a  BY <2>1, <1>3 DEF StillThere
    <2>2. CASE b # a  BY <2>2, <1>4 DEF StillThere
    <2> QED  BY <2>1, <2>2
  <1>10. WaitReads'  BY <1>7 DEF WaitReads, Clean
  <1>11. RmwReads'  BY <1>7 DEF RmwReads, RmwOnly
  <1>8. NoLostWakeup'  BY DEF NoLostWakeup
  <1>9. RmwIsolated'
    <2>1. \A b \in Agents : (pc'[b] = "write" /\ op'[b].kind \in RmwOps)
                             => pc[b] = "write" /\ op'[b] = op[b]
      BY <1>4, <1>5 DEF RmwOps
    <2> QED  BY <2>1 DEF RmwIsolated
  <1> QED  BY <1>2, <1>6, <1>10, <1>11, <1>8, <1>9

\* A call of a that returns without touching the memory: nobody else notices.
LEMMA ReturnStep ==
  ASSUME IInv, NEW a \in Agents, Returns(a), dirty' = dirty, mem' = mem, waiters' \subseteq waiters,
         next_token' \in Nat
  PROVE  IInv'
  <1> USE AtomicsAssumption DEF IInv, Returns
  <1>1. Types'
    <2>1. 0 \in 0..Width /\ <<>> \in Seq(0..255)  OBVIOUS
    <2>2. /\ pc' = [pc EXCEPT ![a] = "idle"] /\ op' = [op EXCEPT ![a] = NoCall]
          /\ seen' = [seen EXCEPT ![a] = <<>>] /\ pos' = [pos EXCEPT ![a] = 0]
          /\ dirty' = dirty /\ mem' = mem /\ waiters' \subseteq waiters /\ next_token' \in Nat
      OBVIOUS
    <2> QED  BY ONLY <2>1, <2>2, Types DEF Types
  <1>2. /\ pc'[a] = "idle" /\ seen'[a] = <<>> /\ pos'[a] = 0
        /\ \A b \in Agents \ {a} : /\ pc'[b] = pc[b] /\ op'[b] = op[b]
                                   /\ seen'[b] = seen[b] /\ pos'[b] = pos[b]
    BY DEF Types
  <1>3. \A b \in Agents \ {a} : /\ rmw_lock = b => rmw_lock' = b
                                /\ wl_lock = b => wl_lock' = b
    <2> TAKE b \in Agents \ {a}
    <2>1. b # a  OBVIOUS
    <2> QED  BY <2>1
  <1>4. Coherent'  BY <1>2, <1>3 DEF Coherent, InCall
  <1>50. \A b \in Agents : pc'[b] = "read" =>
           pc[b] = "read" /\ op'[b] = op[b] /\ (StillThere(b) => StillThere(b)')
    <2> SUFFICES ASSUME NEW b \in Agents, pc'[b] = "read"
                 PROVE  pc[b] = "read" /\ op'[b] = op[b] /\ (StillThere(b) => StillThere(b)')
      OBVIOUS
    <2> QED  BY <1>2 DEF StillThere
  <1>5. WaitReads' /\ RmwReads'
    <2>1. WaitReads'  BY <1>50 DEF WaitReads, Clean
    <2>2. RmwReads'  BY <1>50 DEF RmwReads, RmwOnly
    <2> QED  BY <2>1, <2>2
  <1>6. NoLostWakeup'  BY DEF NoLostWakeup
  <1>7. RmwIsolated'  BY <1>2 DEF RmwIsolated
  <1> QED  BY <1>1, <1>4, <1>5, <1>6, <1>7

\* A thread goes to sleep or wakes up: it is in no call on the memory.
LEMMA SleepStep ==
  ASSUME IInv, UNCHANGED <<mem, rmw_lock, wl_lock, op, seen, pos, dirty, listVars>>,
         pc' \in [Agents -> {"idle", "read", "write", "notify_all", "asleep", "awake"}],
         \A b \in Agents : pc'[b] = pc[b] \/ (~InCall(b) /\ ~InCall(b)')
  PROVE  IInv'
  <1> USE AtomicsAssumption DEF IInv, listVars
  <1>1. Types'  BY DEF Types
  <1>2. \A b \in Agents : /\ InCall(b)' <=> InCall(b)
                          /\ InCall(b)' => pc'[b] = pc[b]
    BY DEF InCall
  <1>3. \A b \in Agents : /\ pc'[b] = "read" => pc[b] = "read"
                          /\ pc'[b] = "write" => pc[b] = "write"
    BY DEF InCall
  <1>4. Coherent'  BY <1>2, <1>3 DEF Coherent
  <1>5. \A b \in Agents : StillThere(b)' <=> StillThere(b)
    BY DEF StillThere
  <1>6. WaitReads'  BY <1>3, <1>5 DEF WaitReads, Clean
  <1>7. RmwReads'  BY <1>3, <1>5 DEF RmwReads, RmwOnly
  <1>8. NoLostWakeup' /\ RmwIsolated'
    BY <1>3 DEF NoLostWakeup, RmwIsolated
  <1> QED  BY <1>1, <1>4, <1>6, <1>7, <1>8

LEMMA AppendFacts ==
  ASSUME NEW s \in Seq(0..255), NEW e \in 0..255
  PROVE  /\ Append(s, e) \in Seq(0..255)
         /\ Len(Append(s, e)) = Len(s) + 1
         /\ Append(s, e)[Len(s) + 1] = e
         /\ \A i \in 1..Len(s) : Append(s, e)[i] = s[i]
  OBVIOUS

LEMMA ReadByteStep ==
  ASSUME IInv, NEW a \in Agents, ReadByte(a)
  PROVE  IInv'
  <1> USE AtomicsAssumption DEF IInv, ReadByte, listVars
  <1> DEFINE k == op[a].key
             n == Len(seen[a])
  <1>1. k \in Keys /\ n \in Nat /\ n < Width /\ n + 1 \in 1..Width /\ pos[a] = 0
    BY CallFields DEF Coherent, InCall, Types
  <1>2. mem[k][n + 1] \in 0..255
    <2>1. mem[k] \in [1..Width -> 0..255]  BY ONLY <1>1, Types DEF Types
    <2> QED  BY ONLY <2>1, <1>1
  <1>3. seen'[a] = Append(seen[a], mem[k][n + 1])  BY DEF Types
  <1>4. \A b \in Agents \ {a} : seen'[b] = seen[b]  BY DEF Types
  <1>5. seen[a] \in Seq(0..255)  BY DEF Types
  <1>6. /\ Len(seen'[a]) = n + 1 /\ seen'[a] \in Seq(0..255)
        /\ seen'[a][n + 1] = mem[k][n + 1]
        /\ \A i \in 1..n : seen'[a][i] = seen[a][i]
    <2> HIDE DEF k
    <2> DEFINE s == seen[a]
               e == mem[k][n + 1]
    <2>1. s \in Seq(0..255) /\ e \in 0..255 /\ seen'[a] = Append(s, e) /\ n = Len(s)
      BY ONLY <1>2, <1>3, <1>5
    <2> HIDE DEF s, e, n
    <2>2. /\ Append(s, e) \in Seq(0..255)
          /\ Len(Append(s, e)) = Len(s) + 1
          /\ Append(s, e)[Len(s) + 1] = e
          /\ \A i \in 1..Len(s) : Append(s, e)[i] = s[i]
      BY ONLY <2>1, AppendFacts
    <2>3. /\ Len(seen'[a]) = n + 1 /\ seen'[a] \in Seq(0..255)
          /\ seen'[a][n + 1] = e
          /\ \A i \in 1..n : seen'[a][i] = s[i]
      BY ONLY <2>1, <2>2
    <2> QED  BY ONLY <2>3 DEF s, e
  <1>7. Types'
    <2>1. seen' \in [Agents -> Seq(0..255)]  BY <1>4, <1>6 DEF Types
    <2> QED  BY <2>1 DEF Types
  <1>8. Coherent'  BY <1>1, <1>4, <1>6 DEF Coherent, InCall
  <1>9. \A b \in Agents : StillThere(b) => StillThere(b)'
    <2> SUFFICES ASSUME NEW b \in Agents, StillThere(b), NEW i \in 1..Len(seen'[b])
                 PROVE  seen'[b][i] = mem[op[b].key][i]
      BY DEF StillThere
    <2>1. CASE b # a  BY <2>1, <1>4 DEF StillThere
    <2>2. CASE b = a /\ i = n + 1  BY <2>2, <1>6
    <2>3. CASE b = a /\ i # n + 1
      <3>1. i \in 1..n  BY <2>3, <1>6, <1>1
      <3>2. seen'[a][i] = seen[a][i]  BY <3>1, <1>6
      <3> QED  BY <3>1, <3>2, <2>3 DEF StillThere
    <2> QED  BY <2>1, <2>2, <2>3
  <1>10. WaitReads'  BY <1>9 DEF WaitReads, Clean
  <1>11. RmwReads'  BY <1>9 DEF RmwReads, RmwOnly
  <1>12. NoLostWakeup'  BY DEF NoLostWakeup
  <1>13. RmwIsolated'  BY <1>4 DEF RmwIsolated
  <1> QED  BY <1>7, <1>8, <1>10, <1>11, <1>12, <1>13

LEMMA ReadAgainStep ==
  ASSUME IInv, NEW a \in Agents, ReadAgain(a)
  PROVE  IInv'
  <1> USE AtomicsAssumption DEF IInv, ReadAgain, listVars
  <1>1. pos[a] \in Nat /\ pos[a] + 1 \in 1..Width  BY DEF Types
  <1>2. /\ \/ pos'[a] = pos[a] + 1 /\ seen'[a] = seen[a]
           \/ pos'[a] = 0 /\ seen'[a] = <<>>
        /\ \A b \in Agents \ {a} : seen'[b] = seen[b] /\ pos'[b] = pos[b]
    BY DEF Types
  <1>3. Types'
    <2>1. pos' \in [Agents -> 0..Width]
      <3>1. \E j \in 0..Width : pos' = [pos EXCEPT ![a] = j]  BY <1>1
      <3> QED  BY ONLY <3>1, Types DEF Types
    <2>2. seen' \in [Agents -> Seq(0..255)]
      <3>1. seen' = seen \/ seen' = [seen EXCEPT ![a] = <<>>]  OBVIOUS
      <3>2. <<>> \in Seq(0..255)  OBVIOUS
      <3> QED  BY ONLY <3>1, <3>2, Types, ZenonT(40) DEF Types
    <2> QED  BY <2>1, <2>2 DEF Types
  <1>4. Coherent'
    <2>1. /\ UNCHANGED <<rmw_lock, wl_lock, pc, op, waiters>>
          /\ pc[a] = "read" /\ Len(seen[a]) = Width /\ Len(<<>>) = 0 /\ Width \in Nat
      OBVIOUS
    <2> QED  BY ONLY Coherent, <1>1, <1>2, <2>1 DEF Coherent, InCall
  <1>5. \A b \in Agents : StillThere(b) => StillThere(b)'
    <2> SUFFICES ASSUME NEW b \in Agents, StillThere(b), NEW i \in 1..Len(seen'[b])
                 PROVE  seen'[b][i] = mem[op[b].key][i]
      BY DEF StillThere
    <2>1. seen'[b] = seen[b] \/ seen'[b] = <<>>  BY <1>2
    <2>2. seen'[b] # <<>>  OBVIOUS
    <2> QED  BY <2>1, <2>2 DEF StillThere
  <1>6. WaitReads'  BY <1>5 DEF WaitReads, Clean
  <1>7. RmwReads'  BY <1>5 DEF RmwReads, RmwOnly
  <1>8. NoLostWakeup'  BY DEF NoLostWakeup
  <1>9. RmwIsolated'  BY <1>2 DEF RmwIsolated
  <1> QED  BY <1>3, <1>4, <1>6, <1>7, <1>8, <1>9

LEMMA RmwStoresStep ==
  ASSUME IInv, NEW a \in Agents, RmwStores(a)
  PROVE  IInv'
  <1> USE AtomicsAssumption DEF IInv, RmwStores, Stable, listVars
  <1>1. /\ pc'[a] = "write" /\ pos'[a] = 0
        /\ \A b \in Agents \ {a} : pc'[b] = pc[b] /\ pos'[b] = pos[b]
    BY DEF Types
  <1>2. Types'
    <2>1. 0 \in 0..Width  OBVIOUS
    <2>2. /\ pc' = [pc EXCEPT ![a] = "write"] /\ pos' = [pos EXCEPT ![a] = 0]
          /\ UNCHANGED <<mem, op, seen, dirty, waiters, next_token>>
      OBVIOUS
    <2> QED  BY ONLY <2>1, <2>2, Types DEF Types
  <1>3. Len(seen[a]) = Width  BY DEF Coherent
  <1>4. Coherent'  BY <1>1, <1>3 DEF Coherent, InCall
  <1>5. \A b \in Agents : StillThere(b) <=> StillThere(b)'
    BY DEF StillThere
  <1>6. \A b \in Agents : pc'[b] = "read" => pc[b] = "read"  BY <1>1
  <1>7. WaitReads'  BY <1>5, <1>6 DEF WaitReads, Clean
  <1>8. RmwReads'  BY <1>5, <1>6 DEF RmwReads, RmwOnly
  <1>9. NoLostWakeup'  BY DEF NoLostWakeup
  <1>10. RmwIsolated'
    <2>1. RmwOnly(op[a].key) => \A i \in 1..Width : mem[op[a].key][i] = seen[a][i]
      BY <1>3 DEF RmwReads, StillThere
    <2> QED  BY <1>1, <2>1 DEF RmwIsolated, RmwOnly
  <1> QED  BY <1>2, <1>4, <1>7, <1>8, <1>9, <1>10

LEMMA WriteByteStep ==
  ASSUME IInv, NEW a \in Agents, WriteByte(a)
  PROVE  IInv'
  <1> USE AtomicsAssumption DEF IInv, listVars
  <1> DEFINE k == op[a].key
             i == pos[a] + 1
             v == op[a].new[i]
  <1>1. /\ k \in Keys /\ op[a].kind \in Uses[a][k]
        /\ pos[a] \in Nat /\ i \in 1..Width /\ v \in 0..255
        /\ pc[a] = "write" /\ op[a].kind \in RmwOps \cup {"store"}
    <2>1. pc[a] = "write"  BY DEF WriteByte
    <2>2. op[a] \in Calls(a) /\ op[a].kind \in RmwOps \cup {"store"} /\ pos[a] < Width
      BY <2>1 DEF Coherent, InCall
    <2>3. pos[a] \in Nat /\ i \in 1..Width  BY <2>2 DEF Types
    <2>4. /\ k \in Keys /\ op[a].kind \in Uses[a][k]
          /\ op[a].new \in [1..Width -> 0..255]
      <3>1. /\ op[a].key \in Keys /\ op[a].new \in [1..Width -> 0..255]
            /\ op[a].kind \in Uses[a][op[a].key]
        <4> DEFINE c == op[a]
        <4>1. a \in Agents /\ c \in Calls(a)  BY <2>2
        <4> HIDE DEF c
        <4>2. c.key \in Keys /\ c.new \in [1..Width -> 0..255] /\ c.kind \in Uses[a][c.key]
          BY ONLY <4>1, CallFields
        <4> QED  BY ONLY <4>2 DEF c
      <3> QED  BY ONLY <3>1
    <2> QED  BY <2>1, <2>2, <2>3, <2>4
  <1>2. /\ mem' = [mem EXCEPT ![k] = [mem[k] EXCEPT ![i] = v]]
        /\ dirty' = [dirty EXCEPT ![a] = dirty[a] \cup ({k} \cap WaitedFor)]
        /\ UNCHANGED <<waiters, next_token>>
    BY DEF WriteByte
  <1>3. /\ mem' \in [Keys -> [1..Width -> 0..255]]
        /\ mem'[k][i] = v
        /\ \A j \in 1..Width : j # i => mem'[k][j] = mem[k][j]
        /\ \A q \in Keys : q # k => mem'[q] = mem[q]
    <2>1. mem[k] \in [1..Width -> 0..255] /\ mem \in [Keys -> [1..Width -> 0..255]]
      BY <1>1 DEF Types
    <2>2. [mem[k] EXCEPT ![i] = v] \in [1..Width -> 0..255]  BY <1>1, <2>1
    <2> HIDE DEF k, i, v
    <2> QED  BY ONLY <1>1, <1>2, <2>1, <2>2
  <1>4. /\ dirty' \in [Agents -> SUBSET Keys]
        /\ \A b \in Agents : dirty[b] \subseteq dirty'[b]
        /\ k \in WaitedFor => k \in dirty'[a]
    BY <1>1, <1>2 DEF Types
  \* Either the call goes on, or it returns.
  <1>5. /\ \/ /\ i # Width /\ pc'[a] = "write" /\ pos'[a] = i
              /\ op' = op /\ seen' = seen /\ rmw_lock' = rmw_lock /\ wl_lock' = wl_lock
           \/ pc'[a] = "idle" /\ pos'[a] = 0 /\ seen'[a] = <<>>
        /\ \A b \in Agents \ {a} :
             /\ pc'[b] = pc[b] /\ op'[b] = op[b] /\ seen'[b] = seen[b] /\ pos'[b] = pos[b]
             /\ rmw_lock = b => rmw_lock' = b
             /\ wl_lock = b => wl_lock' = b
    <2>1. CASE i = Width
      <3>1. Returns(a)  BY <2>1 DEF WriteByte
      <3>2. \A b \in Agents \ {a} : b # a  OBVIOUS
      <3> QED  BY <3>1, <3>2 DEF Returns, Types
    <2>2. CASE i # Width
      <3>1. /\ pos' = [pos EXCEPT ![a] = i]
            /\ UNCHANGED <<pc, op, seen, rmw_lock, wl_lock>>
        BY <2>2 DEF WriteByte
      <3> QED  BY ONLY <2>2, <3>1, <1>1, Types DEF Types
    <2> QED  BY <2>1, <2>2
  <1>6. Types'
    <2>1. /\ pc' \in [Agents -> {"idle", "read", "write", "notify_all", "asleep", "awake"}]
          /\ DOMAIN op' = Agents
          /\ seen' \in [Agents -> Seq(0..255)] /\ pos' \in [Agents -> 0..Width]
      <3>1. CASE i = Width
        <4>1. Returns(a)  BY <3>1 DEF WriteByte
        <4> QED  BY <4>1 DEF Returns, Types
      <3>2. CASE i # Width
        <4>1. pos' = [pos EXCEPT ![a] = i] /\ UNCHANGED <<pc, op, seen>>
          BY <3>2 DEF WriteByte
        <4>2. i \in 0..Width  BY ONLY <1>1
        <4> HIDE DEF i
        <4> QED  BY ONLY <4>1, <4>2, Types DEF Types
      <3> QED  BY <3>1, <3>2
    <2> QED  BY <2>1, <1>2, <1>3, <1>4 DEF Types
  <1>7. Coherent'
    <2>1. ASSUME NEW b \in Agents \ {a}
          PROVE  /\ pc'[b] = pc[b] /\ op'[b] = op[b] /\ seen'[b] = seen[b] /\ pos'[b] = pos[b]
                 /\ rmw_lock = b => rmw_lock' = b
                 /\ wl_lock = b => wl_lock' = b
      BY <1>5
    <2>2. \/ pc'[a] = "idle" /\ pos'[a] = 0 /\ seen'[a] = <<>>
          \/ /\ pc'[a] = "write" /\ pos'[a] = i /\ op'[a] = op[a] /\ seen'[a] = seen[a]
             /\ rmw_lock' = rmw_lock /\ i < Width
      <3>1. i # Width => i < Width
        <4>1. Width \in Nat  OBVIOUS
        <4> QED  BY ONLY <4>1, <1>1
      <3> QED  BY ONLY <1>1, <1>5, <3>1
    <2>3. \A b \in Agents : InCall(b)' => op'[b] \in Calls(b)
      BY ONLY Coherent, <1>1, <2>1, <2>2 DEF Coherent, InCall
    <2>4. \A b \in Agents : ~InCall(b)' => seen'[b] = <<>> /\ pos'[b] = 0
      BY ONLY Coherent, <1>1, <2>1, <2>2 DEF Coherent, InCall
    <2>5. \A b \in Agents : pc'[b] = "read" =>
            /\ Len(seen'[b]) <= Width
            /\ pos'[b] # 0 => Len(seen'[b]) = Width
            /\ op'[b].kind # "store"
            /\ op'[b].kind \in WaitOps => wl_lock' = b
      BY ONLY Coherent, <1>1, <2>1, <2>2 DEF Coherent
    <2>6. \A b \in Agents : pc'[b] = "write" =>
            /\ pos'[b] < Width
            /\ op'[b].kind \in RmwOps \cup {"store"}
            /\ op'[b].kind \in RmwOps => Len(seen'[b]) = Width
      <3> SUFFICES ASSUME NEW b \in Agents, pc'[b] = "write"
                   PROVE  /\ pos'[b] < Width
                          /\ op'[b].kind \in RmwOps \cup {"store"}
                          /\ op'[b].kind \in RmwOps => Len(seen'[b]) = Width
        OBVIOUS
      <3>1. op'[b] = op[b] /\ seen'[b] = seen[b] /\ pc[b] = "write"
        BY <1>1, <2>1, <2>2
      <3>2. pos'[b] < Width  BY <3>1, <2>1, <2>2 DEF Coherent
      <3> QED  BY <3>1, <3>2 DEF Coherent
    <2>7. \A b \in Agents : (InCall(b)' /\ op'[b].kind \in RmwOps) => rmw_lock' = b
      BY ONLY Coherent, <1>1, <2>1, <2>2 DEF Coherent, InCall
    <2>8. \A w \in waiters' : w.key \in WaitedFor  BY <1>2 DEF Coherent
    <2> QED  BY <2>3, <2>4, <2>5, <2>6, <2>7, <2>8 DEF Coherent
  \* Nobody else reads an element that a writes, unless a is dirty for it; and
  \* no RMW is under way on it, unless a plain store is used there.
  <1>8. \A b \in Agents : pc'[b] = "read" =>
          /\ b # a /\ pc[b] = "read" /\ op'[b] = op[b] /\ seen'[b] = seen[b]
          /\ op[b].key \in Keys
          /\ (op[b].kind \in WaitOps => op[b].key \in WaitedFor)
    <2> SUFFICES ASSUME NEW b \in Agents, pc'[b] = "read"
                 PROVE  /\ b # a /\ pc[b] = "read" /\ op'[b] = op[b] /\ seen'[b] = seen[b]
                        /\ op[b].key \in Keys
                        /\ (op[b].kind \in WaitOps => op[b].key \in WaitedFor)
      OBVIOUS
    <2>1. b # a /\ pc[b] = "read" /\ op'[b] = op[b] /\ seen'[b] = seen[b]  BY <1>5
    <2>2. op[b] \in Calls(b)  BY <2>1 DEF Coherent, InCall
    <2> QED  BY <2>1, <2>2, CallFields
  <1>9. \A b \in Agents : (pc'[b] = "read" /\ op[b].key # k /\ StillThere(b)) => StillThere(b)'
    <2> SUFFICES ASSUME NEW b \in Agents, pc'[b] = "read", op[b].key # k, StillThere(b)
                 PROVE  StillThere(b)'
      OBVIOUS
    <2>1. mem'[op[b].key] = mem[op[b].key]  BY <1>3, <1>8
    <2> QED  BY <1>8, <2>1 DEF StillThere
  <1>10. WaitReads'
    <2> SUFFICES ASSUME NEW b \in Agents, pc'[b] = "read", op'[b].kind \in WaitOps,
                        Clean(op[b].key)'
                 PROVE  StillThere(b)'
      BY DEF WaitReads
    <2>1. op[b].key # k  BY <1>4, <1>8 DEF Clean
    <2>2. Clean(op[b].key)  BY <1>4, <1>8 DEF Clean
    <2> QED  BY <2>1, <2>2, <1>8, <1>9 DEF WaitReads
  <1>11. RmwReads'
    <2> SUFFICES ASSUME NEW b \in Agents, pc'[b] = "read", op'[b].kind \in RmwOps,
                        RmwOnly(op'[b].key)
                 PROVE  StillThere(b)'
      BY DEF RmwReads, RmwOnly
    <2>1. op[b].key # k
      <3>1. CASE op[a].kind \in RmwOps
        BY <3>1, <1>1, <1>8 DEF Coherent, InCall
      <3>2. CASE op[a].kind = "store"
        <4>1. ~RmwOnly(k)  BY ONLY <3>2, <1>1 DEF RmwOnly
        <4> QED  BY <4>1, <1>8
      <3> QED  BY <1>1, <3>1, <3>2
    <2> QED  BY <2>1, <1>8, <1>9 DEF RmwReads, RmwOnly
  <1>12. NoLostWakeup'
    <2> SUFFICES ASSUME NEW w \in waiters, ~w.notified, mem'[w.key] # w.expected
                 PROVE  \E b \in Agents : w.key \in dirty'[b]
      BY <1>2 DEF NoLostWakeup
    <2>1. w.key \in WaitedFor /\ w.key \in Keys  BY DEF Coherent, Types, Entries
    <2>2. CASE w.key = k  BY <2>1, <2>2, <1>4
    <2>3. CASE w.key # k
      <3>1. mem'[w.key] = mem[w.key]  BY <2>1, <2>3, <1>3
      <3> QED  BY <3>1, <1>4 DEF NoLostWakeup
    <2> QED  BY <2>2, <2>3
  <1>13. RmwIsolated'
    <2> SUFFICES ASSUME NEW b \in Agents, pc'[b] = "write", op'[b].kind \in RmwOps,
                        RmwOnly(op'[b].key), NEW j \in 1..Width
                 PROVE  mem'[op'[b].key][j]
                          = IF j <= pos'[b] THEN op'[b].new[j] ELSE seen'[b][j]
      BY DEF RmwIsolated, RmwOnly
    <2>1. pc[b] = "write" /\ op'[b] = op[b] /\ seen'[b] = seen[b]  BY <1>1, <1>5
    <2>2. mem[op[b].key][j] = IF j <= pos[b] THEN op[b].new[j] ELSE seen[b][j]
      BY <2>1 DEF RmwIsolated, RmwOnly
    <2>3. CASE b = a
      <3>1. pos'[a] = i  BY <1>5, <2>1, <2>3
      <3>2. CASE j = i
        <4>1. mem'[op'[b].key][j] = v /\ op'[b].new[j] = v  BY <3>2, <2>1, <2>3, <1>3
        <4>2. j <= pos'[b]
          <5>1. pos[a] \in Nat  BY <1>1
          <5>2. i <= i  BY ONLY <5>1
          <5> HIDE DEF i
          <5> QED  BY ONLY <5>2, <3>1, <3>2, <2>3
        <4> QED  BY ONLY <4>1, <4>2
      <3>3. CASE j # i
        <4>1. mem'[k][j] = mem[k][j]  BY <3>3, <1>3
        <4>2. j <= i <=> j <= pos[a]  BY ONLY <3>3, <1>1
        <4> QED  BY <4>1, <4>2, <3>1, <2>1, <2>2, <2>3
      <3> QED  BY <3>2, <3>3
    <2>4. CASE b # a
      <3>1. op[b].key # k
        <4>1. CASE op[a].kind \in RmwOps
          BY <4>1, <1>1, <2>1, <2>4 DEF Coherent, InCall
        <4>2. CASE op[a].kind = "store"
          <5>1. ~RmwOnly(k)  BY ONLY <4>2, <1>1 DEF RmwOnly
          <5> QED  BY <5>1, <2>1
        <4> QED  BY <1>1, <4>1, <4>2
      <3>2. op[b] \in Calls(b)  BY <2>1 DEF Coherent, InCall
      <3>3. op[b].key \in Keys  BY <3>2, CallFields
      <3>4. mem'[op[b].key] = mem[op[b].key] /\ pos'[b] = pos[b]
        BY <3>1, <3>3, <1>3, <1>5, <2>4
      <3> QED  BY <3>4, <2>1, <2>2
    <2> QED  BY <2>3, <2>4
  <1> QED  BY <1>6, <1>7, <1>10, <1>11, <1>12, <1>13

LEMMA SameWord ==
  ASSUME NEW f \in [1..Width -> 0..255], NEW g \in [1..Width -> 0..255],
         \A i \in 1..Width : f[i] = g[i]
  PROVE  g = f
  <1>1. /\ f = [i \in 1..Width |-> f[i]] /\ g = [i \in 1..Width |-> g[i]]  OBVIOUS
  <1>2. [i \in 1..Width |-> f[i]] = [i \in 1..Width |-> g[i]]  OBVIOUS
  <1> QED  BY ONLY <1>1, <1>2, Zenon

\* Where the two halves meet: the element a waiter registers for holds the word
\* it expects, or somebody is dirty for it.
LEMMA RegisterStep ==
  ASSUME IInv, NEW a \in Agents, Register(a)
  PROVE  IInv'
  <1> USE AtomicsAssumption DEF IInv
  <1> DEFINE k == op[a].key
             new == [token |-> next_token + 1, agent |-> a, kind |-> op[a].kind,
                     key |-> op[a].key, deadline |-> op[a].deadline, notified |-> FALSE,
                     expected |-> op[a].expected]
  <1>1. /\ pc[a] = "read" /\ pos[a] = Width
        /\ op[a].kind \in WaitOps /\ seen[a] = op[a].expected
        /\ waiters' = waiters \cup {new} /\ next_token' = next_token + 1
        /\ mem' = mem /\ dirty' = dirty
    BY DEF Register, Matches, Stable
  <1>2. op[a] \in Calls(a) /\ Len(seen[a]) = Width /\ wl_lock = a
    BY <1>1 DEF Coherent, InCall
  <1>3. /\ k \in Keys /\ k \in WaitedFor /\ op[a].expected \in Words
        /\ op[a].expected \in [1..Width -> 0..255] /\ op[a].deadline \in BOOLEAN
    <2>1. /\ op[a].key \in Keys /\ op[a].expected \in Words
          /\ op[a].expected \in [1..Width -> 0..255] /\ op[a].deadline \in BOOLEAN
          /\ op[a].kind \in WaitOps => op[a].key \in WaitedFor
      <3> DEFINE c == op[a]
      <3>1. a \in Agents /\ c \in Calls(a)  BY <1>2
      <3> HIDE DEF c
      <3>2. /\ c.key \in Keys /\ c.expected \in Words
            /\ c.expected \in [1..Width -> 0..255] /\ c.deadline \in BOOLEAN
            /\ c.kind \in WaitOps => c.key \in WaitedFor
        BY ONLY <3>1, CallFields, ZenonT(40)
      <3> QED  BY ONLY <3>2 DEF c
    <2> QED  BY ONLY <1>1, <2>1
  <1>4. new \in Entries /\ waiters' \subseteq Entries /\ next_token' \in Nat
    <2>1. next_token \in Nat /\ waiters \subseteq Entries  BY DEF Types
    <2>2. new \in Entries  BY <2>1, <1>1, <1>3 DEF Entries
    <2> HIDE DEF new
    <2> QED  BY <2>1, <2>2, <1>1
  <1>5. Clean(k) => mem[k] = op[a].expected
    <2> SUFFICES ASSUME Clean(k) PROVE mem[k] = op[a].expected  OBVIOUS
    <2>1. StillThere(a)  BY <1>1 DEF WaitReads
    <2>2. \A i \in 1..Width : seen[a][i] = mem[k][i]  BY <2>1, <1>2 DEF StillThere
    <2>3. mem[k] \in [1..Width -> 0..255]  BY ONLY <1>3, Types DEF Types
    <2>4. \A i \in 1..Width : op[a].expected[i] = mem[k][i]  BY <2>2, <1>1
    <2> HIDE DEF k
    <2> QED  BY ONLY <2>3, <2>4, <1>3, SameWord
  <1>6. NoLostWakeup'
    <2> SUFFICES ASSUME NEW w \in waiters', ~w.notified, mem[w.key] # w.expected
                 PROVE  \E b \in Agents : w.key \in dirty[b]
      BY <1>1 DEF NoLostWakeup
    <2>1. CASE w \in waiters  BY <2>1 DEF NoLostWakeup
    <2>2. CASE w = new  BY <2>2, <1>5 DEF Clean
    <2> QED  BY <2>1, <2>2, <1>1
  \* The registering thread leaves its call, asleep or back in its script.
  <1>7. /\ pc'[a] \in {"idle", "asleep"} /\ seen'[a] = <<>> /\ pos'[a] = 0
        /\ \A b \in Agents \ {a} :
             /\ pc'[b] = pc[b] /\ op'[b] = op[b] /\ seen'[b] = seen[b] /\ pos'[b] = pos[b]
             /\ rmw_lock = b => rmw_lock' = b
             /\ wl_lock = b => wl_lock' = b
    <2>1. \A b \in Agents \ {a} : b # a  OBVIOUS
    <2>2. CASE op[a].kind = "waitAsync"
      <3>1. Returns(a)  BY <2>2 DEF Register
      <3> QED  BY <2>1, <3>1 DEF Returns, Types
    <2>3. CASE op[a].kind # "waitAsync"
      BY <1>2, <2>1, <2>3 DEF Register, Types
    <2> QED  BY <2>2, <2>3
  <1>8. Types'
    <2>1. /\ pc' \in [Agents -> {"idle", "read", "write", "notify_all", "asleep", "awake"}]
          /\ DOMAIN op' = Agents
          /\ seen' \in [Agents -> Seq(0..255)] /\ pos' \in [Agents -> 0..Width]
      <3>1. CASE op[a].kind = "waitAsync"
        <4>1. Returns(a)  BY <3>1 DEF Register
        <4> QED  BY <4>1 DEF Returns, Types
      <3>2. CASE op[a].kind # "waitAsync"
        <4>1. /\ pc' = [pc EXCEPT ![a] = "asleep"] /\ op' = op
              /\ seen' = [seen EXCEPT ![a] = <<>>] /\ pos' = [pos EXCEPT ![a] = 0]
          BY <3>2 DEF Register
        <4> QED  BY ONLY <4>1, Types, AtomicsAssumption DEF Types
      <3> QED  BY <3>1, <3>2
    <2> QED  BY <2>1, <1>1, <1>4 DEF Types
  <1>9. Coherent'
    <2>1. \A w \in waiters' : w.key \in WaitedFor  BY <1>1, <1>3 DEF Coherent
    <2> QED  BY <2>1, <1>7 DEF Coherent, InCall
  <1>10. \A b \in Agents : pc'[b] = "read" =>
           pc[b] = "read" /\ op'[b] = op[b] /\ (StillThere(b) => StillThere(b)')
    <2> SUFFICES ASSUME NEW b \in Agents, pc'[b] = "read"
                 PROVE  pc[b] = "read" /\ op'[b] = op[b] /\ (StillThere(b) => StillThere(b)')
      OBVIOUS
    <2>1. b # a  BY <1>7
    <2> QED  BY <2>1, <1>1, <1>7 DEF StillThere
  <1>11. WaitReads'  BY <1>1, <1>10 DEF WaitReads, Clean
  <1>12. RmwReads'  BY <1>10 DEF RmwReads, RmwOnly
  <1>13. RmwIsolated'
    <2>1. \A b \in Agents : pc'[b] = "write" => b # a  BY <1>7
    <2> QED  BY <2>1, <1>1, <1>7 DEF RmwIsolated
  <1> QED  BY <1>6, <1>8, <1>9, <1>11, <1>12, <1>13

\* A notify that marks every waiter of an element may forget the writes to it;
\* nobody is comparing that element, since the list is free.
LEMMA NotifyStep ==
  ASSUME IInv, NEW a \in Agents, Notify(a)
  PROVE  IInv'
  <1> USE AtomicsAssumption DEF IInv
  <1>1. PICK k \in Keys, count \in Counts :
          LET chosen == Chosen(k, count)
          IN /\ waiters' = (waiters \ chosen) \cup {[w EXCEPT !.notified = TRUE] : w \in chosen}
             /\ dirty' = IF chosen = Unnotified(k) THEN [dirty EXCEPT ![a] = @ \ {k}] ELSE dirty
    BY DEF Notify
  <1> DEFINE chosen == Chosen(k, count)
  <1>2. chosen \subseteq waiters /\ chosen \subseteq Unnotified(k)
    BY DEF Chosen, Unnotified
  <1>3. /\ pc' = [pc EXCEPT ![a] = "notify_all"] /\ pc[a] = "idle" /\ wl_lock = None
        /\ UNCHANGED <<mem, rmw_lock, wl_lock, next_token, op, seen, pos>>
    BY DEF Notify
  <1> HIDE DEF chosen
  \* Every entry afterwards is an entry from before that was not chosen, or one
  \* that is notified now, of a key that was waited for.
  <1>4. \A w \in waiters' : /\ w \in Entries /\ w.key \in WaitedFor
                            /\ w.notified \/ (w \in waiters /\ w \notin chosen)
    <2> SUFFICES ASSUME NEW w \in waiters'
                 PROVE  /\ w \in Entries /\ w.key \in WaitedFor
                        /\ w.notified \/ (w \in waiters /\ w \notin chosen)
      OBVIOUS
    <2>1. CASE w \in waiters \ chosen  BY <2>1 DEF Types, Coherent
    <2>2. CASE w \in {[x EXCEPT !.notified = TRUE] : x \in chosen}
      <3>1. PICK x \in chosen : w = [x EXCEPT !.notified = TRUE]  BY <2>2
      <3>2. x \in Entries /\ x.key \in WaitedFor  BY <1>2 DEF Types, Coherent
      <3> QED  BY <3>1, <3>2 DEF Entries
    <2> QED  BY <1>1, <2>1, <2>2 DEF chosen
  <1>5. dirty' \in [Agents -> SUBSET Keys]
    BY <1>1 DEF Types
  <1>6. Types'
    <2>1. pc' \in [Agents -> {"idle", "read", "write", "notify_all", "asleep", "awake"}]
      BY <1>3 DEF Types
    <2> QED  BY <2>1, <1>3, <1>4, <1>5 DEF Types
  <1>7. \A b \in Agents : pc'[b] = pc[b] \/ (b = a /\ pc'[b] = "notify_all")
    BY <1>3 DEF Types
  <1>8. Coherent'  BY <1>3, <1>4, <1>7 DEF Coherent, InCall
  <1>9. WaitReads'
    <2>1. \A b \in Agents : pc'[b] = "read" => op[b].kind \notin WaitOps
      BY <1>3, <1>7 DEF Coherent
    <2> QED  BY <2>1, <1>3 DEF WaitReads
  <1>10. RmwReads'
    <2>1. \A b \in Agents : StillThere(b)' <=> StillThere(b)  BY <1>3 DEF StillThere
    <2>2. \A b \in Agents : pc'[b] = "read" => pc[b] = "read"  BY <1>7
    <2> QED  BY <2>1, <2>2, <1>3 DEF RmwReads, RmwOnly
  <1>11. NoLostWakeup'
    <2> SUFFICES ASSUME NEW w \in waiters', ~w.notified, mem[w.key] # w.expected
                 PROVE  \E b \in Agents : w.key \in dirty'[b]
      BY <1>3 DEF NoLostWakeup
    <2>1. w \in waiters /\ w \notin chosen  BY <1>4
    <2>2. PICK b \in Agents : w.key \in dirty[b]  BY <2>1 DEF NoLostWakeup
    <2>3. CASE chosen = Unnotified(k)
      <3>1. w.key # k  BY <2>1, <2>3 DEF Unnotified
      <3> QED  BY <3>1, <2>2, <1>1 DEF Types
    <2>4. CASE chosen # Unnotified(k)  BY <2>2, <2>4, <1>1 DEF chosen
    <2> QED  BY <2>3, <2>4
  <1>12. RmwIsolated'
    <2>1. \A b \in Agents : pc'[b] = "write" => pc[b] = "write"  BY <1>7
    <2> QED  BY <2>1, <1>3 DEF RmwIsolated
  <1> QED  BY <1>6, <1>8, <1>9, <1>10, <1>11, <1>12

\* Promises are settled: entries leave the list, nothing else changes.
LEMMA DrainStep ==
  ASSUME IInv, NEW a \in Agents, Drain(a)
  PROVE  IInv'
  <1> USE AtomicsAssumption DEF IInv
  <1>1. /\ waiters' \subseteq waiters /\ next_token' = next_token
        /\ UNCHANGED <<mem, rmw_lock, wl_lock, pc, op, seen, pos, dirty>>
    BY DEF Drain, Leave
  <1>2. Types' /\ Coherent'  BY <1>1 DEF Types, Coherent, InCall
  <1>3. \A b \in Agents : StillThere(b)' <=> StillThere(b)  BY <1>1 DEF StillThere
  <1>4. WaitReads' /\ RmwReads'  BY <1>1, <1>3 DEF WaitReads, RmwReads, Clean, RmwOnly
  <1>5. NoLostWakeup' /\ RmwIsolated'  BY <1>1 DEF NoLostWakeup, RmwIsolated
  <1> QED  BY <1>2, <1>4, <1>5

LEMMA NextIInv == IInv /\ [Next]_vars => IInv'
  <1> SUFFICES ASSUME IInv, [Next]_vars PROVE IInv'  OBVIOUS
  <1>1. CASE UNCHANGED vars
    <2>1. UNCHANGED <<mem, rmw_lock, wl_lock, op, seen, pos, dirty, listVars>> /\ pc' = pc
      BY <1>1 DEF vars, listVars
    <2>2. pc' \in [Agents -> {"idle", "read", "write", "notify_all", "asleep", "awake"}]
      BY <2>1 DEF IInv, Types
    <2> QED  BY <2>1, <2>2, SleepStep
  <1>2. ASSUME NEW a \in Agents, BeginCall(a) PROVE IInv'
    BY <1>2, BeginStep DEF BeginCall
  <1>3. ASSUME NEW a \in Agents, MemoryStep(a) PROVE IInv'
    <2>1. CASE LoadReturns(a) \/ CasFails(a)
      <3>1. Returns(a) /\ UNCHANGED <<mem, dirty, listVars>>
        BY <2>1 DEF LoadReturns, CasFails
      <3> QED  BY <3>1, ReturnStep DEF listVars, IInv, Types
    <2> QED  BY <1>3, <2>1, ReadByteStep, ReadAgainStep, RmwStoresStep, WriteByteStep
             DEF MemoryStep
  <1>4. ASSUME NEW a \in Agents, WaitStep(a) PROVE IInv'
    <2>1. CASE NotEqual(a) \/ TimesOutAtOnce(a)
      <3>1. /\ Returns(a) /\ UNCHANGED <<mem, dirty, waiters>>
            /\ next_token' \in {next_token, next_token + 1}
        BY <2>1 DEF NotEqual, TimesOutAtOnce, listVars
      <3> QED  BY <3>1, ReturnStep DEF IInv, Types
    <2>2. CASE WokenUp(a)
      <3>1. \/ /\ Returns(a) /\ UNCHANGED <<mem, dirty, next_token>>
               /\ waiters' \subseteq waiters
            \/ /\ pc[a] = "awake" /\ pc' = [pc EXCEPT ![a] = "asleep"]
               /\ UNCHANGED <<mem, rmw_lock, wl_lock, op, seen, pos, dirty, listVars>>
        BY <2>2 DEF WokenUp, Leave
      <3>2. CASE Returns(a) /\ UNCHANGED <<mem, dirty, next_token>> /\ waiters' \subseteq waiters
        BY <3>2, ReturnStep DEF IInv, Types
      <3>3. CASE /\ pc[a] = "awake" /\ pc' = [pc EXCEPT ![a] = "asleep"]
                 /\ UNCHANGED <<mem, rmw_lock, wl_lock, op, seen, pos, dirty, listVars>>
        BY <3>3, SleepStep DEF IInv, Types, InCall
      <3> QED  BY <3>1, <3>2, <3>3
    <2> QED  BY <1>4, <2>1, <2>2, RegisterStep DEF WaitStep
  <1>5. ASSUME NEW a \in Agents, NotifyAll(a) \/ StopsSleeping(a) PROVE IInv'
    <2>1. /\ \A b \in Agents : pc'[b] = pc[b] \/ (~InCall(b) /\ ~InCall(b)')
          /\ pc' \in [Agents -> {"idle", "read", "write", "notify_all", "asleep", "awake"}]
          /\ UNCHANGED <<mem, rmw_lock, wl_lock, op, seen, pos, dirty, listVars>>
      <3>1. CASE NotifyAll(a)  BY <3>1 DEF NotifyAll, InCall, IInv, Types
      <3>2. CASE StopsSleeping(a)  BY <3>2 DEF StopsSleeping, InCall, IInv, Types
      <3> QED  BY <1>5, <3>1, <3>2
    <2> QED  BY <2>1, SleepStep
  <1> QED  BY <1>1, <1>2, <1>3, <1>4, <1>5, NotifyStep, DrainStep DEF Next

LEMMA Invariance == Spec => []IInv
  BY InitIInv, NextIInv, PTL DEF Spec

\* No agent sleeps, or holds a pending promise, on an element whose value has
\* changed, once every writer has notified the element's waiters
\* (AtomicsView::wait, wait_async and notify), whatever the number of threads,
\* elements and bytes and whatever operations the scripts mix.
THEOREM NoWakeupIsLost == Spec => []NoLostWakeup
  <1>1. IInv => NoLostWakeup  BY DEF IInv
  <1> QED  BY <1>1, Invariance, PTL

\* The read and the write of an RMW or a wide compareExchange are one unit with
\* respect to the other ones (rmw_bytes, cas_bytes and the lock they share).
THEOREM RmwIsAtomic == Spec => []RmwIsolated
  <1>1. IInv => RmwIsolated  BY DEF IInv
  <1> QED  BY <1>1, Invariance, PTL

-----------------------------------------------------------------------------
(* The books: notify counts every waiter once, and tokens tell waiters apart.  *)

\* The locks' holders and the calls under way.
Plain ==
  /\ rmw_lock \in Agents \cup {None} /\ wl_lock \in Agents \cup {None}
  /\ \A a \in Agents : op[a] \in Calls(a) \cup {NoCall}

\* A wait that compares has a token left: it holds the list since it saw one.
Room == \A a \in Agents : (pc[a] = "read" /\ op[a].kind \in WaitOps) => next_token < MaxTokens

Notified == {w \in waiters : w.notified}

\* The waiter list: finitely many entries with tokens of their own, the notified
\* ones counted in owed.
Books ==
  /\ next_token \in 0..MaxTokens
  /\ waiters \subseteq Waiter /\ IsFiniteSet(waiters)
  /\ \A w \in waiters : w.token <= next_token
  /\ \A v, w \in waiters : v.token = w.token => v = w
  /\ CountsMatchWakeups

LEMMA InitBooks == Init => Plain /\ Room /\ Books
  <1> SUFFICES ASSUME Init PROVE Plain /\ Room /\ Books  OBVIOUS
  <1>1. Plain /\ Room  BY DEF Init, Plain, Room
  <1>2. {w \in waiters : w.notified} = {}  BY DEF Init
  <1>3. Books  BY <1>2, FS_EmptySet, AtomicsAssumption DEF Init, Books, CountsMatchWakeups
  <1> QED  BY <1>1, <1>3

LEMMA PlainStep ==
  ASSUME IInv, Plain, Next
  PROVE  Plain'
  <1>0. DOMAIN op = Agents  BY DEF IInv, Types
  <1>1. PICK a \in Agents : BeginCall(a) \/ MemoryStep(a) \/ WaitStep(a)
                            \/ Notify(a) \/ NotifyAll(a) \/ StopsSleeping(a) \/ Drain(a)
    BY DEF Next
  <1>2. CASE UNCHANGED <<rmw_lock, wl_lock, op>>  BY <1>2 DEF Plain
  <1>3. CASE Returns(a)  BY <1>0, <1>3 DEF Returns, Plain
  <1>4. CASE BeginCall(a)
    <2>1. PICK c \in Calls(a) : /\ op' = [op EXCEPT ![a] = c]
                                /\ rmw_lock' \in {rmw_lock, a} /\ wl_lock' \in {wl_lock, a}
      BY <1>4 DEF BeginCall, BeginLoad, BeginStore, BeginRmw, BeginWait, Begin
    <2> QED  BY <1>0, <2>1 DEF Plain
  <1>5. CASE MemoryStep(a)
    BY <1>2, <1>3, <1>5 DEF MemoryStep, ReadByte, ReadAgain, LoadReturns, RmwStores, CasFails, WriteByte
  <1>6. CASE WaitStep(a)
    <2>1. CASE Register(a) /\ op[a].kind # "waitAsync"
      <3>1. wl_lock' = None /\ UNCHANGED <<rmw_lock, op>>  BY <2>1 DEF Register
      <3> QED  BY <3>1 DEF Plain
    <2> QED
      BY <1>2, <1>3, <1>6, <2>1 DEF WaitStep, NotEqual, TimesOutAtOnce, Register, WokenUp
  <1>7. CASE Notify(a) \/ NotifyAll(a) \/ StopsSleeping(a) \/ Drain(a)
    BY <1>2, <1>7 DEF Notify, NotifyAll, StopsSleeping, Drain
  <1> QED  BY <1>1, <1>4, <1>5, <1>6, <1>7

\* A token is only given to the holder of the list, which then stops comparing.
LEMMA RoomStep ==
  ASSUME IInv, Room, Next
  PROVE  Room'
  <1>0. DOMAIN op = Agents /\ pc \in [Agents -> {"idle", "read", "write", "notify_all", "asleep", "awake"}]
    BY DEF IInv, Types
  <1>1. PICK a \in Agents : BeginCall(a) \/ MemoryStep(a) \/ WaitStep(a)
                            \/ Notify(a) \/ NotifyAll(a) \/ StopsSleeping(a) \/ Drain(a)
    BY DEF Next
  <1>2. ASSUME next_token' = next_token,
               \A b \in Agents : pc'[b] = "read" => pc[b] = "read" /\ op'[b] = op[b]
        PROVE  Room'
    BY <1>2 DEF Room
  <1>3. ASSUME Returns(a) PROVE \A b \in Agents : pc'[b] = "read" =>
                                   pc[b] = "read" /\ op'[b] = op[b] /\ b # a
    BY <1>0, <1>3 DEF Returns
  <1>4. CASE BeginCall(a)
    <2>1. PICK c \in Calls(a) : /\ op' = [op EXCEPT ![a] = c] /\ next_token' = next_token
                                /\ \E at : pc' = [pc EXCEPT ![a] = at]
                                /\ c.kind \in WaitOps => next_token < MaxTokens
      BY <1>4 DEF BeginCall, BeginLoad, BeginStore, BeginRmw, BeginWait, Begin, listVars, RmwOps, WaitOps
    <2> QED  BY <1>0, <2>1 DEF Room
  <1>5. CASE MemoryStep(a)
    <2>1. next_token' = next_token
      BY <1>5 DEF MemoryStep, ReadByte, ReadAgain, LoadReturns, RmwStores, CasFails, WriteByte, listVars
    <2>2. \A b \in Agents : pc'[b] = "read" => pc[b] = "read" /\ op'[b] = op[b]
      BY <1>0, <1>3, <1>5 DEF MemoryStep, ReadByte, ReadAgain, LoadReturns, RmwStores, CasFails, WriteByte
    <2> QED  BY <1>2, <2>1, <2>2
  <1>6. CASE TimesOutAtOnce(a) \/ Register(a)
    <2>1. pc[a] = "read" /\ op[a].kind \in WaitOps
      BY <1>6 DEF TimesOutAtOnce, Register, Matches, Stable
    <2>2. \A b \in Agents : pc[b] = "read" /\ op[b].kind \in WaitOps => b = a
      BY <2>1 DEF IInv, Coherent
    <2>3. \A b \in Agents : pc'[b] = "read" => pc[b] = "read" /\ op'[b] = op[b] /\ b # a
      BY <1>0, <1>3, <1>6 DEF TimesOutAtOnce, Register
    <2> QED  BY <2>2, <2>3 DEF Room
  <1>7. CASE NotEqual(a) \/ WokenUp(a)
    <2>1. next_token' = next_token
      BY <1>7 DEF NotEqual, WokenUp, Leave, listVars
    <2>2. \A b \in Agents : pc'[b] = "read" => pc[b] = "read" /\ op'[b] = op[b]
      BY <1>0, <1>3, <1>7 DEF NotEqual, WokenUp
    <2> QED  BY <1>2, <2>1, <2>2
  <1>8. CASE Notify(a) \/ NotifyAll(a) \/ StopsSleeping(a) \/ Drain(a)
    <2>1. next_token' = next_token /\ op' = op
      BY <1>8 DEF Notify, NotifyAll, StopsSleeping, Drain, Leave, listVars
    <2>2. \A b \in Agents : pc'[b] = "read" => pc[b] = "read"
      BY <1>0, <1>8 DEF Notify, NotifyAll, StopsSleeping, Drain
    <2> QED  BY <1>2, <2>1, <2>2
  <1> QED  BY <1>1, <1>4, <1>5, <1>6, <1>7, <1>8 DEF WaitStep

\* Entries S leave the list, their notified ones taken off the count.
LEMMA LeaveBooks ==
  ASSUME Books, NEW S \in SUBSET waiters, waiters' = waiters \ S, next_token' = next_token,
         owed' = owed - Cardinality({w \in S : w.notified})
  PROVE  Books'
  <1> DEFINE out == {w \in S : w.notified}
  <1>1. IsFiniteSet(waiters) /\ IsFiniteSet(Notified) /\ IsFiniteSet(waiters')
    <2>1. Notified \subseteq waiters /\ waiters' \subseteq waiters  BY DEF Notified
    <2> QED  BY <2>1, FS_Subset DEF Books
  <1>2. Notified' = Notified \ out  BY DEF Notified
  <1>3. out \subseteq Notified  BY DEF Notified
  <1>4. IsFiniteSet(out) /\ Notified \cap out = out  BY <1>1, <1>3, FS_Subset
  <1>5. Cardinality(Notified \ out) = Cardinality(Notified) - Cardinality(Notified \cap out)
    BY <1>1, FS_Difference
  <1>6. Cardinality(Notified') = owed'
    BY <1>2, <1>4, <1>5 DEF Books, CountsMatchWakeups, Notified
  <1>7. CountsMatchWakeups'  BY <1>6 DEF CountsMatchWakeups, Notified
  <1> QED  BY <1>1, <1>7 DEF Books

\* notify marks the chosen entries and counts them.
LEMMA NotifyBooks ==
  ASSUME Books, NEW C \in SUBSET waiters, \A w \in C : ~w.notified,
         waiters' = (waiters \ C) \cup {[w EXCEPT !.notified = TRUE] : w \in C},
         next_token' = next_token, owed' = owed + Cardinality(C)
  PROVE  Books'
  <1> DEFINE mark(w) == [w EXCEPT !.notified = TRUE]
             M == {mark(w) : w \in C}
             f == [w \in C |-> mark(w)]
  <1>1. IsFiniteSet(waiters) /\ IsFiniteSet(Notified) /\ IsFiniteSet(C)
    <2>1. Notified \subseteq waiters  BY DEF Notified
    <2> QED  BY <2>1, FS_Subset DEF Books
  <1>2. \A w \in waiters : /\ mark(w) \in Waiter /\ mark(w).notified
                           /\ mark(w).token = w.token
    <2> SUFFICES ASSUME NEW w \in waiters
                 PROVE  mark(w) \in Waiter /\ mark(w).notified /\ mark(w).token = w.token
      OBVIOUS
    <2>1. w \in Waiter  BY DEF Books
    <2> QED  BY <2>1 DEF Waiter
  <1> HIDE DEF mark
  <1>3. \A v, w \in C : mark(v) = mark(w) => v = w  BY <1>2 DEF Books
  <1>4. f \in Bijection(C, M)
    BY <1>3 DEF Bijection, Injection, Surjection, IsInjective
  <1>6. waiters' = (waiters \ C) \cup M  BY DEF mark
  <1>14. \A x : x \in M <=> \E w \in C : x = mark(w)  OBVIOUS
  <1> HIDE DEF M, f
  <1>5. IsFiniteSet(M) /\ Cardinality(M) = Cardinality(C)
    BY <1>1, <1>4, FS_Bijection DEF ExistsBijection
  <1>7. IsFiniteSet(waiters')
    <2>1. IsFiniteSet(waiters \ C)  BY <1>1, FS_Difference
    <2>2. IsFiniteSet((waiters \ C) \cup M)  BY ONLY <1>5, <2>1, FS_Union
    <2> QED  BY ONLY <1>6, <2>2
  <1>8. Notified' = Notified \cup M
    <2>1. \A w \in M : w.notified  BY <1>2, <1>14
    <2>2. Notified \cap C = {}  BY DEF Notified
    <2> QED  BY <1>6, <2>1, <2>2 DEF Notified
  <1>9. Notified \cap M = {}
    <2> SUFFICES ASSUME NEW w \in C, mark(w) \in waiters PROVE FALSE
      BY <1>14 DEF Notified
    <2>1. mark(w) = w  BY <1>2 DEF Books
    <2> QED  BY <1>2, <2>1
  <1>10. Cardinality(Notified') = owed'
    <2>1. Cardinality(Notified \cup M)
            = Cardinality(Notified) + Cardinality(M) - Cardinality(Notified \cap M)
      BY <1>1, <1>5, FS_Union
    <2>2. Cardinality({}) = 0 /\ Cardinality(Notified) \in Nat /\ Cardinality(M) \in Nat
      BY <1>1, <1>5, FS_EmptySet, FS_CardinalityType
    <2>3. owed = Cardinality(Notified)  BY DEF Books, CountsMatchWakeups, Notified
    <2>4. owed' = owed + Cardinality(C)  OBVIOUS
    <2>5. Cardinality(Notified \cap M) = 0  BY <1>9, <2>2
    <2>6. Cardinality(Notified \cup M) = owed + Cardinality(C)
      <3> DEFINE n == Cardinality(Notified) m == Cardinality(M) u == Cardinality(Notified \cup M)
                 d == Cardinality(Notified \cap M)
      <3>1. u = n + m - d /\ n \in Nat /\ m \in Nat /\ d = 0 /\ owed = n /\ m = Cardinality(C)
        BY <1>5, <2>1, <2>2, <2>3, <2>5
      <3> HIDE DEF n, m, u, d
      <3>2. u = owed + m  BY ONLY <3>1
      <3> QED  BY <3>1, <3>2 DEF u
    <2> QED  BY <1>8, <2>4, <2>6
  <1>11. CountsMatchWakeups'  BY <1>10 DEF CountsMatchWakeups, Notified
  <1>12. /\ waiters' \subseteq Waiter
         /\ \A w \in waiters' : w.token <= next_token'
    BY <1>2, <1>6, <1>14 DEF Books
  <1>13. ASSUME NEW v \in waiters', NEW w \in waiters', v.token = w.token PROVE v = w
    <2> DEFINE From(x, y) == y.token = x.token /\ (y \in C => x = mark(y)) /\ (y \notin C => x = y)
    <2>1. \A x \in waiters' : \E y \in waiters : From(x, y)
      BY <1>2, <1>6, <1>14
    <2> HIDE DEF From
    <2>2. PICK y \in waiters : From(v, y)  BY <2>1
    <2>3. PICK z \in waiters : From(w, z)  BY <2>1
    <2>4. y = z  BY <1>13, <2>2, <2>3 DEF Books, From
    <2> QED  BY <2>2, <2>3, <2>4 DEF From
  <1> QED  BY <1>7, <1>11, <1>12, <1>13 DEF Books

\* A new entry has the next token and is not notified.
LEMMA RegisterBooks ==
  ASSUME Books, NEW e \in Waiter, e.token = next_token + 1, ~e.notified,
         next_token < MaxTokens, next_token' = next_token + 1,
         waiters' = waiters \cup {e}, owed' = owed
  PROVE  Books'
  <1>1. IsFiniteSet(waiters')  BY FS_AddElement DEF Books
  <1>2. {w \in waiters' : w.notified} = {w \in waiters : w.notified}  OBVIOUS
  <1>3. CountsMatchWakeups'  BY <1>2 DEF Books, CountsMatchWakeups
  <1>4. \A w \in waiters : w.token \in Nat /\ w.token <= next_token
    BY DEF Books, Waiter, Tokens
  <1>5. next_token' \in 0..MaxTokens  BY AtomicsAssumption DEF Books
  <1>6. \A w \in waiters' : w.token <= next_token'
    <2> TAKE w \in waiters'
    <2>1. next_token \in Nat  BY DEF Books
    <2>2. CASE w = e  BY <2>1, <2>2
    <2>3. CASE w \in waiters  BY <1>4, <2>1, <2>3
    <2> QED  BY <2>2, <2>3
  <1>7. \A v, w \in waiters' : v.token = w.token => v = w
    <2>1. \A w \in waiters : w.token # e.token
      BY <1>4 DEF Books
    <2> QED  BY <2>1 DEF Books
  <1> QED  BY <1>1, <1>3, <1>5, <1>6, <1>7 DEF Books

LEMMA BooksStep ==
  ASSUME IInv, Plain, Room, Books, Next
  PROVE  Books'
  <1>1. PICK a \in Agents : BeginCall(a) \/ MemoryStep(a) \/ WaitStep(a)
                            \/ Notify(a) \/ NotifyAll(a) \/ StopsSleeping(a) \/ Drain(a)
    BY DEF Next
  <1>2. ASSUME UNCHANGED <<waiters, owed>>, next_token' \in 0..MaxTokens, next_token <= next_token'
        PROVE  Books'
    <2>1. \A w \in waiters : w.token \in Nat  BY DEF Books, Waiter, Tokens
    <2>2. next_token \in Nat /\ next_token' \in Nat  BY <1>2 DEF Books
    <2>3. \A w \in waiters : w.token <= next_token'  BY <1>2, <2>1, <2>2 DEF Books
    <2> QED  BY <1>2, <2>3 DEF Books, CountsMatchWakeups
  <1>3. CASE UNCHANGED listVars
    BY <1>2, <1>3 DEF listVars, Books
  <1>4. CASE BeginCall(a) \/ MemoryStep(a) \/ NotEqual(a) \/ NotifyAll(a) \/ StopsSleeping(a)
    BY <1>3, <1>4 DEF BeginCall, BeginLoad, BeginStore, BeginRmw, BeginWait, Begin, NotEqual,
       MemoryStep, ReadByte, ReadAgain, LoadReturns, RmwStores, CasFails, WriteByte,
       NotifyAll, StopsSleeping
  <1>5. ASSUME Matches(a) PROVE /\ next_token < MaxTokens /\ next_token \in Nat
                                /\ next_token + 1 \in 0..MaxTokens
    BY <1>5, AtomicsAssumption DEF Matches, Stable, Room, Books
  <1>6. CASE TimesOutAtOnce(a)
    <2>1. /\ Matches(a) /\ UNCHANGED <<waiters, owed>>
          /\ next_token' \in {next_token, next_token + 1}
      BY <1>6 DEF TimesOutAtOnce
    <2>2. next_token' \in 0..MaxTokens /\ next_token <= next_token'
      BY <1>5, <2>1 DEF Books
    <2> QED  BY <1>2, <2>1, <2>2
  <1>7. CASE Register(a)
    <2> DEFINE e == [token |-> next_token + 1, agent |-> a, kind |-> op[a].kind, key |-> op[a].key,
                     deadline |-> op[a].deadline, notified |-> FALSE, expected |-> op[a].expected]
    <2>1. /\ Matches(a) /\ waiters' = waiters \cup {e} /\ next_token' = next_token + 1
          /\ owed' = owed
      BY <1>7 DEF Register
    <2>2. op[a].kind \in WaitOps /\ op[a] \in Calls(a)
      BY <2>1 DEF Matches, Stable, IInv, Coherent, InCall
    <2>3. op[a].key \in Keys /\ op[a].expected \in Words /\ op[a].deadline \in BOOLEAN
      BY <2>2, CallFields
    <2>4. next_token + 1 \in Tokens  BY <1>5, <2>1, AtomicsAssumption DEF Tokens
    <2>5. e \in Waiter /\ e.token = next_token + 1 /\ ~e.notified
      BY <2>2, <2>3, <2>4 DEF Waiter
    <2>6. next_token < MaxTokens  BY <1>5, <2>1
    <2> HIDE DEF e
    <2> QED  BY <2>1, <2>5, <2>6, RegisterBooks
  <1>8. CASE WokenUp(a)
    <2>1. CASE UNCHANGED listVars  BY <1>3, <2>1
    <2>2. ASSUME NEW w \in waiters, w.notified, Leave({w}, 1) PROVE Books'
      <3>1. {v \in {w} : v.notified} = {w}  BY <2>2
      <3>2. Cardinality({v \in {w} : v.notified}) = 1  BY <3>1, FS_Singleton
      <3> QED  BY <2>2, <3>2, LeaveBooks DEF Leave
    <2>3. ASSUME NEW w \in waiters, ~w.notified, Leave({w}, 0) PROVE Books'
      <3>1. {v \in {w} : v.notified} = {}  BY <2>3
      <3>2. Cardinality({v \in {w} : v.notified}) = 0  BY <3>1, FS_EmptySet
      <3> QED  BY <2>3, <3>2, LeaveBooks DEF Leave
    <2> QED  BY <1>8, <2>1, <2>2, <2>3 DEF WokenUp, Sleeping
  <1>9. CASE Notify(a)
    <2>1. PICK k \in Keys, count \in Counts :
            /\ waiters' = (waiters \ Chosen(k, count))
                            \cup {[w EXCEPT !.notified = TRUE] : w \in Chosen(k, count)}
            /\ owed' = owed + Cardinality(Chosen(k, count)) /\ next_token' = next_token
      BY <1>9 DEF Notify
    <2>2. Chosen(k, count) \in SUBSET waiters /\ \A w \in Chosen(k, count) : ~w.notified
      BY DEF Chosen, Unnotified
    <2> QED  BY <2>1, <2>2, NotifyBooks
  <1>10. CASE Drain(a)
    <2> DEFINE told == {w \in Owned(a) : w.notified}
    <2>1. PICK late \in SUBSET {w \in Owned(a) : w.deadline /\ ~w.notified} :
            Leave(told \cup late, Cardinality(told))
      BY <1>10 DEF Drain
    <2>2. {w \in told \cup late : w.notified} = told  OBVIOUS
    <2>3. told \cup late \in SUBSET waiters  BY DEF Owned
    <2>4. owed' = owed - Cardinality({w \in told \cup late : w.notified})  BY <2>1, <2>2 DEF Leave
    <2> HIDE DEF told
    <2> QED  BY <2>1, <2>3, <2>4, LeaveBooks DEF Leave
  <1> QED  BY <1>1, <1>4, <1>6, <1>7, <1>8, <1>9, <1>10 DEF WaitStep

LEMMA BooksInvariant == Spec => [](IInv /\ Plain /\ Room /\ Books)
  <1>1. Init => IInv /\ Plain /\ Room /\ Books  BY InitIInv, InitBooks
  <1>2. (IInv /\ Plain /\ Room /\ Books) /\ [Next]_vars => (IInv /\ Plain /\ Room /\ Books)'
    <2> SUFFICES ASSUME IInv, Plain, Room, Books, [Next]_vars
                 PROVE  (IInv /\ Plain /\ Room /\ Books)'
      OBVIOUS
    <2>1. CASE Next  BY <2>1, NextIInv, PlainStep, RoomStep, BooksStep
    <2>2. CASE UNCHANGED vars
      <3>1. (Plain /\ Room /\ Books)'
        BY <2>2 DEF vars, Plain, Room, Books, CountsMatchWakeups
      <3> QED  BY <3>1, NextIInv
    <2> QED  BY <2>1, <2>2
  <1> QED  BY <1>1, <1>2, PTL DEF Spec

\* notify's answer is the truth: the number of waiters it has counted and that
\* were not told "ok" yet is the number of marked entries in the list
\* (WaiterState::notify, wait's loop and drain_atomics_async), whatever
\* deadlines expire in between and however many agents notify.
THEOREM NotifyCountsTheWoken == Spec => []CountsMatchWakeups
  <1>1. Books => CountsMatchWakeups  BY DEF Books
  <1> QED  BY <1>1, BooksInvariant, PTL

\* Every variable keeps its type; in particular no wait registers without a
\* token left, the number of wakeups owed never goes below zero (add_waiter and
\* the locks that surround it).
THEOREM TypesAreKept == Spec => []TypeOK
  <1>1. IInv /\ Plain /\ Books => TypeOK
    <2> SUFFICES ASSUME IInv, Plain, Books PROVE TypeOK  OBVIOUS
    <2>1. Notified \subseteq waiters  BY DEF Notified
    <2>2. IsFiniteSet(Notified)  BY <2>1, FS_Subset DEF Books
    <2>3. Cardinality(Notified) \in Nat  BY <2>2, FS_CardinalityType
    <2>4. owed \in Nat  BY <2>3 DEF Books, CountsMatchWakeups, Notified
    <2> QED  BY <2>4 DEF TypeOK, IInv, Types, Plain, Books
  <1> QED  BY <1>1, BooksInvariant, PTL
=============================================================================
