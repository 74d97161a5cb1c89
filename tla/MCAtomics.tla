----------------------------- MODULE MCAtomics -----------------------------
(* Small instances of Atomics for TLC: two-byte elements. *)
EXTENDS Atomics, TLC

CONSTANTS page, w1, w2
PageAndWorkers == {page, w1, w2}
TwoWorkers == {w1, w2}
TwoWords == {<<0, 0>>, <<1, 1>>}
ZeroWord == <<0, 0>>

\* A flag that the page stores and notifies, and threads wait for.
FlagUses == [a \in Agents |-> [k \in Keys |->
               CASE a = page -> {"store", "notify"}
                 [] a = w1 -> {"wait", "waitAsync"}
                 [] a = w2 -> {"wait"}]]

\* A counter that every thread loads and modifies.
CounterUses == [a \in Agents |-> [k \in Keys |-> {"rmw", "cas", "load"}]]

StoreAndLoad == [a \in Agents |-> [k \in Keys |-> IF a = page THEN {"store"} ELSE {"load"}]]
=============================================================================
