------------------------------- MODULE Ordering -------------------------------
(***************************************************************************)
(* Things put in order.  SelectSeq and SortSeq would do; their definitions *)
(* are recursive or hidden from a prover, and this one is by counting.     *)
(***************************************************************************)
EXTENDS Integers, Sequences, FiniteSets

\* The places of a row of numbers that come no later than place i.
UpTo(key, i) ==
  {j \in DOMAIN key : key[j] < key[i] \/ (key[j] = key[i] /\ j <= i)}

\* Its places in the order of their numbers, equal ones as they stand.
Places(key) ==
  [k \in 1 .. Cardinality(DOMAIN key) |->
     CHOOSE i \in DOMAIN key : Cardinality(UpTo(key, i)) = k]

\* A finite set of numbers, from the least on.
InOrder(S) == Places([i \in S |-> i])

\* A sequence of numbers, sorted.
Ascending(s) == [k \in DOMAIN s |-> s[Places(s)[k]]]
=============================================================================
