------------------------------ MODULE MCHandler ------------------------------
(***************************************************************************)
(* Instances of Handler for TLC.                                           *)
(***************************************************************************)
EXTENDS Handler, TLC

Symmetry == Permutations(Conn) \cup Permutations(Req)

(* Bound of the run about the scans: keepalives stay out of the channels    *)
(* and a call is followed until it holds a connection; what it does then    *)
(* is what module Connection is checked for.                                *)
Scanning ==
  /\ \A c \in Conn : ka[c] # "send"
  /\ \A r \in Req : pc[r] \in {"idle", "pick", "got", "sleep", "unreachable", "cancelled"}

(* Bound of the run about liveness: a call scans once.  The steps that this *)
(* and Scanning cut off (KeepaliveTick, TakeId, Wake) are under no fairness *)
(* in PoolSpec, so what is left are behaviours of it, to their ends.        *)
OneScan == Scanning /\ \A r \in Req : attempts[r] > 0 => pc[r] # "pick"
=============================================================================
