---------------------------- MODULE MCConnection ----------------------------
(***************************************************************************)
(* Instances of Connection for TLC.  Connections and calls are model       *)
(* values that the specification treats alike.                             *)
(***************************************************************************)
EXTENDS Connection, TLC

Symmetry == Permutations(Conn) \cup Permutations(Req)

(* Bound of the run whose ids wrap: calls are not cancelled, keepalives    *)
(* stay away and nothing is followed once the connection is closed, so     *)
(* that three calls over two ids remain within TLC's reach.                *)
Busy == /\ \A r \in Req : pc[r] # "cancelled"
        /\ \A c \in Conn : ka[c] # "send" /\ ~closed[c]
=============================================================================
